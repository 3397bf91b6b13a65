-------------------------------- MODULE MCIo --------------------------------
(***************************************************************************)
(* One I/O operation through all its steps, the I/O service with its       *)
(* queues, and the addresses of sockets.  A behaviour is of one of them,   *)
(* chosen in the initial state; the others rest in theirs.                 *)
(***************************************************************************)
EXTENDS IoOperation, MCIoService

CONSTANTS
    Values, MaxLength                     \* see Ipv6Address

VARIABLES
    object,
    text                                  \* see Ipv6Address

Address == INSTANCE Ipv6Address

mcVars == <<object, serviceVars, ioVars, text>>

\* An operation that rests is the close of a socket.
MCInit ==
    /\ object \in {"service", "operation", "address"}
    /\ ServiceInit
    /\ Init
    /\ object # "operation" => /\ kind = "close" /\ ~cancellable
                               /\ offset = 0 /\ position = 0
    /\ IF object = "address" THEN Address!Init ELSE text = <<>>

MCNext ==
    \/ object = "service" /\ ServiceNext /\ UNCHANGED <<object, ioVars, text>>
    \/ object = "operation" /\ Next /\ UNCHANGED <<object, serviceVars, text>>
    \/ object = "address" /\ Address!Edit /\ UNCHANGED <<object, serviceVars, ioVars>>

MCSpec == MCInit /\ [][MCNext]_mcVars

\* from_string() reads the texts of the grammar, each as what it stands for,
\* and what to_string() writes.
ReadsTheGrammar ==
    object = "address" => Address!ReadsTheGrammar /\ Address!RoundTrip

=============================================================================
