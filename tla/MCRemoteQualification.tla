----------------------- MODULE MCRemoteQualification -----------------------
(* RemoteQualification with one client, who signs the visual audit and asks *)
(* for another GPU between two invocations, or has signed before the first. *)
EXTENDS RemoteQualification

CONSTANTS k1, unsigned, signed, g1, g2, receipt

AskLater == [c \in Config |-> IF c = signed THEN g2 ELSE None]
Receipts == [c \in Config |-> IF c = signed THEN receipt ELSE None]
BeginUnsigned == [k \in Client |-> unsigned]
BeginSigned == [k \in Client |-> signed]
SignThen == [c \in Config |-> signed]
=============================================================================
