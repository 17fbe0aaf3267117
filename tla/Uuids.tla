--------------------------------- MODULE Uuids --------------------------------
(***************************************************************************)
(* uuid4(): identifiers that never repeat, drawn by several processes.     *)
(* The number of identifiers drawn so far stands for the randomness.       *)
(***************************************************************************)
EXTENDS Naturals

VARIABLE lastId     \* the last identifier drawn anywhere

NoId == 0

UuidsInit == lastId = NoId

NewId == lastId + 1

Draw == lastId' = NewId

===============================================================================
