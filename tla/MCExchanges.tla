---------------------------- MODULE MCExchanges ----------------------------
(***************************************************************************)
(* What takes several exchanges and has to come to an end: a command and   *)
(* the daemon it finds, starts or stops; the requests and events of a      *)
(* connection; a batch of reads or a walk over pages; an upload; the files *)
(* of a task; a sign-in; rounds of delta with the double of Graph.  `part` *)
(* says which one runs, and the others stay where they started.            *)
(***************************************************************************)
EXTENDS Session, Connection, GraphReads, Upload, Attached, DeviceCode, GraphDouble

CONSTANT report  \* an attachment the task has

VARIABLE part

TwoBuilds == {[c \in Clients |-> 2], [c \in Clients |-> IF c = "a" THEN 1 ELSE 2]}

Init ==
  /\ part \in {"session", "connection", "reads", "upload", "files", "device", "double"}
  /\ SessionInit /\ ConnInit /\ ReadsInit /\ UploadInit /\ AttachedInit /\ DeviceInit /\ DoubleInit
  /\ part # "session" => \A c \in Clients : clients[c].build = 2
  /\ part # "upload" => chunks = 0 /\ copy = "none"
  /\ part # "reads" => pageCount = 1
  /\ part # "double" => scope = TheLists

Next ==
  /\ UNCHANGED part
  /\ \/ part = "session" /\ SessionNext /\ UNCHANGED <<connVars, readsVars, uploadVars, attVars, deviceVars, doubleVars>>
     \/ part = "connection" /\ ConnNext /\ UNCHANGED <<sessionVars, readsVars, uploadVars, attVars, deviceVars, doubleVars>>
     \/ part = "reads" /\ ReadsNext /\ UNCHANGED <<sessionVars, connVars, uploadVars, attVars, deviceVars, doubleVars>>
     \/ part = "upload" /\ UploadNext /\ UNCHANGED <<sessionVars, connVars, readsVars, attVars, deviceVars, doubleVars>>
     \/ part = "files" /\ AttachedNext /\ UNCHANGED <<sessionVars, connVars, readsVars, uploadVars, deviceVars, doubleVars>>
     \/ part = "device" /\ DeviceNext /\ UNCHANGED <<sessionVars, connVars, readsVars, uploadVars, attVars, doubleVars>>
     \/ part = "double" /\ DoubleNext
        /\ UNCHANGED <<sessionVars, connVars, readsVars, uploadVars, attVars, deviceVars>>

\* Whatever a command's daemons and a batch's answers do, both come to an end.
ExchangesEnd == CommandEnds /\ EachEnds

Spec ==
  /\ Init /\ [][Next]_<<part, sessionVars, connVars, readsVars, uploadVars, attVars, deviceVars, doubleVars>>
  /\ \A p \in Pids : WF_sessionVars(part = "session" /\ DaemonStep(p))
  /\ \A c \in Clients : WF_sessionVars(part = "session" /\ ClientStep(c))
  /\ \A c \in Peers : /\ WF_connVars(part = "connection" /\ DaemonSide(c))
                      /\ WF_connVars(part = "connection" /\ ClientSide(c))
  /\ WF_readsVars(part = "reads" /\ (SendBatch \/ AnswerBatch \/ FinishEach \/ GetPage))
  /\ WF_uploadVars(part = "upload" /\ Attempt)
  /\ WF_deviceVars(part = "device" /\ Poll)
=============================================================================
