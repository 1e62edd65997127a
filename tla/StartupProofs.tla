--------------------------- MODULE StartupProofs ----------------------------
(***************************************************************************)
(* Proofs about Startup for every value of MaxSignals, safety only.  What  *)
(* the exit status of the parent says follows from what the byte in the    *)
(* pipe says, and that from where each of the three processes can be when  *)
(* the byte is written: IInv ties the places, the write end, the byte and  *)
(* the exit status together, one conjunct for each.                        *)
(***************************************************************************)
EXTENDS Startup, TLAPS

USE StartupAssumption

\* Before the parent has forked; what InstallTerm and FirstTest lead through; before the
\* daemon has written its byte.
Early == {"main", "configure", "construct", "daemonize", "pipe"}
Serving == {"install", "test", "serving"}
Unreported == {"detach", "caps", "report"}

\* Where each process can be, and who has forked by then.
PlaceInv ==
  /\ pc["parent"] \in Early \cup {"fork", "close", "read", "blocked"} \cup Serving \cup Ends
  /\ pc["child"] \in {"none", "fork2", "leave"} \cup Ends
  /\ pc["daemon"] \in {"none"} \cup Unreported \cup Serving \cup Ends
  /\ pc["child"] # "none" => pc["parent"] \in {"close", "read", "blocked"} \cup Ends
  /\ pc["daemon"] # "none" => pc["child"] \in {"leave"} \cup Ends

\* The pipe is made by a parent that goes on to fork, and whoever has still to fork or to
\* report holds its write end: end of file means that nobody will.
PipeInv ==
  /\ pc["parent"] \in Early \cup Serving => pipe_ok = FALSE
  /\ pipe_ok = TRUE =>
       /\ pc["parent"] \in {"fork", "close"} => "parent" \in writers
       /\ pc["child"] = "fork2" => "child" \in writers
       /\ pc["daemon"] \in Unreported => "daemon" \in writers

\* What the byte in the pipe says: 0 that no daemon will serve, 1 that it is ready.
DataInv ==
  /\ pipe_ok = FALSE => data = <<>>
  /\ data # <<>> => pc["child"] \notin {"none", "fork2"} /\ pc["daemon"] \notin Unreported
  /\ data = <<0>> => pc["daemon"] \notin Serving
  /\ data = <<1>> => ready = TRUE
  /\ pipe_ok = TRUE /\ pc["daemon"] \in Serving => data = <<1>>

\* What the exit status of the parent says: failure also that no daemon is on its way.
ExitInv ==
  /\ pc["parent"] = "success" /\ pipe_ok = TRUE => ready = TRUE
  /\ pc["parent"] = "failure" /\ pipe_ok = TRUE =>
       pc["child"] # "fork2" /\ pc["daemon"] \notin Unreported \cup Serving

IInv == TypeOK /\ PlaceInv /\ PipeInv /\ DataInv /\ ExitInv

\* TypeOK in parts that the provers can take on one at a time.
Flags == pipe_ok \in BOOLEAN /\ ready \in BOOLEAN
Values ==
  /\ optval \in Options /\ conf \in Config /\ outcome \in Outcome
  /\ data \in {<<>>, <<0>>, <<1>>}
  /\ writers \subseteq Proc /\ readers \subseteq Proc
  /\ signals \in 0 .. MaxSignals
PlaceType == pc \in [Proc -> Places \cup Ends]
SignalType ==
  /\ handlers \in [Proc -> SUBSET Signals]
  /\ last_signal \in [Proc -> Signals \cup {"none"}]

LEMMA TypeParts == TypeOK <=> Flags /\ Values /\ PlaceType /\ SignalType
  BY Zenon DEF TypeOK, Flags, Values, PlaceType, SignalType

LEMMA FirstByte == ASSUME NEW b PROVE Append(<<>>, b) = <<b>>
  OBVIOUS

-----------------------------------------------------------------------------

LEMMA StartupInit == Init => IInv
<1> SUFFICES ASSUME Init PROVE IInv
  OBVIOUS
<1>1. Flags
  BY Zenon DEF Init, Flags
<1>2. Values /\ PlaceType /\ SignalType
  BY DEF Init, Values, PlaceType, SignalType, Outcome, Places, Proc, Ends
<1>3. pc["parent"] = "main" /\ pc["child"] = "none" /\ pc["daemon"] = "none"
  BY DEF Init, Proc
<1>4. PlaceInv
  BY <1>3 DEF PlaceInv, Early
<1>5. PipeInv /\ DataInv /\ ExitInv
  BY <1>3 DEF Init, PipeInv, DataInv, ExitInv, Unreported, Serving
<1> QED
  BY <1>1, <1>2, <1>4, <1>5, TypeParts DEF IInv

-----------------------------------------------------------------------------
(* One lemma for each action.                                              *)

LEMMA InstallHandlersStep == IInv /\ InstallHandlers => IInv'
<1> SUFFICES ASSUME IInv, InstallHandlers PROVE IInv'
  OBVIOUS
<1> USE DEF InstallHandlers, Flags, Values, PlaceType, SignalType, input, pipe, Goto
<1>1. /\ Flags /\ Values /\ PlaceType /\ SignalType
      /\ PlaceInv /\ PipeInv /\ DataInv /\ ExitInv
  BY TypeParts, Zenon DEF IInv
<1>2. Flags'
  BY <1>1, Zenon
<1>3. Values'
  BY <1>1 DEF Proc
<1>4. PlaceType'
  BY <1>1 DEF Proc, Places, Ends
<1>5. SignalType'
  BY <1>1 DEF Proc, Signals
<1>6. PlaceInv'
  BY <1>1 DEF PlaceInv, Proc, Ends, Early, Serving, Unreported
<1>7. PipeInv'
  BY <1>1 DEF PlaceInv, PipeInv, Proc, Ends, Early, Serving, Unreported
<1>8. DataInv'
  BY <1>1 DEF PlaceInv, PipeInv, DataInv, Proc, Ends, Early, Serving, Unreported
<1>9. ExitInv'
  BY <1>1 DEF PlaceInv, PipeInv, DataInv, ExitInv, Proc, Ends, Early, Serving, Unreported
<1>10. TypeOK'
  BY <1>2, <1>3, <1>4, <1>5, Zenon DEF TypeOK
<1> QED
  BY <1>6, <1>7, <1>8, <1>9, <1>10, Zenon DEF IInv

LEMMA ConfigureStep == IInv /\ Configure => IInv'
<1> SUFFICES ASSUME IInv, Configure PROVE IInv'
  OBVIOUS
<1> USE DEF Configure, Flags, Values, PlaceType, SignalType, input, pipe, Goto, Exit
<1>1. /\ Flags /\ Values /\ PlaceType /\ SignalType
      /\ PlaceInv /\ PipeInv /\ DataInv /\ ExitInv
  BY TypeParts, Zenon DEF IInv
<1>2. Flags'
  BY <1>1, Zenon
<1>3. Values'
  BY <1>1 DEF Proc, parse_configuration, Config, Outcome
<1>4. PlaceType'
  BY <1>1 DEF Proc, Places, Ends
<1>5. SignalType'
  BY <1>1 DEF Proc, Signals
<1>6. PlaceInv'
  BY <1>1 DEF PlaceInv, Proc, Ends, Early, Serving, Unreported
<1>7. PipeInv'
  BY <1>1 DEF PlaceInv, PipeInv, Proc, Ends, Early, Serving, Unreported
<1>8. DataInv'
  BY <1>1 DEF PlaceInv, PipeInv, DataInv, Proc, Ends, Early, Serving, Unreported
<1>9. ExitInv'
  BY <1>1 DEF PlaceInv, PipeInv, DataInv, ExitInv, Proc, Ends, Early, Serving, Unreported
<1>10. TypeOK'
  BY <1>2, <1>3, <1>4, <1>5, Zenon DEF TypeOK
<1> QED
  BY <1>6, <1>7, <1>8, <1>9, <1>10, Zenon DEF IInv

LEMMA ConstructStep == IInv /\ Construct => IInv'
<1> SUFFICES ASSUME IInv, Construct PROVE IInv'
  OBVIOUS
<1> USE DEF Construct, Flags, Values, PlaceType, SignalType, input, pipe, Goto, Exit,
     ConstructorFails, LoadLeasesThrows
<1>1. /\ Flags /\ Values /\ PlaceType /\ SignalType
      /\ PlaceInv /\ PipeInv /\ DataInv /\ ExitInv
  BY TypeParts, Zenon DEF IInv
<1>2. Flags'
  BY <1>1, Zenon
<1>3. Values'
  BY <1>1 DEF Proc
<1>4. PlaceType'
  BY <1>1 DEF Proc, Places, Ends
<1>5. SignalType'
  BY <1>1 DEF Proc, Signals
<1>6. PlaceInv'
  BY <1>1 DEF PlaceInv, Proc, Ends, Early, Serving, Unreported
<1>7. PipeInv'
  BY <1>1 DEF PlaceInv, PipeInv, Proc, Ends, Early, Serving, Unreported
<1>8. DataInv'
  BY <1>1 DEF PlaceInv, PipeInv, DataInv, Proc, Ends, Early, Serving, Unreported
<1>9. ExitInv'
  BY <1>1 DEF PlaceInv, PipeInv, DataInv, ExitInv, Proc, Ends, Early, Serving, Unreported
<1>10. TypeOK'
  BY <1>2, <1>3, <1>4, <1>5, Zenon DEF TypeOK
<1> QED
  BY <1>6, <1>7, <1>8, <1>9, <1>10, Zenon DEF IInv

LEMMA ResetSignalsStep == IInv /\ ResetSignals => IInv'
<1> SUFFICES ASSUME IInv, ResetSignals PROVE IInv'
  OBVIOUS
<1> USE DEF ResetSignals, Flags, Values, PlaceType, SignalType, input, pipe, Goto, Exit
<1>1. /\ Flags /\ Values /\ PlaceType /\ SignalType
      /\ PlaceInv /\ PipeInv /\ DataInv /\ ExitInv
  BY TypeParts, Zenon DEF IInv
<1>2. Flags'
  BY <1>1, Zenon
<1>3. Values'
  BY <1>1 DEF Proc
<1>4. PlaceType'
  BY <1>1 DEF Proc, Places, Ends
<1>5. SignalType'
  BY <1>1 DEF Proc, Signals
<1>6. PlaceInv'
  BY <1>1 DEF PlaceInv, Proc, Ends, Early, Serving, Unreported
<1>7. PipeInv'
  BY <1>1 DEF PlaceInv, PipeInv, Proc, Ends, Early, Serving, Unreported
<1>8. DataInv'
  BY <1>1 DEF PlaceInv, PipeInv, DataInv, Proc, Ends, Early, Serving, Unreported
<1>9. ExitInv'
  BY <1>1 DEF PlaceInv, PipeInv, DataInv, ExitInv, Proc, Ends, Early, Serving, Unreported
<1>10. TypeOK'
  BY <1>2, <1>3, <1>4, <1>5, Zenon DEF TypeOK
<1> QED
  BY <1>6, <1>7, <1>8, <1>9, <1>10, Zenon DEF IInv

LEMMA MakePipeStep == IInv /\ MakePipe => IInv'
<1> SUFFICES ASSUME IInv, MakePipe PROVE IInv'
  OBVIOUS
<1> USE DEF MakePipe, Flags, Values, PlaceType, SignalType, input, pipe, Goto
<1>1. /\ Flags /\ Values /\ PlaceType /\ SignalType
      /\ PlaceInv /\ PipeInv /\ DataInv /\ ExitInv
  BY TypeParts, Zenon DEF IInv
<1>2. Flags'
  BY <1>1, Zenon
<1>3. Values'
  BY <1>1 DEF Proc
<1>4. PlaceType'
  BY <1>1 DEF Proc, Places, Ends
<1>5. SignalType'
  BY <1>1 DEF Proc, Signals
<1>6. PlaceInv'
  BY <1>1 DEF PlaceInv, Proc, Ends, Early, Serving, Unreported
<1>7. PipeInv'
  BY <1>1 DEF PlaceInv, PipeInv, Proc, Ends, Early, Serving, Unreported
<1>8. DataInv'
  BY <1>1 DEF PlaceInv, PipeInv, DataInv, Proc, Ends, Early, Serving, Unreported
<1>9. ExitInv'
  BY <1>1 DEF PlaceInv, PipeInv, DataInv, ExitInv, Proc, Ends, Early, Serving, Unreported
<1>10. TypeOK'
  BY <1>2, <1>3, <1>4, <1>5, Zenon DEF TypeOK
<1> QED
  BY <1>6, <1>7, <1>8, <1>9, <1>10, Zenon DEF IInv

LEMMA ForkChildStep == IInv /\ ForkChild => IInv'
<1> SUFFICES ASSUME IInv, ForkChild PROVE IInv'
  OBVIOUS
<1> USE DEF ForkChild, Flags, Values, PlaceType, SignalType, input, pipe, Goto, Exit,
     ForkInto
<1>1. /\ Flags /\ Values /\ PlaceType /\ SignalType
      /\ PlaceInv /\ PipeInv /\ DataInv /\ ExitInv
  BY TypeParts, Zenon DEF IInv
<1>2. Flags'
  BY <1>1, Zenon
<1>3. Values'
  BY <1>1 DEF Proc
<1>4. PlaceType'
  BY <1>1 DEF Proc, Places, Ends
<1>5. SignalType'
  BY <1>1 DEF Proc, Signals
<1>6. PlaceInv'
  BY <1>1 DEF PlaceInv, Proc, Ends, Early, Serving, Unreported
<1>7. PipeInv'
  BY <1>1 DEF PlaceInv, PipeInv, Proc, Ends, Early, Serving, Unreported
<1>8. DataInv'
  BY <1>1 DEF PlaceInv, PipeInv, DataInv, Proc, Ends, Early, Serving, Unreported
<1>9. ExitInv'
  BY <1>1 DEF PlaceInv, PipeInv, DataInv, ExitInv, Proc, Ends, Early, Serving, Unreported
<1>10. TypeOK'
  BY <1>2, <1>3, <1>4, <1>5, Zenon DEF TypeOK
<1> QED
  BY <1>6, <1>7, <1>8, <1>9, <1>10, Zenon DEF IInv

LEMMA CloseWriteEndStep == IInv /\ CloseWriteEnd => IInv'
<1> SUFFICES ASSUME IInv, CloseWriteEnd PROVE IInv'
  OBVIOUS
<1> USE DEF CloseWriteEnd, Flags, Values, PlaceType, SignalType, input, pipe, Goto
<1>1. /\ Flags /\ Values /\ PlaceType /\ SignalType
      /\ PlaceInv /\ PipeInv /\ DataInv /\ ExitInv
  BY TypeParts, Zenon DEF IInv
<1>2. Flags'
  BY <1>1, Zenon
<1>3. Values'
  BY <1>1 DEF Proc
<1>4. PlaceType'
  BY <1>1 DEF Proc, Places, Ends
<1>5. SignalType'
  BY <1>1 DEF Proc, Signals
<1>6. PlaceInv'
  BY <1>1 DEF PlaceInv, Proc, Ends, Early, Serving, Unreported
<1>7. PipeInv'
  BY <1>1 DEF PlaceInv, PipeInv, Proc, Ends, Early, Serving, Unreported
<1>8. DataInv'
  BY <1>1 DEF PlaceInv, PipeInv, DataInv, Proc, Ends, Early, Serving, Unreported
<1>9. ExitInv'
  BY <1>1 DEF PlaceInv, PipeInv, DataInv, ExitInv, Proc, Ends, Early, Serving, Unreported
<1>10. TypeOK'
  BY <1>2, <1>3, <1>4, <1>5, Zenon DEF TypeOK
<1> QED
  BY <1>6, <1>7, <1>8, <1>9, <1>10, Zenon DEF IInv

LEMMA ReadReportStep == IInv /\ ReadReport => IInv'
<1> SUFFICES ASSUME IInv, ReadReport PROVE IInv'
  OBVIOUS
<1> USE DEF ReadReport, Flags, Values, PlaceType, SignalType, input, pipe, Goto, Exit
<1>1. /\ Flags /\ Values /\ PlaceType /\ SignalType
      /\ PlaceInv /\ PipeInv /\ DataInv /\ ExitInv
  BY TypeParts, Zenon DEF IInv
<1>2. Flags'
  BY <1>1, Zenon
<1>3. Values'
  BY <1>1 DEF Proc
<1>4. PlaceType'
  BY <1>1 DEF Proc, Places, Ends
<1>5. SignalType'
  BY <1>1 DEF Proc, Signals
<1>6. PlaceInv'
  BY <1>1 DEF PlaceInv, Proc, Ends, Early, Serving, Unreported
<1>7. PipeInv'
  BY <1>1 DEF PlaceInv, PipeInv, Proc, Ends, Early, Serving, Unreported
<1>8. DataInv'
  BY <1>1 DEF PlaceInv, PipeInv, DataInv, Proc, Ends, Early, Serving, Unreported
<1>9. ExitInv'
  BY <1>1 DEF PlaceInv, PipeInv, DataInv, ExitInv, Proc, Ends, Early, Serving, Unreported
<1>10. TypeOK'
  BY <1>2, <1>3, <1>4, <1>5, Zenon DEF TypeOK
<1> QED
  BY <1>6, <1>7, <1>8, <1>9, <1>10, Zenon DEF IInv

LEMMA ForkDaemonStep == IInv /\ ForkDaemon => IInv'
<1> SUFFICES ASSUME IInv, ForkDaemon PROVE IInv'
  OBVIOUS
<1> USE DEF ForkDaemon, Flags, Values, PlaceType, SignalType, input, pipe, Goto, Exit,
     ForkInto, ReportFailure, Write, Broken
<1>1. /\ Flags /\ Values /\ PlaceType /\ SignalType
      /\ PlaceInv /\ PipeInv /\ DataInv /\ ExitInv
  BY TypeParts, Zenon DEF IInv
<1>2. Flags'
  BY <1>1, Zenon
<1>3. data' \in {<<>>, <<0>>, <<1>>}
  BY <1>1, FirstByte DEF DataInv, Unreported
<1>4. Values'
  BY <1>1, <1>3 DEF Proc
<1>5. PlaceType'
  BY <1>1 DEF Proc, Places, Ends
<1>6. SignalType'
  BY <1>1 DEF Proc, Signals
<1>7. PlaceInv'
  BY <1>1 DEF PlaceInv, Proc, Ends, Early, Serving, Unreported
<1>8. PipeInv'
  BY <1>1 DEF PlaceInv, PipeInv, Proc, Ends, Early, Serving, Unreported
<1>9. DataInv'
  BY <1>1, FirstByte DEF PlaceInv, PipeInv, DataInv, Proc, Ends, Early, Serving, Unreported
<1>10. ExitInv'
  BY <1>1 DEF PlaceInv, PipeInv, DataInv, ExitInv, Proc, Ends, Early, Serving, Unreported
<1>11. TypeOK'
  BY <1>2, <1>4, <1>5, <1>6, Zenon DEF TypeOK
<1> QED
  BY <1>7, <1>8, <1>9, <1>10, <1>11, Zenon DEF IInv

LEMMA ChildLeavesStep == IInv /\ ChildLeaves => IInv'
<1> SUFFICES ASSUME IInv, ChildLeaves PROVE IInv'
  OBVIOUS
<1> USE DEF ChildLeaves, Flags, Values, PlaceType, SignalType, input, pipe, Goto, Exit
<1>1. /\ Flags /\ Values /\ PlaceType /\ SignalType
      /\ PlaceInv /\ PipeInv /\ DataInv /\ ExitInv
  BY TypeParts, Zenon DEF IInv
<1>2. Flags'
  BY <1>1, Zenon
<1>3. Values'
  BY <1>1 DEF Proc
<1>4. PlaceType'
  BY <1>1 DEF Proc, Places, Ends
<1>5. SignalType'
  BY <1>1 DEF Proc, Signals
<1>6. PlaceInv'
  BY <1>1 DEF PlaceInv, Proc, Ends, Early, Serving, Unreported
<1>7. PipeInv'
  BY <1>1 DEF PlaceInv, PipeInv, Proc, Ends, Early, Serving, Unreported
<1>8. DataInv'
  BY <1>1 DEF PlaceInv, PipeInv, DataInv, Proc, Ends, Early, Serving, Unreported
<1>9. ExitInv'
  BY <1>1 DEF PlaceInv, PipeInv, DataInv, ExitInv, Proc, Ends, Early, Serving, Unreported
<1>10. TypeOK'
  BY <1>2, <1>3, <1>4, <1>5, Zenon DEF TypeOK
<1> QED
  BY <1>6, <1>7, <1>8, <1>9, <1>10, Zenon DEF IInv

LEMMA DetachStep == IInv /\ Detach => IInv'
<1> SUFFICES ASSUME IInv, Detach PROVE IInv'
  OBVIOUS
<1> USE DEF Detach, Flags, Values, PlaceType, SignalType, input, pipe, Goto, Exit
<1>1. /\ Flags /\ Values /\ PlaceType /\ SignalType
      /\ PlaceInv /\ PipeInv /\ DataInv /\ ExitInv
  BY TypeParts, Zenon DEF IInv
<1>2. Flags'
  BY <1>1, Zenon
<1>3. Values'
  BY <1>1 DEF Proc
<1>4. PlaceType'
  BY <1>1 DEF Proc, Places, Ends
<1>5. SignalType'
  BY <1>1 DEF Proc, Signals
<1>6. PlaceInv'
  BY <1>1 DEF PlaceInv, Proc, Ends, Early, Serving, Unreported
<1>7. PipeInv'
  BY <1>1 DEF PlaceInv, PipeInv, Proc, Ends, Early, Serving, Unreported
<1>8. DataInv'
  BY <1>1 DEF PlaceInv, PipeInv, DataInv, Proc, Ends, Early, Serving, Unreported
<1>9. ExitInv'
  BY <1>1 DEF PlaceInv, PipeInv, DataInv, ExitInv, Proc, Ends, Early, Serving, Unreported
<1>10. TypeOK'
  BY <1>2, <1>3, <1>4, <1>5, Zenon DEF TypeOK
<1> QED
  BY <1>6, <1>7, <1>8, <1>9, <1>10, Zenon DEF IInv

LEMMA CapabilitiesStep == IInv /\ Capabilities => IInv'
<1> SUFFICES ASSUME IInv, Capabilities PROVE IInv'
  OBVIOUS
<1> USE DEF Capabilities, Flags, Values, PlaceType, SignalType, input, pipe, Goto, Exit,
     ReportFailure, Write, Broken
<1>1. /\ Flags /\ Values /\ PlaceType /\ SignalType
      /\ PlaceInv /\ PipeInv /\ DataInv /\ ExitInv
  BY TypeParts, Zenon DEF IInv
<1>2. Flags'
  BY <1>1, Zenon
<1>3. data' \in {<<>>, <<0>>, <<1>>}
  BY <1>1, FirstByte DEF DataInv, Unreported
<1>4. Values'
  BY <1>1, <1>3 DEF Proc
<1>5. PlaceType'
  BY <1>1 DEF Proc, Places, Ends
<1>6. SignalType'
  BY <1>1 DEF Proc, Signals
<1>7. PlaceInv'
  BY <1>1 DEF PlaceInv, Proc, Ends, Early, Serving, Unreported
<1>8. PipeInv'
  BY <1>1 DEF PlaceInv, PipeInv, Proc, Ends, Early, Serving, Unreported
<1>9. DataInv'
  BY <1>1, FirstByte DEF PlaceInv, PipeInv, DataInv, Proc, Ends, Early, Serving, Unreported
<1>10. ExitInv'
  BY <1>1 DEF PlaceInv, PipeInv, DataInv, ExitInv, Proc, Ends, Early, Serving, Unreported
<1>11. TypeOK'
  BY <1>2, <1>4, <1>5, <1>6, Zenon DEF TypeOK
<1> QED
  BY <1>7, <1>8, <1>9, <1>10, <1>11, Zenon DEF IInv

LEMMA ReportReadyStep == IInv /\ ReportReady => IInv'
<1> SUFFICES ASSUME IInv, ReportReady PROVE IInv'
  OBVIOUS
<1> USE DEF ReportReady, Flags, Values, PlaceType, SignalType, input, pipe, Goto, Exit,
     Write, Broken
<1>1. /\ Flags /\ Values /\ PlaceType /\ SignalType
      /\ PlaceInv /\ PipeInv /\ DataInv /\ ExitInv
  BY TypeParts, Zenon DEF IInv
<1>2. Flags'
  BY <1>1, Zenon
<1>3. data' \in {<<>>, <<0>>, <<1>>}
  BY <1>1, FirstByte DEF DataInv, Unreported
<1>4. /\ pipe_ok' = pipe_ok
      /\ \/ data' = data /\ ready' = ready /\ pc'["daemon"] = "killed"
         \/ /\ ready' = TRUE /\ pc'["daemon"] = "install"
            /\ data' = IF pipe_ok = TRUE THEN <<1>> ELSE <<>>
  BY <1>1, FirstByte DEF DataInv, Proc, Unreported
<1>5. Values'
  BY <1>1, <1>3 DEF Proc
<1>6. PlaceType'
  BY <1>1 DEF Proc, Places, Ends
<1>7. SignalType'
  BY <1>1 DEF Proc, Signals
<1>8. PlaceInv'
  BY <1>1 DEF PlaceInv, Proc, Ends, Early, Serving, Unreported
<1>9. PipeInv'
  BY <1>1 DEF PlaceInv, PipeInv, Proc, Ends, Early, Serving, Unreported
<1>10. DataInv'
  BY <1>1, <1>4 DEF PlaceInv, PipeInv, DataInv, Proc, Ends, Early, Serving, Unreported
<1>11. ExitInv'
  BY <1>1 DEF PlaceInv, PipeInv, DataInv, ExitInv, Proc, Ends, Early, Serving, Unreported
<1>12. TypeOK'
  BY <1>2, <1>5, <1>6, <1>7, Zenon DEF TypeOK
<1> QED
  BY <1>8, <1>9, <1>10, <1>11, <1>12, Zenon DEF IInv

LEMMA InstallTermStep == ASSUME NEW p \in Proc, IInv, InstallTerm(p) PROVE IInv'
<1> USE DEF InstallTerm, Flags, Values, PlaceType, SignalType, input, pipe, Goto
<1>1. /\ Flags /\ Values /\ PlaceType /\ SignalType
      /\ PlaceInv /\ PipeInv /\ DataInv /\ ExitInv
  BY TypeParts, Zenon DEF IInv
<1>2. Flags'
  BY <1>1, Zenon
<1>3. Values'
  BY <1>1 DEF Proc
<1>4. PlaceType'
  BY <1>1 DEF Proc, Places, Ends
<1>5. SignalType'
  BY <1>1 DEF Proc, Signals
<1>6. PlaceInv'
  BY <1>1 DEF PlaceInv, Proc, Ends, Early, Serving, Unreported
<1>7. PipeInv'
  BY <1>1 DEF PlaceInv, PipeInv, Proc, Ends, Early, Serving, Unreported
<1>8. DataInv'
  BY <1>1 DEF PlaceInv, PipeInv, DataInv, Proc, Ends, Early, Serving, Unreported
<1>9. ExitInv'
  BY <1>1 DEF PlaceInv, PipeInv, DataInv, ExitInv, Proc, Ends, Early, Serving, Unreported
<1>10. TypeOK'
  BY <1>2, <1>3, <1>4, <1>5, Zenon DEF TypeOK
<1> QED
  BY <1>6, <1>7, <1>8, <1>9, <1>10, Zenon DEF IInv

LEMMA FirstTestStep == ASSUME NEW p \in Proc, IInv, FirstTest(p) PROVE IInv'
<1> USE DEF FirstTest, Flags, Values, PlaceType, SignalType, input, pipe, Goto, Exit
<1>1. /\ Flags /\ Values /\ PlaceType /\ SignalType
      /\ PlaceInv /\ PipeInv /\ DataInv /\ ExitInv
  BY TypeParts, Zenon DEF IInv
<1>2. Flags'
  BY <1>1, Zenon
<1>3. Values'
  BY <1>1 DEF Proc
<1>4. PlaceType'
  BY <1>1 DEF Proc, Places, Ends
<1>5. SignalType'
  BY <1>1 DEF Proc, Signals
<1>6. PlaceInv'
  BY <1>1 DEF PlaceInv, Proc, Ends, Early, Serving, Unreported
<1>7. PipeInv'
  BY <1>1 DEF PlaceInv, PipeInv, Proc, Ends, Early, Serving, Unreported
<1>8. DataInv'
  BY <1>1 DEF PlaceInv, PipeInv, DataInv, Proc, Ends, Early, Serving, Unreported
<1>9. ExitInv'
  BY <1>1 DEF PlaceInv, PipeInv, DataInv, ExitInv, Proc, Ends, Early, Serving, Unreported
<1>10. TypeOK'
  BY <1>2, <1>3, <1>4, <1>5, Zenon DEF TypeOK
<1> QED
  BY <1>6, <1>7, <1>8, <1>9, <1>10, Zenon DEF IInv

LEMMA SignalStep == ASSUME NEW p \in Proc, NEW s \in Signals, IInv, Signal(p, s) PROVE IInv'
<1> USE DEF Signal, Flags, Values, PlaceType, SignalType, input, pipe, Goto, Exit,
     Alive, Ended
<1>1. /\ Flags /\ Values /\ PlaceType /\ SignalType
      /\ PlaceInv /\ PipeInv /\ DataInv /\ ExitInv
  BY TypeParts, Zenon DEF IInv
<1>2. Flags'
  BY <1>1, Zenon
<1>3. signals' \in 0 .. MaxSignals
  BY <1>1
<1>4. /\ optval' = optval /\ conf' = conf /\ outcome' = outcome /\ data' = data
      /\ writers' \subseteq writers /\ readers' \subseteq readers
  OBVIOUS
<1>5. Values'
  BY <1>1, <1>3, <1>4 DEF Proc
<1>6. PlaceType'
  BY <1>1 DEF Proc, Places, Ends
<1>7. SignalType'
  BY <1>1 DEF Proc, Signals
<1>8. PlaceInv'
  BY <1>1 DEF PlaceInv, Proc, Ends, Early, Serving, Unreported
<1>9. PipeInv'
  BY <1>1 DEF PlaceInv, PipeInv, Proc, Ends, Early, Serving, Unreported
<1>10. DataInv'
  BY <1>1 DEF PlaceInv, PipeInv, DataInv, Proc, Ends, Early, Serving, Unreported
<1>11. ExitInv'
  BY <1>1 DEF PlaceInv, PipeInv, DataInv, ExitInv, Proc, Ends, Early, Serving, Unreported
<1>12. TypeOK'
  BY <1>2, <1>5, <1>6, <1>7, Zenon DEF TypeOK
<1> QED
  BY <1>8, <1>9, <1>10, <1>11, <1>12, Zenon DEF IInv

LEMMA StartupStep == IInv /\ [Next]_vars => IInv'
<1> SUFFICES ASSUME IInv, [Next]_vars PROVE IInv'
  OBVIOUS
<1>1. CASE ParentSteps
  BY <1>1, InstallHandlersStep, ConfigureStep, ConstructStep, ResetSignalsStep, MakePipeStep,
     ForkChildStep, CloseWriteEndStep, ReadReportStep, Zenon DEF ParentSteps
<1>2. CASE ChildSteps
  BY <1>2, ForkDaemonStep, ChildLeavesStep, Zenon DEF ChildSteps
<1>3. CASE DaemonSteps
  BY <1>3, DetachStep, CapabilitiesStep, ReportReadyStep, Zenon DEF DaemonSteps
<1>4. CASE \E p \in Proc : ServerSteps(p)
  BY <1>4, InstallTermStep, FirstTestStep, Zenon DEF ServerSteps
<1>5. CASE \E p \in Proc, s \in Signals : Signal(p, s)
  BY <1>5, SignalStep, Zenon
<1>6. CASE UNCHANGED vars
  <2> USE <1>6 DEF IInv, vars, input, pipe
  <2>1. TypeOK'
    BY Zenon DEF TypeOK
  <2>2. PlaceInv' /\ PipeInv' /\ DataInv' /\ ExitInv'
    BY DEF PlaceInv, PipeInv, DataInv, ExitInv
  <2> QED
    BY <2>1, <2>2
<1> QED
  BY <1>1, <1>2, <1>3, <1>4, <1>5, <1>6, Zenon DEF Next

LEMMA StartupInvariance == Spec => []IInv
  BY StartupInit, StartupStep, PTL DEF Spec

-----------------------------------------------------------------------------
(* The theorems.                                                           *)

\* Every variable keeps its type; in particular at most one byte is ever written to the
\* pipe, although both processes that daemonize forks can write one.
THEOREM StartupTypeCorrect == Spec => []TypeOK
<1>1. IInv => TypeOK
  BY Zenon DEF IInv
<1> QED
  BY <1>1, StartupInvariance, PTL

\* Of the processes that main and the two forks of daemonize leave with the socket and
\* the lease table, at most one goes on to the event loop.
THEOREM StartsOneServer == Spec => []AtMostOneServer
<1>1. IInv => AtMostOneServer
  BY DEF IInv, PlaceInv, AtMostOneServer, Serves, Proc, Ends, Early, Serving, Unreported
<1> QED
  BY <1>1, StartupInvariance, PTL

\* The exit status 0 of the process that was started is the daemon's own word for it,
\* written at the end of daemonize, if pipe() has made the pipe.
THEOREM SuccessIsReported == Spec => []SuccessMeansReady
<1>1. IInv => SuccessMeansReady
  BY DEF IInv, TypeOK, ExitInv, SuccessMeansReady
<1> QED
  BY <1>1, StartupInvariance, PTL

\* After the exit status 1 no daemon serves and none will, if pipe() has made the pipe,
\* whichever of the error paths and signals it comes from.
THEOREM FailureIsFinal == Spec => []FailureMeansNoDaemon
<1>1. IInv => FailureMeansNoDaemon
  BY DEF IInv, TypeOK, ExitInv, FailureMeansNoDaemon, Serves, Serving
<1> QED
  BY <1>1, StartupInvariance, PTL
=============================================================================
