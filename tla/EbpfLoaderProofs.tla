--------------------------- MODULE EbpfLoaderProofs ---------------------------
(***************************************************************************)
(* Proofs about the eBPF loader, for any number of plugins, programs and   *)
(* closers and any ring size.                                              *)
(***************************************************************************)
EXTENDS EbpfLoader, TLAPS

\* The types of the loader's state hold initially and are kept by every step.
LEMMA TypeInductive ==
  /\ Init => TypeOK
  /\ TypeOK /\ [Next]_vars => TypeOK'
<1>1. Init => TypeOK
  BY RingAssumption DEF Init, TypeOK
<1>2. ASSUME TypeOK, [Next]_vars PROVE TypeOK'
  <2>. USE <1>2 DEF TypeOK
  <2>1. ASSUME NEW p \in Plugins, NEW k \in Programs, NEW scoped \in BOOLEAN,
               NEW ringed \in BOOLEAN, LoadProgramWithManifest(p, k, scoped, ringed)
        PROVE TypeOK'
    BY <2>1 DEF LoadProgramWithManifest, Attach, ReaderStart
  <2>2. ASSUME NEW u \in Closers \cup {None}, NEW p \in Plugins, UnloadProgram(u, p)
        PROVE TypeOK'
    BY <2>2 DEF UnloadProgram, Release
  <2>3. ASSUME NEW k \in Programs, ParentEnds(k) PROVE TypeOK'
    BY <2>3 DEF ParentEnds
  <2>4. ASSUME NEW k \in Programs, KernelEvent(k) PROVE TypeOK'
    BY <2>4, RingAssumption DEF KernelEvent, loaderVars
  <2>5. ASSUME NEW k \in Programs, ReaderCheck(k) PROVE TypeOK'
    BY <2>5 DEF ReaderCheck, loaderVars
  <2>6. ASSUME NEW k \in Programs, ReaderRead(k) PROVE TypeOK'
    BY <2>6, RingAssumption DEF ReaderRead, loaderVars
  <2>7. ASSUME NEW k \in Programs, ReaderHandle(k) PROVE TypeOK'
    BY <2>7 DEF ReaderHandle, AfterHandle, loaderVars
  <2>8. ASSUME NEW c \in Closers, CloseBegin(c) PROVE TypeOK'
    BY <2>8 DEF CloseBegin
  <2>9. CASE UNCHANGED vars
    BY <2>9 DEF vars
  <2>. QED
    BY <2>1, <2>2, <2>3, <2>4, <2>5, <2>6, <2>7, <2>8, <2>9 DEF Next, ReaderStep
<1>. QED
  BY <1>1, <1>2

\* Type correctness of the loader's map, contexts, readers and ring buffers.
THEOREM TypeCorrect == Spec => []TypeOK
<1>. QED
  BY TypeInductive, PTL DEF Spec

\* A registered program is open and was loaded for the plugin it is registered
\* under, so an unload never releases what another plugin's entry refers to.
THEOREM RegisteredStaysOpen == Spec => []RegisteredIsOpen
<1>1. Init => RegisteredIsOpen
  BY NoneAssumption DEF Init, RegisteredIsOpen
<1>2. ASSUME TypeOK, RegisteredIsOpen, [Next]_vars PROVE RegisteredIsOpen'
  <2>. USE <1>2, NoneAssumption DEF TypeOK, RegisteredIsOpen
  <2>1. ASSUME NEW p \in Plugins, NEW k \in Programs, NEW scoped \in BOOLEAN,
               NEW ringed \in BOOLEAN, LoadProgramWithManifest(p, k, scoped, ringed)
        PROVE RegisteredIsOpen'
    \* No plugin has k registered: it was never loaded.
    <3>1. \A q \in Plugins : programs[q] # k
      BY <2>1 DEF LoadProgramWithManifest, Attach
    <3>. QED
      BY <2>1, <3>1 DEF LoadProgramWithManifest, Attach
  <2>2. ASSUME NEW u \in Closers \cup {None}, NEW p \in Plugins, UnloadProgram(u, p)
        PROVE RegisteredIsOpen'
    \* No other plugin has the same program registered: its owner is p.
    <3>1. \A q \in Plugins \ {p} : programs[q] # programs[p]
      BY <2>2 DEF UnloadProgram
    <3>. QED
      BY <2>2, <3>1 DEF UnloadProgram, Release
  <2>3. CASE UNCHANGED <<programs, open, owner>>
    BY <2>3
  <2>4. ASSUME NEW k \in Programs, ParentEnds(k) \/ KernelEvent(k) \/ ReaderStep(k)
        PROVE RegisteredIsOpen'
    BY <2>3, <2>4 DEF ParentEnds, KernelEvent, ReaderStep, ReaderCheck, ReaderRead,
                      ReaderHandle, loaderVars
  <2>5. ASSUME NEW c \in Closers, CloseBegin(c) PROVE RegisteredIsOpen'
    BY <2>3, <2>5 DEF CloseBegin
  <2>. HIDE DEF TypeOK, RegisteredIsOpen
  <2>. QED
    BY <2>1, <2>2, <2>3, <2>4, <2>5 DEF Next, vars
<1>. QED
  BY <1>1, <1>2, TypeCorrect, PTL DEF Spec

\* After a program's context has ended, its reader hands at most one more event
\* to the plugin's handler.
THEOREM LateEventsBounded == Spec => []AtMostOneLateEvent
<1>1. Init => LateInv
  BY DEF Init, LateInv
<1>2. ASSUME TypeOK, LateInv, [Next]_vars PROVE LateInv'
  <2>. USE <1>2, NoneAssumption DEF TypeOK, LateInv
  <2>1. ASSUME NEW p \in Plugins, NEW k \in Programs, NEW scoped \in BOOLEAN,
               NEW ringed \in BOOLEAN, LoadProgramWithManifest(p, k, scoped, ringed)
        PROVE LateInv'
    BY <2>1 DEF LoadProgramWithManifest, Attach, ReaderStart
  <2>2. ASSUME NEW u \in Closers \cup {None}, NEW p \in Plugins, UnloadProgram(u, p)
        PROVE LateInv'
    BY <2>2 DEF UnloadProgram, Release
  <2>3. ASSUME NEW k \in Programs, ParentEnds(k) PROVE LateInv'
    BY <2>3 DEF ParentEnds
  <2>4. ASSUME NEW k \in Programs, KernelEvent(k) PROVE LateInv'
    BY <2>4 DEF KernelEvent, loaderVars
  <2>5. ASSUME NEW k \in Programs, ReaderCheck(k) PROVE LateInv'
    BY <2>5 DEF ReaderCheck, loaderVars
  <2>6. ASSUME NEW k \in Programs, ReaderRead(k) PROVE LateInv'
    BY <2>6 DEF ReaderRead, loaderVars
  <2>7. ASSUME NEW k \in Programs, ReaderHandle(k) PROVE LateInv'
    BY <2>7 DEF ReaderHandle, AfterHandle, loaderVars
  <2>8. ASSUME NEW c \in Closers, CloseBegin(c) PROVE LateInv'
    BY <2>8 DEF CloseBegin
  <2>9. CASE UNCHANGED vars
    BY <2>9 DEF vars
  <2>. HIDE DEF TypeOK, LateInv
  <2>. QED
    BY <2>1, <2>2, <2>3, <2>4, <2>5, <2>6, <2>7, <2>8, <2>9 DEF Next, ReaderStep
<1>3. LateInv => AtMostOneLateEvent
  BY DEF LateInv, AtMostOneLateEvent
<1>. QED
  BY <1>1, <1>2, <1>3, TypeCorrect, PTL DEF Spec

==============================================================================
