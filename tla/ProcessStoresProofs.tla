------------------------- MODULE ProcessStoresProofs -------------------------
(***************************************************************************)
(* Proofs about ProcessStores for every set of stores and every bound.     *)
(***************************************************************************)
EXTENDS ProcessStores, TLAPS

\* Every step keeps the process, its threads and its snapshots in their types, whatever
\* the faults, and an idle thread holds nothing.
THEOREM StoresTypeCorrect == Spec => []TypeOK
<1>1. Init => TypeOK
  BY StoresAssumption DEF Init, TypeOK, Backend, Nothing
<1>2. TypeOK /\ [Next]_vars => TypeOK'
  <2> SUFFICES ASSUME TypeOK, [Next]_vars PROVE TypeOK'
    OBVIOUS
  <2> USE StoresAssumption DEF TypeOK, memory, threads, Fault, NoFault, Backend, Thread
  <2>1. CASE Start
    <3>1. backend' \in Backend /\ faults' \in Nat /\ suffered' \subseteq AllFaults
      BY <2>1 DEF Start
    <3>2. content' \in [Stores -> Nat] /\ digest' \in [Stores -> Nat]
      BY <2>1 DEF Start, Refill, Imported
    <3>3. QED
      BY <2>1, <3>1, <3>2 DEF Start
  <2>2. CASE BeginStop
    BY <2>2 DEF BeginStop
  <2>3. CASE FinalFlush
    BY <2>3 DEF FinalFlush, Visit
  <2>4. CASE Exit \/ Crash
    BY <2>4 DEF Exit, Crash, Quiet, Nothing
  <2>5. ASSUME NEW s \in Stores, Mutate(s) PROVE TypeOK'
    BY <2>5 DEF Mutate
  <2>6. CASE Tick
    BY <2>6 DEF Tick, Visit
  <2>7. CASE TickerDone
    BY <2>7 DEF TickerDone, Finished
  <2>8. ASSUME NEW t \in Thread, NEW s \in Stores, Encode(t, s) PROVE TypeOK'
    BY <2>8 DEF Encode
  <2>9. ASSUME NEW t \in Thread, Save(t) PROVE TypeOK'
    <3>1. saved' \in [Backend -> [Stores -> Nat]]
      BY <2>9 DEF Save
    <3>2. digest' \in [Stores -> Nat] /\ durable' \in [Stores -> Nat]
      BY <2>9 DEF Save
    <3>3. QED
      BY <2>9, <3>1, <3>2 DEF Save
  <2>10. CASE UNCHANGED vars
    BY <2>10 DEF vars
  <2>11. QED
    BY <2>1, <2>2, <2>3, <2>4, <2>5, <2>6, <2>7, <2>8, <2>9, <2>10 DEF Next, FlushStep
<1>3. QED
  BY <1>1, <1>2, PTL DEF Spec

\* Faults are never unsuffered.
LEMMA SufferedGrows == [Next]_vars => suffered \subseteq suffered'
BY DEF Next, Start, BeginStop, FinalFlush, Exit, Crash, Mutate, Tick, TickerDone, FlushStep, Encode,
       Save, Fault, NoFault, vars

\* Restarts lose nothing that was saved, as long as the table can be reached and read
\* when the process starts and the background flush ends in time when it stops: crashes
\* at any point and writes that fail do no harm.
THEOREM SnapshotsCorrect == Spec => []Snapshots
<1>1. Init => Snapshots
  BY DEF Init, Snapshots, Remembers, InStep, OneFlush, Backend, Nothing, Thread
<1>2. TypeOK /\ Snapshots /\ [Next]_vars => Snapshots'
  <2> SUFFICES ASSUME TypeOK, Remembers, InStep, OneFlush, [Next]_vars,
                      suffered' \subseteq {"crash", "save", "encode"}
               PROVE  Remembers' /\ InStep' /\ OneFlush'
    BY SufferedGrows DEF Snapshots
  <2> USE StoresAssumption DEF TypeOK, Remembers, InStep, OneFlush, memory, threads, Fault, NoFault,
                               Backend, Thread
  <2>1. CASE Start
    BY <2>1 DEF Start, Refill, Imported
  <2>2. CASE BeginStop
    BY <2>2 DEF BeginStop
  <2>3. CASE FinalFlush
    BY <2>3 DEF FinalFlush, Visit
  <2>4. CASE Exit \/ Crash
    BY <2>4 DEF Exit, Crash, Quiet, Nothing
  <2>5. ASSUME NEW s \in Stores, Mutate(s) PROVE Remembers' /\ InStep' /\ OneFlush'
    BY <2>5 DEF Mutate
  <2>6. CASE Tick
    BY <2>6 DEF Tick, Visit
  <2>7. CASE TickerDone
    BY <2>7 DEF TickerDone, Finished
  <2>8. ASSUME NEW t \in Thread, NEW s \in Stores, Encode(t, s) PROVE Remembers' /\ InStep' /\ OneFlush'
    BY <2>8 DEF Encode
  <2>9. ASSUME NEW t \in Thread, Save(t) PROVE Remembers' /\ InStep' /\ OneFlush'
    BY <2>9 DEF Save
  <2>10. CASE UNCHANGED vars
    BY <2>10 DEF vars
  <2>11. QED
    BY <2>1, <2>2, <2>3, <2>4, <2>5, <2>6, <2>7, <2>8, <2>9, <2>10 DEF Next, FlushStep
<1>3. QED
  BY <1>1, <1>2, StoresTypeCorrect, PTL DEF Spec

\* Saved records survive: the form the runs check.
THEOREM StoresSurvive == Spec => []Survives
<1>1. Snapshots => Survives
  BY DEF Snapshots, Survives
<1>2. QED
  BY <1>1, SnapshotsCorrect, PTL

\* What a larger version includes.
LEMMA ChangesGrow ==
  ASSUME NEW v \in [Stores -> Nat], NEW w \in [Stores -> Nat], \A s \in Stores : v[s] <= w[s]
  PROVE  Changes(v) \subseteq Changes(w)
<1>1. ASSUME NEW s \in Stores PROVE 1 .. v[s] \subseteq 1 .. w[s]
  OBVIOUS
<1>2. QED
  BY <1>1 DEF Changes

\* A process that has ended has the records of its snapshots, and only writes change those.
LEMMA RecordsStay ==
  UNCHANGED <<saved, phase, content>> => UNCHANGED Promise!vars
BY DEF Promise!vars, Records, Saved

\* A write replaces a snapshot by one that is at least as new, and no newer than the store,
\* whichever thread makes it.
LEMMA SaveKeeps ==
  ASSUME TypeOK, Remembers, InStep, OneFlush, NEW t \in Thread, Save(t)
  PROVE  Promise!Save \/ UNCHANGED Promise!vars
<1> USE StoresAssumption DEF TypeOK, Backend
<1>1. CASE saved' = saved
  BY <1>1, RecordsStay DEF Save
<1>2. CASE saved' # saved
  <2> DEFINE s == held[t]
  <2>1. s \in Stores /\ payload[t] \in Nat /\ payload[t] >= saved["db"][s] /\ payload[t] <= content[s]
    BY DEF Save, InStep, OneFlush
  <2>2. saved'["db"] = [saved["db"] EXCEPT ![s] = payload[t]]
    BY <1>2 DEF Save, InStep
  <2>3. phase \in {"up", "stopping"} /\ phase' = phase /\ content' = content
    BY DEF Save, InStep
  <2>4. saved["db"] \in [Stores -> Nat] /\ saved'["db"] \in [Stores -> Nat]
    BY <2>1, <2>2
  <2>5. Saved \subseteq Saved'
    <3>1. \A r \in Stores : saved["db"][r] <= saved'["db"][r]
      BY <2>1, <2>2
    <3>2. QED
      BY <3>1, <2>4, ChangesGrow DEF Saved
  <2>6. Saved' \subseteq Records
    <3>1. \A r \in Stores : saved'["db"][r] <= content[r]
      BY <2>1, <2>2, <2>3 DEF Remembers, InStep
    <3>2. QED
      BY <3>1, <2>3, <2>4, ChangesGrow DEF Saved, Records
  <2>7. Records' = Records
    BY <2>3 DEF Records
  <2>8. QED
    BY <2>5, <2>6, <2>7 DEF Promise!Save
<1>3. QED
  BY <1>1, <1>2

\* Short of a table that cannot be reached or read at a start and of a background flush that
\* outlasts the join, every step is one of a snapshot or a stutter: a handler changes records, a
\* write catches up with them and never goes back, whatever ends the process leaves what was
\* written, and a start brings back exactly that, but for what a module's import adds.
THEOREM SnapshotsImplemented == Spec => ImplementsSnapshots
<1>1. Init => Promise!Init
  BY DEF Init, Promise!Init, Records, Saved, Changes, Nothing, Backend
<1>2. TypeOK /\ Snapshots /\ [Next]_vars
        => [suffered' \subseteq {"crash", "save", "encode"} => Promise!Next]_(Promise!vars)
  <2> SUFFICES ASSUME TypeOK, Remembers, InStep, OneFlush, [Next]_vars,
                      suffered' \subseteq {"crash", "save", "encode"}
               PROVE  Promise!Next \/ UNCHANGED Promise!vars
    BY SufferedGrows DEF Snapshots
  <2>1. CASE Start
    <3>1. /\ phase \in {"down", "stopped"} /\ phase' = "up" /\ saved' = saved
          /\ content' = [s \in Stores |-> IF saved["db"][s] = 0 THEN Imported[s] ELSE saved["db"][s]]
      BY <2>1 DEF Start, Refill, Fault, NoFault
    <3>2. saved["db"] \in [Stores -> Nat] /\ content' \in [Stores -> Nat]
      BY <3>1 DEF TypeOK, Backend, Imported
    <3>3. \A s \in Stores : saved["db"][s] <= content'[s]
      BY <3>1, <3>2
    <3>4. Saved \subseteq Changes(content')
      BY <3>2, <3>3, ChangesGrow DEF Saved
    <3>5. QED
      BY <3>1, <3>4 DEF Promise!Next, Promise!Change, Records, Saved
  <2>2. CASE Exit \/ Crash
    <3>1. phase' \in {"down", "stopped"} /\ saved' = saved
      BY <2>2 DEF Exit, Crash
    <3>2. QED
      BY <3>1 DEF Promise!Next, Promise!Restart, Records, Saved
  <2>3. ASSUME NEW s \in Stores, Mutate(s) PROVE Promise!Next
    <3>1. phase = "up" /\ phase' = "up" /\ saved' = saved /\ content' = [content EXCEPT ![s] = @ + 1]
      BY <2>3 DEF Mutate
    <3>2. content \in [Stores -> Nat] /\ content' \in [Stores -> Nat]
      BY <3>1 DEF TypeOK
    <3>3. \A r \in Stores : content[r] <= content'[r]
      BY <3>1, <3>2
    <3>4. Changes(content) \subseteq Changes(content')
      BY <3>2, <3>3, ChangesGrow
    <3>5. QED
      BY <3>1, <3>4 DEF Promise!Next, Promise!Change, Records, Saved
  <2>4. CASE BeginStop
    BY <2>4 DEF BeginStop, memory, Promise!vars, Records, Saved
  <2>5. CASE FinalFlush \/ Tick \/ TickerDone
    BY <2>5, RecordsStay DEF FinalFlush, Tick, TickerDone, memory
  <2>6. ASSUME NEW t \in Thread, NEW s \in Stores, Encode(t, s) PROVE UNCHANGED Promise!vars
    BY <2>6, RecordsStay DEF Encode, memory
  <2>7. ASSUME NEW t \in Thread, Save(t) PROVE Promise!Next \/ UNCHANGED Promise!vars
    BY <2>7, SaveKeeps DEF Promise!Next
  <2>8. CASE UNCHANGED vars
    BY <2>8, RecordsStay DEF vars, memory
  <2>9. QED
    BY <2>1, <2>2, <2>3, <2>4, <2>5, <2>6, <2>7, <2>8 DEF Next, FlushStep
<1>3. QED
  BY <1>1, <1>2, StoresTypeCorrect, SnapshotsCorrect, PTL DEF Spec, ImplementsSnapshots

\* A clean shutdown leaves the snapshots equal to the stores, when writes succeed and
\* the background flush ends in time.
THEOREM ShutdownWritesAll == Spec => []ShutdownSaves
<1>1. Init => CleanShutdown
  BY DEF Init, CleanShutdown, FinalSnapshot, Flushed
<1>2. TypeOK /\ Snapshots /\ CleanShutdown /\ [Next]_vars => CleanShutdown'
  <2> SUFFICES ASSUME TypeOK, InStep, OneFlush, FinalSnapshot, Flushed, [Next]_vars,
                      suffered' \subseteq {"crash"}
               PROVE  FinalSnapshot' /\ Flushed'
    BY SufferedGrows DEF Snapshots, CleanShutdown
  <2> USE StoresAssumption DEF TypeOK, InStep, OneFlush, memory, threads, Fault, NoFault, Backend,
                               Thread, FinalSnapshot, Flushed
  <2>1. CASE Start
    BY <2>1 DEF Start
  <2>2. CASE BeginStop
    BY <2>2 DEF BeginStop
  <2>3. CASE FinalFlush
    BY <2>3 DEF FinalFlush, Visit
  <2>4. CASE Exit
    <3>1. \A s \in Stores : saved["db"][s] = content[s]
      BY <2>4 DEF Exit, Finished
    <3>2. saved[backend] = content
      BY <3>1
    <3>3. QED
      BY <2>4, <3>2 DEF Exit
  <2>5. CASE Crash
    BY <2>5 DEF Crash
  <2>6. ASSUME NEW s \in Stores, Mutate(s) PROVE FinalSnapshot' /\ Flushed'
    BY <2>6 DEF Mutate
  <2>7. CASE Tick \/ TickerDone
    BY <2>7 DEF Tick, Visit, TickerDone, Finished
  <2>8. ASSUME NEW t \in Thread, NEW s \in Stores, Encode(t, s) PROVE FinalSnapshot' /\ Flushed'
    BY <2>8 DEF Encode
  <2>9. ASSUME NEW t \in Thread, Save(t) PROVE FinalSnapshot' /\ Flushed'
    BY <2>9 DEF Save
  <2>10. CASE UNCHANGED vars
    BY <2>10 DEF vars
  <2>11. QED
    BY <2>1, <2>2, <2>3, <2>4, <2>5, <2>6, <2>7, <2>8, <2>9, <2>10 DEF Next, FlushStep
<1>3. CleanShutdown => ShutdownSaves
  BY DEF CleanShutdown, ShutdownSaves
<1>4. QED
  BY <1>1, <1>2, <1>3, SnapshotsCorrect, StoresTypeCorrect, PTL DEF Spec

\* A process that could not read a snapshot, or whose backend changed, never replaces a
\* written one by an empty store, whatever the faults.
THEOREM WritesAreNonEmpty == Spec => EmptyNeverWritten
<1>1. Init => NonEmpty
  BY DEF Init, NonEmpty, Nothing, Thread
<1>2. TypeOK /\ NonEmpty /\ [Next]_vars => NonEmpty'
  <2> SUFFICES ASSUME TypeOK, NonEmpty, [Next]_vars PROVE NonEmpty'
    OBVIOUS
  <2> USE StoresAssumption DEF TypeOK, NonEmpty, memory, threads, Fault, NoFault, Thread
  <2>1. CASE Start
    <3>1. \A s \in Stores : content'[s] = 0 => digest'[s] = 0
      BY <2>1 DEF Start, Refill
    <3>2. \A t \in Thread : held'[t] = None /\ flush'[t] = "idle"
      BY <2>1 DEF Start
    <3>3. QED
      BY <3>1, <3>2
  <2>2. CASE BeginStop
    BY <2>2 DEF BeginStop
  <2>3. CASE FinalFlush
    BY <2>3 DEF FinalFlush, Visit
  <2>4. CASE Exit \/ Crash
    BY <2>4 DEF Exit, Crash, Quiet, Nothing
  <2>5. ASSUME NEW s \in Stores, Mutate(s) PROVE NonEmpty'
    BY <2>5 DEF Mutate
  <2>6. CASE Tick
    BY <2>6 DEF Tick, Visit
  <2>7. CASE TickerDone
    BY <2>7 DEF TickerDone, Finished
  <2>8. ASSUME NEW t \in Thread, NEW s \in Stores, Encode(t, s) PROVE NonEmpty'
    BY <2>8 DEF Encode
  <2>9. ASSUME NEW t \in Thread, Save(t) PROVE NonEmpty'
    BY <2>9 DEF Save
  <2>10. CASE UNCHANGED vars
    BY <2>10 DEF vars
  <2>11. QED
    BY <2>1, <2>2, <2>3, <2>4, <2>5, <2>6, <2>7, <2>8, <2>9, <2>10 DEF Next, FlushStep
<1>3. TypeOK /\ NonEmpty /\ [Next]_vars
        => [\A b \in Backend : \A s \in Stores :
              saved'[b][s] # saved[b][s] => saved'[b][s] > 0]_saved
  <2> SUFFICES ASSUME TypeOK, NonEmpty, [Next]_vars, NEW b \in Backend, NEW s \in Stores,
                      saved'[b][s] # saved[b][s]
               PROVE  saved'[b][s] > 0
    OBVIOUS
  <2>1. PICK t \in Thread : Save(t)
    BY DEF Next, Start, BeginStop, FinalFlush, Exit, Crash, Mutate, Tick, TickerDone, FlushStep,
           Encode, vars
  <2>2. held[t] \in Stores /\ saved' = [saved EXCEPT ![backend] = [@ EXCEPT ![held[t]] = payload[t]]]
    BY <2>1 DEF Save, TypeOK
  <2>3. saved'[b][s] = payload[t]
    BY <2>2 DEF TypeOK
  <2>4. payload[t] > 0
    BY <2>1, <2>2, StoresAssumption DEF TypeOK, NonEmpty, Save
  <2>5. QED
    BY <2>3, <2>4
<1>4. QED
  BY <1>1, <1>2, <1>3, StoresTypeCorrect, PTL DEF Spec, EmptyNeverWritten
=============================================================================
