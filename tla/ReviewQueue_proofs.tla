------------------------ MODULE ReviewQueue_proofs -------------------------
(***************************************************************************)
(* Proofs about the review queue, for any number of threads, plans and     *)
(* findings, any calls and any faults.  What is stored survives only when  *)
(* one process writes the store; what is resolved is justified for any     *)
(* number of processes.                                                    *)
(***************************************************************************)
EXTENDS ReviewQueue, TLAPS

Holding == {"enqueue", "status", "verdict", "reviewer", "save", "write", "replace"}
Made == {"reviewer", "save", "write", "replace"}
Labels == Holding \cup {"idle", "list", "choose", "apply", "tally"}
Fields == {"pc", "call", "plan", "todo", "sig", "verdict", "size", "chosen", "tally", "calls"}

\* What a thread works on.
Work(w, n) ==
    /\ DOMAIN w = Fields
    /\ w.pc \in Labels
    /\ w.todo \subseteq Signatures /\ w.chosen \subseteq Signatures
    /\ w.pc \in {"status", "verdict", "reviewer"} => w.call = "decide"
    /\ w.pc = "enqueue" => w.call = "enqueue"
    /\ w.pc \in Holding /\ w.call = "decide" => w.sig \in Signatures /\ w.verdict \in Verdicts
    /\ w.pc \in {"choose", "apply"} => w.plan \in Plans
    /\ w.calls \in 0 .. n

\* A verdict in the items m was given for them.
Justified(m) == \A s \in Signatures : m[s] # Absent => m[s].verdict \in given[s] \cup {NoVerdict}

Shape ==
    /\ TypeOK
    /\ DOMAIN thr = Threads
    /\ \A t \in Threads : Work(thr[t], MaxCalls[t])
    /\ told \in [Signatures -> Verdicts \cup {NoVerdict}]
    /\ tried \in [Signatures -> SUBSET Verdicts]
    /\ given \in [Signatures -> SUBSET Verdicts]

Exclusive == \A t \in Threads : thr[t].pc \in Holding => lock[Home[t]] = t

\* An item that is being decided is there, and the verdict is one of those given.
Deciding ==
    \A t \in Threads : thr[t].pc \in Holding /\ thr[t].call = "decide" =>
        /\ thr[t].verdict \in given[thr[t].sig]
        /\ My(t)[thr[t].sig] # Absent

AllJustified ==
    /\ \A p \in Processes : Justified(mem[p])
    /\ disk # Torn => Justified(disk)
    /\ tmp \notin {Torn, Absent} => Justified(tmp)

\* The items a walk has chosen stay in the process.
ChosenThere ==
    \A t \in Threads : thr[t].pc = "apply" => \A s \in thr[t].chosen : My(t)[s] # Absent

Core == Shape /\ Exclusive /\ Deciding /\ AllJustified /\ ChosenThere
Inv == Core /\ ResolvedByOwnDecision

LEMMA HomeType == \A t \in Threads : Home[t] \in Processes
  BY QueueAssumption DEF QueueAssumption

\* The signature of a finding is the triple the items are keyed by.
LEMMA SignatureType ==
    ASSUME NEW p \in Plans, NEW f \in ResultOf[p] PROVE Signature(p, f) \in Signatures
<1>1. f \in Findings
  BY QueueAssumption DEF QueueAssumption
<1>2. QED
  BY <1>1 DEF Signatures

LEMMA InitInv == Init => Inv
<1> SUFFICES ASSUME Init PROVE Inv
  OBVIOUS
<1> USE DEF Init
<1>1. Nothing \in Contents
  BY DEF Nothing, Contents
<1>2. \A t \in Threads : thr[t] = Idle(0)
  OBVIOUS
<1>3. \A t \in Threads : Work(thr[t], MaxCalls[t])
  BY <1>2, QueueAssumption DEF Work, Idle, Fields, Labels, Holding, QueueAssumption
<1>4. TypeOK
  BY <1>1, <1>2, QueueAssumption DEF TypeOK, QueueAssumption, Idle
<1>5. Shape
  BY <1>3, <1>4 DEF Shape
<1>6. \A t \in Threads : thr[t].pc = "idle"
  BY <1>2 DEF Idle
<1>7. Exclusive /\ Deciding /\ ChosenThere
  BY <1>6 DEF Exclusive, Deciding, ChosenThere, Holding
<1>8. Justified(Nothing)
  BY DEF Justified, Nothing
<1>9. AllJustified
  BY <1>8 DEF AllJustified
<1>10. ResolvedByOwnDecision
  BY DEF ResolvedByOwnDecision
<1>11. QED
  BY <1>5, <1>7, <1>9, <1>10 DEF Inv, Core

---------------------------------------------------------------------------
\* What a step of one thread does to the others' work: nothing.
LEMMA BecomeIs ==
    ASSUME Shape, NEW t \in Threads, NEW w, Become(t, w)
    PROVE  DOMAIN thr' = Threads /\ thr'[t] = w /\ \A u \in Threads \ {t} : thr'[u] = thr[u]
  BY DEF Shape, Become

\* The holder of a lock is the only thread of its process that holds it.
LEMMA Alone ==
    ASSUME Core, NEW t \in Threads, thr[t].pc \in Holding, NEW u \in Threads \ {t},
           thr[u].pc \in Holding
    PROVE  Home[u] # Home[t]
  BY DEF Core, Exclusive

\* A step after which the thread does not hold the lock, and which writes nothing.
LEMMA QuietStep ==
    ASSUME Core, NEW t \in Threads, NEW w, Become(t, w), Work(w, MaxCalls[t]),
           w.pc \notin Holding,
           w.pc = "apply" => \A s \in w.chosen : My(t)[s] # Absent,
           UNCHANGED <<mem, disk, tmp, told, tried, given>>, faults' \in 0 .. MaxFaults,
           UNCHANGED lock \/ (thr[t].pc \in Holding /\ Drop(t))
    PROVE  Core'
<1>1. DOMAIN thr' = Threads /\ thr'[t] = w /\ \A u \in Threads \ {t} : thr'[u] = thr[u]
  BY BecomeIs DEF Core
<1>2. lock' \in [Processes -> Threads \cup {Nobody}]
  BY DEF Core, Shape, TypeOK, Drop
<1>3. \A u \in Threads : Work(thr'[u], MaxCalls[u])
  BY <1>1 DEF Core, Shape
<1>4. Shape'
  BY <1>1, <1>2, <1>3 DEF Core, Shape, TypeOK, Work
<1>5. Exclusive'
  <2>1. SUFFICES ASSUME NEW u \in Threads, thr'[u].pc \in Holding PROVE lock'[Home[u]] = u
    BY DEF Exclusive
  <2>2. u # t /\ thr[u].pc \in Holding
    BY <1>1, <2>1
  <2>3. lock[Home[u]] = u
    BY <2>2 DEF Core, Exclusive
  <2>4. QED
    BY <2>2, <2>3, Alone, HomeType DEF Core, Shape, TypeOK, Drop
<1>6. Deciding'
  BY <1>1 DEF Core, Deciding, My
<1>7. AllJustified'
  BY DEF Core, AllJustified, Justified
<1>8. ChosenThere'
  BY <1>1 DEF Core, ChosenThere, My
<1>9. QED
  BY <1>4, <1>5, <1>6, <1>7, <1>8 DEF Core

\* A call that takes the lock and writes nothing yet.
LEMMA BeginStep ==
    ASSUME Core, NEW t \in Threads, NEW w, Become(t, w), Work(w, MaxCalls[t]),
           w.pc \in Holding, Take(t),
           w.call = "decide" => w.verdict \in given'[w.sig] /\ My(t)[w.sig] # Absent,
           UNCHANGED <<mem, disk, tmp, told, faults>>,
           tried' \in [Signatures -> SUBSET Verdicts], given' \in [Signatures -> SUBSET Verdicts],
           \A s \in Signatures : given[s] \subseteq given'[s]
    PROVE  Core'
<1>1. DOMAIN thr' = Threads /\ thr'[t] = w /\ \A u \in Threads \ {t} : thr'[u] = thr[u]
  BY BecomeIs DEF Core
<1>2. lock' \in [Processes -> Threads \cup {Nobody}] /\ lock'[Home[t]] = t
  BY HomeType DEF Core, Shape, TypeOK, Take
<1>3. \A u \in Threads : Work(thr'[u], MaxCalls[u])
  BY <1>1 DEF Core, Shape
<1>4. Shape'
  BY <1>1, <1>2, <1>3 DEF Core, Shape, TypeOK, Work
<1>5. Exclusive'
  <2>1. SUFFICES ASSUME NEW u \in Threads, thr'[u].pc \in Holding PROVE lock'[Home[u]] = u
    BY DEF Exclusive
  <2>2. CASE u = t
    BY <1>2, <2>2
  <2>3. CASE u # t
    <3>1. lock[Home[u]] = u
      BY <1>1, <2>1, <2>3 DEF Core, Exclusive
    <3>2. Home[u] # Home[t]
      BY <3>1, QueueAssumption DEF Take, QueueAssumption
    <3>3. QED
      BY <3>1, <3>2, HomeType DEF Core, Shape, TypeOK, Take
  <2>4. QED
    BY <2>2, <2>3
<1>6. Deciding'
  <2>1. SUFFICES ASSUME NEW u \in Threads, thr'[u].pc \in Holding, thr'[u].call = "decide"
                 PROVE  thr'[u].verdict \in given'[thr'[u].sig] /\ My(u)'[thr'[u].sig] # Absent
    BY DEF Deciding
  <2>2. CASE u = t
    BY <1>1, <2>1, <2>2 DEF My
  <2>3. CASE u # t
    <3>1. thr[u].sig \in Signatures
      BY <1>1, <2>1, <2>3 DEF Core, Shape, Work
    <3>2. QED
      BY <1>1, <2>1, <2>3, <3>1 DEF Core, Deciding, My
  <2>4. QED
    BY <2>2, <2>3
<1>7. AllJustified'
  BY DEF Core, AllJustified, Justified
<1>8. ChosenThere'
  BY <1>1 DEF Core, ChosenThere, My, Holding
<1>9. QED
  BY <1>4, <1>5, <1>6, <1>7, <1>8 DEF Core

\* A step of the holder of the lock, inside the call.
LEMMA HeldStep ==
    ASSUME Core, NEW t \in Threads, NEW w, Become(t, w), Work(w, MaxCalls[t]),
           thr[t].pc \in Holding, w.pc \in Holding, w.call = thr[t].call,
           w.sig = thr[t].sig, w.verdict = thr[t].verdict,
           mem' \in [Processes -> Contents],
           \A p \in Processes, s \in Signatures :
               mem[p][s] # Absent => mem'[p][s] # Absent,
           \A p \in Processes : Justified(mem'[p]),
           tmp' = tmp \/ tmp' = Torn \/ (tmp' = My(t) /\ UNCHANGED mem),
           UNCHANGED <<disk, lock, told, tried, given, faults>>
    PROVE  Core'
<1>1. DOMAIN thr' = Threads /\ thr'[t] = w /\ \A u \in Threads \ {t} : thr'[u] = thr[u]
  BY BecomeIs DEF Core
<1>2. \A u \in Threads : Work(thr'[u], MaxCalls[u])
  BY <1>1 DEF Core, Shape
<1>3. My(t) \in Contents
  BY HomeType DEF Core, Shape, TypeOK, My
<1>4. Shape'
  BY <1>1, <1>2, <1>3 DEF Core, Shape, TypeOK, Work
<1>5. Exclusive'
  BY <1>1 DEF Core, Exclusive
<1>6. Deciding'
  <2>1. SUFFICES ASSUME NEW u \in Threads, thr'[u].pc \in Holding, thr'[u].call = "decide"
                 PROVE  thr'[u].verdict \in given'[thr'[u].sig] /\ My(u)'[thr'[u].sig] # Absent
    BY DEF Deciding
  <2>2. /\ thr[u].pc \in Holding /\ thr[u].call = "decide"
        /\ thr'[u].sig = thr[u].sig /\ thr'[u].verdict = thr[u].verdict
    BY <1>1, <2>1
  <2>3. thr[u].sig \in Signatures
    BY <2>2 DEF Core, Shape, Work
  <2>4. QED
    BY <2>2, <2>3, HomeType DEF Core, Deciding, My
<1>7. AllJustified'
  <2>1. Justified(mem[Home[t]])
    BY HomeType DEF Core, AllJustified
  <2>2. \A m : Justified(m)' = Justified(m)
    BY DEF Justified
  <2>3. tmp' \notin {Torn, Absent} => Justified(tmp')
    BY <2>1, <2>2 DEF Core, AllJustified, My, Justified
  <2>4. \A p \in Processes : Justified(mem'[p])
    OBVIOUS
  <2>5. disk' # Torn => Justified(disk')
    BY DEF Core, AllJustified, Justified
  <2>6. QED
    BY <2>3, <2>4, <2>5 DEF AllJustified, Justified
<1>8. ChosenThere'
  <2>1. SUFFICES ASSUME NEW u \in Threads, thr'[u].pc = "apply", NEW s \in thr'[u].chosen
                 PROVE  My(u)'[s] # Absent
    BY DEF ChosenThere
  <2>2. thr[u].pc = "apply" /\ s \in thr[u].chosen
    BY <1>1, <2>1 DEF Holding
  <2>3. s \in Signatures
    BY <2>2 DEF Core, Shape, Work
  <2>4. QED
    BY <2>2, <2>3, HomeType DEF Core, ChosenThere, My
<1>9. QED
  BY <1>4, <1>5, <1>6, <1>7, <1>8 DEF Core

\* A change of one item in the memory of the thread's process.
LEMMA ChangeIs ==
    ASSUME Core, NEW t \in Threads, NEW s \in Signatures, NEW item \in Items,
           Change(t, s, item), item.verdict \in given[s] \cup {NoVerdict}
    PROVE  /\ mem' \in [Processes -> Contents]
           /\ \A p \in Processes, r \in Signatures : mem[p][r] # Absent => mem'[p][r] # Absent
           /\ \A p \in Processes : Justified(mem'[p])
           /\ My(t)' = [My(t) EXCEPT ![s] = item]
<1>1. mem \in [Processes -> Contents] /\ Home[t] \in Processes
  BY HomeType DEF Core, Shape, TypeOK
<1>2. mem[Home[t]] \in [Signatures -> Items \cup {Absent}]
  BY <1>1 DEF Contents
<1>3. mem' = [mem EXCEPT ![Home[t]] = [mem[Home[t]] EXCEPT ![s] = item]]
  BY DEF Change
<1>4. [mem[Home[t]] EXCEPT ![s] = item] \in Contents
  BY <1>2 DEF Contents
<1>5. mem' \in [Processes -> Contents]
  BY <1>1, <1>3, <1>4
<1>6. item # Absent
  BY AtomAssumption DEF AtomAssumption
<1>7. \A p \in Processes, r \in Signatures :
        mem'[p][r] = IF p = Home[t] /\ r = s THEN item ELSE mem[p][r]
  BY <1>1, <1>2, <1>3
<1>8. \A p \in Processes : Justified(mem'[p])
  BY <1>7 DEF Core, AllJustified, Justified
<1>9. QED
  BY <1>1, <1>3, <1>5, <1>6, <1>7, <1>8 DEF My

LEMMA ReplaceStep ==
    ASSUME Core, NEW t \in Threads, Replace(t) PROVE Core'
<1> DEFINE w == IF thr[t].call = "decide" THEN Idle(thr[t].calls)
                ELSE [thr[t] EXCEPT !.pc = "list", !.size = Size(My(t))]
<1>1. Become(t, w) /\ thr[t].pc = "replace" /\ thr[t].pc \in Holding
  BY DEF Replace, Holding
<1>2. Work(w, MaxCalls[t]) /\ w.pc \in {"idle", "list"}
  <2>1. Work(thr[t], MaxCalls[t])
    BY DEF Core, Shape
  <2>2. CASE thr[t].call = "decide"
    BY <2>1, <2>2 DEF Work, Idle, Fields, Labels, Holding
  <2>3. CASE thr[t].call # "decide"
    BY <2>1, <2>3 DEF Work, Fields, Labels, Holding
  <2>4. QED
    BY <2>2, <2>3
<1> HIDE DEF w
<1>3. DOMAIN thr' = Threads /\ thr'[t] = w /\ \A u \in Threads \ {t} : thr'[u] = thr[u]
  BY <1>1, BecomeIs DEF Core
<1>4. \A u \in Threads : Work(thr'[u], MaxCalls[u])
  BY <1>2, <1>3 DEF Core, Shape
<1>5. UNCHANGED <<mem, given, resolved, faults>> /\ disk' = tmp /\ tmp' = Absent /\ tmp # Absent /\ Drop(t)
  BY DEF Replace
<1>6. /\ told' \in [Signatures -> Verdicts \cup {NoVerdict}]
      /\ tried' \in [Signatures -> SUBSET Verdicts]
  <2>1. CASE thr[t].call = "decide"
    <3>1. thr[t].sig \in Signatures /\ thr[t].verdict \in Verdicts
      BY <1>1, <2>1 DEF Core, Shape, Work
    <3>2. /\ told' = [told EXCEPT ![thr[t].sig] = thr[t].verdict]
          /\ tried' = [tried EXCEPT ![thr[t].sig] = {}]
      BY <2>1 DEF Replace
    <3>3. told \in [Signatures -> Verdicts \cup {NoVerdict}] /\ tried \in [Signatures -> SUBSET Verdicts]
      BY DEF Core, Shape
    <3>4. QED
      BY <3>1, <3>2, <3>3
  <2>2. CASE thr[t].call # "decide"
    BY <2>2 DEF Replace, Core, Shape
  <2>3. QED
    BY <2>1, <2>2
<1>7. lock' \in [Processes -> Threads \cup {Nobody}]
  BY <1>5 DEF Core, Shape, TypeOK, Drop
<1>8. Shape'
  BY <1>3, <1>4, <1>5, <1>6, <1>7 DEF Core, Shape, TypeOK, Work
<1>9. Exclusive'
  <2>1. SUFFICES ASSUME NEW u \in Threads, thr'[u].pc \in Holding PROVE lock'[Home[u]] = u
    BY DEF Exclusive
  <2>2. u # t /\ thr[u].pc \in Holding
    BY <1>2, <1>3, <2>1 DEF Holding
  <2>3. lock[Home[u]] = u
    BY <2>2 DEF Core, Exclusive
  <2>4. QED
    BY <1>1, <1>5, <2>2, <2>3, Alone, HomeType DEF Core, Shape, TypeOK, Drop
<1>10. Deciding'
  BY <1>2, <1>3, <1>5 DEF Core, Deciding, My, Holding
<1>11. AllJustified'
  BY <1>5 DEF Core, AllJustified, Justified
<1>12. ChosenThere'
  BY <1>2, <1>3, <1>5 DEF Core, ChosenThere, My
<1>13. QED
  BY <1>8, <1>9, <1>10, <1>11, <1>12 DEF Core

LEMMA RestartStep ==
    ASSUME Core, NEW p \in Processes, Restart(p) PROVE Core'
<1>1. \A t \in Threads : thr'[t] = IF Home[t] = p THEN Idle(thr[t].calls) ELSE thr[t]
  BY DEF Restart
<1>2. ASSUME NEW t \in Threads PROVE Work(thr'[t], MaxCalls[t])
  <2>1. Work(thr[t], MaxCalls[t])
    BY DEF Core, Shape
  <2>2. Work(Idle(thr[t].calls), MaxCalls[t])
    BY <2>1 DEF Work, Idle, Fields, Labels, Holding
  <2>3. QED
    BY <1>1, <2>1, <2>2
<1>3. Nothing \in Contents /\ Justified(Nothing)
  BY DEF Nothing, Contents, Justified
<1>4. Loaded(disk) \in Contents /\ Justified(Loaded(disk))
  BY <1>3 DEF Loaded, Core, Shape, TypeOK, AllJustified
<1>5. mem' \in [Processes -> Contents] /\ \A q \in Processes : Justified(mem'[q])
  BY <1>4 DEF Restart, Core, Shape, TypeOK, AllJustified
<1>6. lock' \in [Processes -> Threads \cup {Nobody}] /\ DOMAIN thr' = Threads
  BY DEF Restart, Core, Shape, TypeOK
<1>7. faults' \in 0 .. MaxFaults
  BY QueueAssumption DEF Restart, Core, Shape, TypeOK, QueueAssumption
<1>8. Shape'
  BY <1>2, <1>5, <1>6, <1>7 DEF Restart, Core, Shape, TypeOK, Work, store, ghosts
<1>9. \A t \in Threads : thr'[t].pc # "idle" => Home[t] # p /\ thr'[t] = thr[t]
  <2>1. \A n : Idle(n).pc = "idle"
    BY DEF Idle
  <2>2. QED
    BY <1>1, <2>1
<1>10. ASSUME NEW t \in Threads, thr'[t].pc # "idle"
       PROVE  My(t)' = My(t) /\ lock'[Home[t]] = lock[Home[t]]
  <2>1. Home[t] # p /\ Home[t] \in Processes
    BY <1>9, <1>10, HomeType
  <2>2. mem' = [mem EXCEPT ![p] = Loaded(disk)] /\ lock' = [lock EXCEPT ![p] = Nobody]
    BY DEF Restart
  <2>3. mem \in [Processes -> Contents] /\ lock \in [Processes -> Threads \cup {Nobody}]
    BY DEF Core, Shape, TypeOK
  <2>4. mem'[Home[t]] = mem[Home[t]] /\ lock'[Home[t]] = lock[Home[t]]
    BY <2>1, <2>2, <2>3
  <2>5. QED
    BY <2>4 DEF My
<1>11. Exclusive' /\ Deciding'
  BY <1>9, <1>10 DEF Core, Exclusive, Deciding, Holding, Restart, ghosts
<1>12. ChosenThere'
  BY <1>9, <1>10 DEF Core, ChosenThere
<1>13. AllJustified'
  BY <1>5 DEF Core, AllJustified, Justified, Restart, store, ghosts
<1>14. QED
  BY <1>8, <1>11, <1>12, <1>13 DEF Core

---------------------------------------------------------------------------
\* Work that is done on an answer, and work that begins with a call.
LEMMA IdleWork ==
    ASSUME Core, NEW t \in Threads
    PROVE  /\ Work(Idle(thr[t].calls), MaxCalls[t])
           /\ Idle(thr[t].calls).pc = "idle"
           /\ thr[t].calls < MaxCalls[t] =>
                 Work(Idle(thr[t].calls + 1), MaxCalls[t]) /\ Idle(thr[t].calls + 1).pc = "idle"
<1>1. thr[t].calls \in 0 .. MaxCalls[t] /\ MaxCalls[t] \in Nat
  BY QueueAssumption DEF Core, Shape, Work, QueueAssumption
<1>2. QED
  BY <1>1 DEF Work, Idle, Fields, Labels, Holding

LEMMA CallsStep ==
    ASSUME Core, NEW t \in Threads,
           CallList(t) \/ CallSuggest(t) \/ \E p \in Plans : CallResolve(t, p)
    PROVE  Core'
<1> DEFINE i == Idle(thr[t].calls + 1)
<1>1. /\ thr[t].calls < MaxCalls[t]
      /\ UNCHANGED <<mem, disk, tmp, lock, told, tried, given, faults>>
  BY DEF CallList, CallSuggest, CallResolve, store, ghosts
<1>2. Work(i, MaxCalls[t])
  BY <1>1, IdleWork
<1>3. faults' \in 0 .. MaxFaults
  BY <1>1 DEF Core, Shape, TypeOK
<1>4. CASE CallList(t)
  <2> DEFINE w == [i EXCEPT !.pc = "list", !.call = "list", !.size = Size(My(t))]
  <2>1. Become(t, w)
    BY <1>4 DEF CallList
  <2>2. Work(w, MaxCalls[t]) /\ w.pc \notin Holding /\ w.pc # "apply"
    BY <1>2 DEF Work, Idle, Fields, Labels, Holding
  <2>3. QED
    BY <1>1, <1>3, <2>1, <2>2, QuietStep
<1>5. CASE CallSuggest(t)
  <2> DEFINE w == [i EXCEPT !.pc = "tally", !.call = "suggest",
                      !.todo = {s \in Signatures : My(t)[s] # Absent}, !.size = Size(My(t))]
  <2>1. Become(t, w)
    BY <1>5 DEF CallSuggest
  <2>2. Work(w, MaxCalls[t]) /\ w.pc \notin Holding /\ w.pc # "apply"
    BY <1>2 DEF Work, Idle, Fields, Labels, Holding
  <2>3. QED
    BY <1>1, <1>3, <2>1, <2>2, QuietStep
<1>6. ASSUME NEW p \in Plans, CallResolve(t, p) PROVE Core'
  <2> DEFINE w == [i EXCEPT !.pc = "choose", !.call = "resolve", !.plan = p, !.size = Size(My(t))]
  <2>1. Become(t, w)
    BY <1>6 DEF CallResolve
  <2>2. Work(w, MaxCalls[t]) /\ w.pc \notin Holding /\ w.pc # "apply"
    BY <1>2 DEF Work, Idle, Fields, Labels, Holding
  <2>3. QED
    BY <1>1, <1>3, <2>1, <2>2, QuietStep
<1>7. QED
  BY <1>4, <1>5, <1>6

LEMMA AnswersStep ==
    ASSUME Core, NEW t \in Threads,
           EndList(t) \/ Apply(t) \/ Suggest(t) \/ SaveFails(t)
    PROVE  Core'
<1>1. Become(t, Idle(thr[t].calls)) /\ UNCHANGED <<mem, disk, tmp, told, tried, given>>
  BY DEF EndList, Apply, Suggest, SaveFails, Raise, store, ghosts
<1>2. faults' \in 0 .. MaxFaults
  BY QueueAssumption DEF EndList, Apply, Suggest, SaveFails, Core, Shape, TypeOK, QueueAssumption
<1>3. UNCHANGED lock \/ (thr[t].pc \in Holding /\ Drop(t))
  BY DEF EndList, Apply, Suggest, SaveFails, Raise, Holding
<1>4. Work(Idle(thr[t].calls), MaxCalls[t]) /\ Idle(thr[t].calls).pc = "idle"
  BY IdleWork
<1>5. Idle(thr[t].calls).pc \notin Holding
  BY <1>4 DEF Holding
<1>6. QED
  BY <1>1, <1>2, <1>3, <1>4, <1>5, QuietStep

LEMMA WalkStep ==
    ASSUME Core, NEW t \in Threads, Choose(t) \/ Tally(t)
    PROVE  Core'
<1>1. UNCHANGED <<mem, disk, tmp, lock, told, tried, given, faults>>
  BY DEF Choose, Tally, store, ghosts
<1>2. faults' \in 0 .. MaxFaults /\ Work(thr[t], MaxCalls[t])
  BY <1>1 DEF Core, Shape, TypeOK
<1>3. CASE Become(t, Idle(thr[t].calls))
  <2>1. Idle(thr[t].calls).pc \notin Holding
    BY IdleWork DEF Holding
  <2>2. QED
    BY <1>1, <1>2, <1>3, <2>1, IdleWork, QuietStep
<1>4. CASE Choose(t) /\ ~Become(t, Idle(thr[t].calls))
  <2> DEFINE w == [thr[t] EXCEPT !.pc = "apply", !.chosen = Decided(t, thr[t].plan)]
  <2>1. Become(t, w) /\ thr[t].pc = "choose"
    BY <1>4 DEF Choose
  <2>2. Decided(t, thr[t].plan) \subseteq Signatures
        /\ \A s \in Decided(t, thr[t].plan) : My(t)[s] # Absent
    BY DEF Decided
  <2>3. Work(w, MaxCalls[t]) /\ w.pc \notin Holding /\ w.chosen = Decided(t, thr[t].plan)
    BY <1>2, <2>1, <2>2 DEF Work, Fields, Labels, Holding
  <2>4. QED
    BY <1>1, <1>2, <2>1, <2>2, <2>3, QuietStep
<1>5. CASE Tally(t) /\ ~Become(t, Idle(thr[t].calls))
  <2>1. PICK s \in thr[t].todo :
          Become(t, [thr[t] EXCEPT !.todo = @ \ {s},
                        !.tally = IF My(t)[s].status = "decided"
                                  THEN @ \cup {<<s[2], My(t)[s].verdict, s>>} ELSE @])
    BY <1>5 DEF Tally
  <2> DEFINE w == [thr[t] EXCEPT !.todo = @ \ {s},
                        !.tally = IF My(t)[s].status = "decided"
                                  THEN @ \cup {<<s[2], My(t)[s].verdict, s>>} ELSE @]
  <2>2. thr[t].pc = "tally"
    BY <1>5 DEF Tally
  <2>3. Work(w, MaxCalls[t]) /\ w.pc = "tally"
    BY <1>2, <2>2 DEF Work, Fields, Labels, Holding
  <2>4. w.pc \notin Holding /\ w.pc # "apply"
    BY <2>3 DEF Holding
  <2>5. QED
    BY <1>1, <1>2, <2>1, <2>3, <2>4, QuietStep
<1>6. QED
  BY <1>3, <1>4, <1>5

LEMMA EnqueueStep ==
    ASSUME Core, NEW t \in Threads, NEW p \in Plans, CallEnqueue(t, p) PROVE Core'
<1> DEFINE todo == {Signature(p, f) : f \in {g \in ResultOf[p] : Open(g)}}
           w == [Idle(thr[t].calls + 1) EXCEPT !.pc = "enqueue", !.call = "enqueue", !.plan = p,
                    !.todo = todo]
<1>1. Become(t, w) /\ Take(t) /\ thr[t].calls < MaxCalls[t]
      /\ UNCHANGED <<mem, disk, tmp, told, tried, given, faults>>
  BY DEF CallEnqueue, store, ghosts
<1>2. todo \subseteq Signatures
  BY SignatureType
<1> HIDE DEF todo
<1>3. Work(Idle(thr[t].calls + 1), MaxCalls[t])
  BY <1>1, IdleWork
<1>4. Work(w, MaxCalls[t]) /\ w.pc \in Holding /\ w.call # "decide"
  BY <1>2, <1>3 DEF Work, Idle, Fields, Labels, Holding
<1> HIDE DEF w
<1>5. tried' \in [Signatures -> SUBSET Verdicts] /\ given' \in [Signatures -> SUBSET Verdicts]
      /\ \A s \in Signatures : given[s] \subseteq given'[s]
  BY <1>1 DEF Core, Shape
<1>6. QED
  BY <1>1, <1>4, <1>5, BeginStep

LEMMA DecideStep ==
    ASSUME Core, NEW t \in Threads, NEW s \in Signatures, NEW v \in Verdicts, CallDecide(t, s, v)
    PROVE  Core'
<1>1. thr[t].calls < MaxCalls[t] /\ UNCHANGED <<mem, disk, tmp, told, faults>>
  BY DEF CallDecide, store
<1>2. Work(Idle(thr[t].calls + 1), MaxCalls[t]) /\ Idle(thr[t].calls + 1).pc = "idle"
  BY <1>1, IdleWork
<1>3. CASE My(t)[s] = Absent
  <2>1. Become(t, Idle(thr[t].calls + 1)) /\ UNCHANGED <<lock, tried, given>>
    BY <1>3 DEF CallDecide
  <2>2. Idle(thr[t].calls + 1).pc \notin Holding
    BY <1>2 DEF Holding
  <2>3. faults' \in 0 .. MaxFaults
    BY <1>1 DEF Core, Shape, TypeOK
  <2>4. QED
    BY <1>1, <1>2, <2>1, <2>2, <2>3, QuietStep
<1>4. CASE My(t)[s] # Absent
  <2> DEFINE w == [Idle(thr[t].calls + 1) EXCEPT !.pc = "status", !.call = "decide",
                      !.sig = s, !.verdict = v]
  <2>1. /\ Become(t, w) /\ Take(t)
        /\ tried' = [tried EXCEPT ![s] = @ \cup {v}]
        /\ given' = [given EXCEPT ![s] = @ \cup {v}]
    BY <1>4 DEF CallDecide
  <2>2. Work(w, MaxCalls[t]) /\ w.pc \in Holding /\ w.sig = s /\ w.verdict = v
    BY <1>2 DEF Work, Idle, Fields, Labels, Holding
  <2> HIDE DEF w
  <2>3. tried \in [Signatures -> SUBSET Verdicts] /\ given \in [Signatures -> SUBSET Verdicts]
    BY DEF Core, Shape
  <2>4. tried' \in [Signatures -> SUBSET Verdicts] /\ given' \in [Signatures -> SUBSET Verdicts]
        /\ v \in given'[s] /\ \A r \in Signatures : given[r] \subseteq given'[r]
    BY <2>1, <2>3
  <2>5. QED
    BY <1>1, <1>4, <2>1, <2>2, <2>4, BeginStep
<1>5. QED
  BY <1>3, <1>4

LEMMA AddItemStep ==
    ASSUME Core, NEW t \in Threads, AddItem(t) PROVE Core'
<1>1. thr[t].pc = "enqueue" /\ UNCHANGED <<disk, tmp, lock, told, tried, given, faults>>
  BY DEF AddItem, store, ghosts
<1>2. PICK s \in thr[t].todo :
        /\ IF My(t)[s] = Absent THEN Change(t, s, NewItem) ELSE UNCHANGED mem
        /\ Become(t, [thr[t] EXCEPT !.todo = @ \ {s}])
  BY DEF AddItem
<1> DEFINE w == [thr[t] EXCEPT !.todo = @ \ {s}]
<1>3. Work(thr[t], MaxCalls[t]) /\ s \in Signatures
  BY DEF Core, Shape, Work
<1>4. /\ Work(w, MaxCalls[t]) /\ w.pc \in Holding /\ w.call = thr[t].call
      /\ w.sig = thr[t].sig /\ w.verdict = thr[t].verdict
  BY <1>1, <1>3 DEF Work, Fields, Holding
<1>5. NewItem \in Items /\ NewItem.verdict = NoVerdict
  BY DEF NewItem, Items
<1>6. /\ mem' \in [Processes -> Contents]
      /\ \A p \in Processes, r \in Signatures : mem[p][r] # Absent => mem'[p][r] # Absent
      /\ \A p \in Processes : Justified(mem'[p])
  <2>1. CASE My(t)[s] = Absent
    <3>1. Change(t, s, NewItem)
      BY <1>2, <2>1
    <3>2. QED
      BY <1>3, <1>5, <3>1, ChangeIs
  <2>2. CASE My(t)[s] # Absent
    BY <1>2, <2>2 DEF Core, Shape, TypeOK, AllJustified
  <2>3. QED
    BY <2>1, <2>2
<1>7. Become(t, w) /\ thr[t].pc \in Holding
  BY <1>1, <1>2 DEF Holding
<1> HIDE DEF w
<1>8. QED
  BY <1>1, <1>4, <1>6, <1>7, HeldStep

\* The three assignments of decide.
LEMMA SetStep ==
    ASSUME Core, NEW t \in Threads, SetStatus(t) \/ SetVerdict(t) \/ SetReviewer(t)
    PROVE  /\ Core'
           /\ \E item \in Items :
                /\ mem' = [mem EXCEPT ![Home[t]][thr[t].sig] = item]
                /\ item.verdict = IF SetVerdict(t) THEN thr[t].verdict ELSE My(t)[thr[t].sig].verdict
<1> DEFINE s == thr[t].sig
           old == My(t)[s]
           next == IF thr[t].pc = "status" THEN "verdict"
                   ELSE IF thr[t].pc = "verdict" THEN "reviewer" ELSE "save"
           w == [thr[t] EXCEPT !.pc = next]
<1>1. thr[t].pc \in {"status", "verdict", "reviewer"}
      /\ UNCHANGED <<disk, tmp, lock, told, tried, given, faults>> /\ Become(t, w)
  BY DEF SetStatus, SetVerdict, SetReviewer, Goto, store, ghosts
<1>2. Work(thr[t], MaxCalls[t])
  BY DEF Core, Shape
<1>3. thr[t].pc \in Holding /\ thr[t].call = "decide" /\ s \in Signatures /\ thr[t].verdict \in Verdicts
  BY <1>1, <1>2 DEF Work, Holding
<1>4. thr[t].verdict \in given[s] /\ old # Absent
  BY <1>3 DEF Core, Deciding
<1>5. My(t) \in Contents
  BY HomeType DEF Core, Shape, TypeOK, My
<1>6. old \in Items
  BY <1>3, <1>4, <1>5 DEF Contents
<1>7. Justified(My(t))
  BY HomeType DEF Core, AllJustified, My
<1>8. old.verdict \in given[s] \cup {NoVerdict}
  BY <1>3, <1>4, <1>7 DEF Justified
<1>9. /\ Work(w, MaxCalls[t]) /\ w.pc \in Holding /\ w.call = thr[t].call
      /\ w.sig = thr[t].sig /\ w.verdict = thr[t].verdict
  BY <1>1, <1>2, <1>3 DEF Work, Fields, Holding, Labels
<1>10. \E item \in Items :
         /\ Change(t, s, item)
         /\ item.verdict = IF SetVerdict(t) THEN thr[t].verdict ELSE old.verdict
         /\ item.verdict \in given[s] \cup {NoVerdict}
  <2>1. CASE SetStatus(t)
    <3> DEFINE st == IF thr[t].verdict # "NEEDS_REVIEW" THEN "decided" ELSE "deferred"
               item == [old EXCEPT !.status = st]
    <3>1. Change(t, s, item) /\ ~SetVerdict(t)
      BY <2>1 DEF SetStatus, SetVerdict
    <3>2. item \in Items /\ item.verdict = old.verdict
      BY <1>6 DEF Items
    <3>3. QED
      BY <1>8, <3>1, <3>2
  <2>2. CASE SetVerdict(t)
    <3> DEFINE item == [old EXCEPT !.verdict = thr[t].verdict]
    <3>1. Change(t, s, item)
      BY <2>2 DEF SetVerdict
    <3>2. item \in Items /\ item.verdict = thr[t].verdict
      BY <1>3, <1>6 DEF Items
    <3>3. QED
      BY <1>4, <2>2, <3>1, <3>2
  <2>3. CASE SetReviewer(t)
    <3> DEFINE item == [old EXCEPT !.reviewer = t]
    <3>1. Change(t, s, item) /\ ~SetVerdict(t)
      BY <2>3 DEF SetReviewer, SetVerdict
    <3>2. item \in Items /\ item.verdict = old.verdict
      BY <1>6 DEF Items
    <3>3. QED
      BY <1>8, <3>1, <3>2
  <2>4. QED
    BY <2>1, <2>2, <2>3
<1> HIDE DEF w, old, next
<1>11. PICK item \in Items :
         /\ Change(t, s, item)
         /\ item.verdict = IF SetVerdict(t) THEN thr[t].verdict ELSE old.verdict
         /\ item.verdict \in given[s] \cup {NoVerdict}
  BY <1>10
<1>12. /\ mem' \in [Processes -> Contents]
       /\ \A p \in Processes, r \in Signatures : mem[p][r] # Absent => mem'[p][r] # Absent
       /\ \A p \in Processes : Justified(mem'[p])
  BY <1>3, <1>11, ChangeIs
<1>13. Core'
  BY <1>1, <1>3, <1>9, <1>12, HeldStep
<1>14. QED
  BY <1>11, <1>13 DEF Change, old

LEMMA FileStep ==
    ASSUME Core, NEW t \in Threads, AllAdded(t) \/ OpenTmp(t) \/ WriteTmp(t) PROVE Core'
<1> DEFINE next == IF thr[t].pc = "enqueue" THEN "save" ELSE IF thr[t].pc = "save" THEN "write" ELSE "replace"
           w == [thr[t] EXCEPT !.pc = next]
<1>1. thr[t].pc \in {"enqueue", "save", "write"} /\ Become(t, w)
      /\ UNCHANGED <<mem, disk, lock, told, tried, given, faults>>
      /\ (tmp' = tmp \/ tmp' = Torn \/ (tmp' = My(t) /\ UNCHANGED mem))
  BY DEF AllAdded, OpenTmp, WriteTmp, Goto, store, ghosts
<1>2. Work(thr[t], MaxCalls[t])
  BY DEF Core, Shape
<1>3. /\ Work(w, MaxCalls[t]) /\ w.pc \in Holding /\ w.call = thr[t].call
      /\ w.sig = thr[t].sig /\ w.verdict = thr[t].verdict
  BY <1>1, <1>2 DEF Work, Fields, Holding, Labels
<1>4. thr[t].pc \in Holding /\ mem' \in [Processes -> Contents]
      /\ \A p \in Processes : Justified(mem'[p])
  BY <1>1 DEF Core, Shape, TypeOK, AllJustified, Holding
<1> HIDE DEF w
<1>5. QED
  BY <1>1, <1>3, <1>4, HeldStep

LEMMA CoreStep == Core /\ [Next]_vars => Core'
<1> SUFFICES ASSUME Core, [Next]_vars PROVE Core'
  OBVIOUS
<1>1. CASE UNCHANGED vars
  BY <1>1 DEF vars, Core, Shape, TypeOK, Work, Exclusive, Deciding, AllJustified, Justified, ChosenThere, My
<1>2. ASSUME NEW p \in Processes, Restart(p) PROVE Core'
  BY <1>2, RestartStep
<1>3. ASSUME NEW t \in Threads, Step(t) PROVE Core'
  <2>1. ASSUME NEW p \in Plans, CallEnqueue(t, p) PROVE Core'
    BY <2>1, EnqueueStep
  <2>2. ASSUME NEW s \in Signatures, NEW v \in Verdicts, CallDecide(t, s, v) PROVE Core'
    BY <2>2, DecideStep
  <2>3. CASE CallList(t) \/ CallSuggest(t) \/ \E p \in Plans : CallResolve(t, p)
    BY <2>3, CallsStep
  <2>4. CASE EndList(t) \/ Apply(t) \/ Suggest(t) \/ SaveFails(t)
    BY <2>4, AnswersStep
  <2>5. CASE Choose(t) \/ Tally(t)
    BY <2>5, WalkStep
  <2>6. CASE AddItem(t)
    BY <2>6, AddItemStep
  <2>7. CASE SetStatus(t) \/ SetVerdict(t) \/ SetReviewer(t)
    BY <2>7, SetStep
  <2>8. CASE AllAdded(t) \/ OpenTmp(t) \/ WriteTmp(t)
    BY <2>8, FileStep
  <2>9. CASE Replace(t)
    BY <2>9, ReplaceStep
  <2>10. QED
    BY <1>3, <2>1, <2>2, <2>3, <2>4, <2>5, <2>6, <2>7, <2>8, <2>9 DEF Step
<1>4. QED
  BY <1>1, <1>2, <1>3 DEF Next

---------------------------------------------------------------------------
\* A finding that Apply resolves gets a verdict that was given for its signature.
LEMMA ApplyJustified ==
    ASSUME Core, ResolvedByOwnDecision, NEW t \in Threads, Apply(t)
    PROVE  ResolvedByOwnDecision'
<1> DEFINE p == thr[t].plan
<1>1. thr[t].pc = "apply" /\ UNCHANGED given
      /\ resolved' = resolved \cup {r \in Applied(t, p) : r.verdict # r.finding.verdict}
  BY DEF Apply
<1>2. p \in Plans /\ thr[t].chosen \subseteq Signatures
  BY <1>1 DEF Core, Shape, Work
<1>3. Justified(My(t))
  BY HomeType DEF Core, AllJustified, My
<1>4. ASSUME NEW r \in Applied(t, p), r.verdict # r.finding.verdict, r.verdict # NoVerdict
      PROVE  \E s \in Signatures : /\ s = <<r.plan, r.finding.clause, r.finding.element>>
                                    /\ r.verdict \in given[s]
  <2>1. PICK f \in ResultOf[p] :
          r = [plan |-> p, finding |-> f,
               verdict |-> IF Open(f) /\ Signature(p, f) \in thr[t].chosen
                           THEN My(t)[Signature(p, f)].verdict ELSE f.verdict]
    BY DEF Applied
  <2>2. Signature(p, f) \in thr[t].chosen /\ r.verdict = My(t)[Signature(p, f)].verdict
    BY <1>4, <2>1
  <2>3. My(t)[Signature(p, f)] # Absent
    BY <1>1, <2>2 DEF Core, ChosenThere
  <2>4. r.verdict \in given[Signature(p, f)]
    BY <1>2, <1>3, <1>4, <2>2, <2>3 DEF Justified
  <2>5. Signature(p, f) = <<r.plan, r.finding.clause, r.finding.element>>
    BY <2>1 DEF Signature
  <2>6. QED
    BY <1>2, <2>4, <2>5, SignatureType
<1>5. QED
  BY <1>1, <1>4 DEF ResolvedByOwnDecision

LEMMA ResolvedStep ==
    Core /\ ResolvedByOwnDecision /\ [Next]_vars => ResolvedByOwnDecision'
<1> SUFFICES ASSUME Core, ResolvedByOwnDecision, [Next]_vars PROVE ResolvedByOwnDecision'
  OBVIOUS
<1>1. ASSUME UNCHANGED resolved, \A s \in Signatures : given[s] \subseteq given'[s]
      PROVE  ResolvedByOwnDecision'
  BY <1>1 DEF ResolvedByOwnDecision
<1>2. CASE UNCHANGED <<resolved, given>>
  BY <1>1, <1>2
<1>3. ASSUME NEW t \in Threads, NEW s \in Signatures, NEW v \in Verdicts, CallDecide(t, s, v)
      PROVE  ResolvedByOwnDecision'
  <2>1. UNCHANGED resolved /\ (UNCHANGED given \/ given' = [given EXCEPT ![s] = @ \cup {v}])
    BY <1>3 DEF CallDecide
  <2>2. given \in [Signatures -> SUBSET Verdicts]
    BY DEF Core, Shape
  <2>3. \A r \in Signatures : given[r] \subseteq given'[r]
    BY <2>1, <2>2
  <2>4. QED
    BY <1>1, <2>1, <2>3
<1>4. ASSUME NEW t \in Threads, Step(t) PROVE ResolvedByOwnDecision'
  <2>1. CASE \E s \in Signatures, v \in Verdicts : CallDecide(t, s, v)
    BY <1>3, <2>1
  <2>2. CASE Apply(t)
    BY <2>2, ApplyJustified
  <2>3. CASE \/ \E p \in Plans : CallEnqueue(t, p) \/ CallResolve(t, p)
             \/ CallList(t) \/ EndList(t) \/ CallSuggest(t) \/ Tally(t) \/ Suggest(t) \/ Choose(t)
    BY <1>2, <2>3 DEF CallEnqueue, CallResolve, CallList, EndList, CallSuggest, Tally, Suggest, Choose, ghosts
  <2>4. CASE \/ AddItem(t) \/ AllAdded(t) \/ SetStatus(t) \/ SetVerdict(t) \/ SetReviewer(t)
             \/ OpenTmp(t) \/ WriteTmp(t) \/ Replace(t) \/ SaveFails(t)
    BY <1>2, <2>4 DEF AddItem, AllAdded, SetStatus, SetVerdict, SetReviewer, OpenTmp, WriteTmp, Replace,
         SaveFails, Raise, ghosts
  <2>5. QED
    BY <1>4, <2>1, <2>2, <2>3, <2>4 DEF Step
<1>5. CASE \E p \in Processes : Restart(p)
  BY <1>2, <1>5 DEF Restart, ghosts
<1>6. CASE UNCHANGED vars
  BY <1>2, <1>6 DEF vars
<1>7. QED
  BY <1>4, <1>5, <1>6 DEF Next

\* Whatever threads and processes there are, and whatever fails, the state has its
\* type and a finding is resolved only by a verdict given for its plan, clause and
\* element, although resolved_findings reads items that decide is changing.
THEOREM ReviewSafe == Spec => [](TypeOK /\ ResolvedByOwnDecision)
<1>1. Inv /\ [Next]_vars => Inv'
  BY CoreStep, ResolvedStep DEF Inv
<1>2. Inv => TypeOK /\ ResolvedByOwnDecision
  BY DEF Inv, Core, Shape
<1>3. QED
  BY InitInv, <1>1, <1>2, PTL DEF Spec

---------------------------------------------------------------------------
(***************************************************************************)
(* One process over the store.  Memory, and the file that is about to be   *)
(* moved, are never behind what a reviewer was answered.                   *)
(***************************************************************************)
OneProcess == \A p, q \in Processes : p = q

Kept(m) ==
    \A s \in Signatures : told[s] # NoVerdict =>
        m[s] # Absent /\ m[s].verdict \in {told[s]} \cup tried[s]

Stored == disk # Torn /\ Kept(disk) /\ \A p \in Processes : Kept(mem[p])

Own ==
    \A t \in Threads :
        /\ thr[t].pc = "replace" => tmp = My(t)
        /\ thr[t].pc \in Holding /\ thr[t].call = "decide" => thr[t].verdict \in tried[thr[t].sig]
        /\ thr[t].pc \in Made /\ thr[t].call = "decide" =>
               My(t)[thr[t].sig].verdict = thr[t].verdict

Whole == Stored /\ Own

\* A thread that does not hold the lock says nothing about the files or the items.
LEMMA OwnElsewhere ==
    ASSUME OneProcess, Core, NEW t \in Threads, thr[t].pc \in Holding,
           NEW u \in Threads \ {t}
    PROVE  thr[u].pc \notin Holding
  BY Alone, HomeType DEF OneProcess

LEMMA WholeUnchanged ==
    ASSUME Core, Whole, UNCHANGED <<mem, disk, tmp, told, tried>>, DOMAIN thr' = Threads,
           \A u \in Threads : \/ thr'[u].pc \notin Holding
                               \/ thr'[u] = thr[u]
    PROVE  Whole'
<1>1. Stored'
  BY DEF Whole, Stored, Kept
<1>2. Own'
  BY DEF Whole, Own, My, Made, Holding
<1>3. QED
  BY <1>1, <1>2 DEF Whole

\* A step of the holder inside its call, when the item it decides, if it changes it, is the only one.
LEMMA WholeHeld ==
    ASSUME OneProcess, Core, Whole, NEW t \in Threads, NEW w, Become(t, w),
           thr[t].pc \in Holding, w.call = thr[t].call, w.sig = thr[t].sig, w.verdict = thr[t].verdict,
           UNCHANGED <<disk, told, tried>>,
           \A p \in Processes : Kept(mem'[p]),
           w.pc = "replace" => tmp' = My(t)',
           w.pc \in Made /\ w.call = "decide" => My(t)'[w.sig].verdict = w.verdict
    PROVE  Whole'
<1>1. thr'[t] = w /\ \A u \in Threads \ {t} : thr'[u] = thr[u] /\ thr[u].pc \notin Holding
  BY BecomeIs, OwnElsewhere DEF Core
<1>2. Own'
  BY <1>1 DEF Whole, Own, Holding, Made
<1>3. Stored'
  BY DEF Whole, Stored, Kept
<1>4. QED
  BY <1>2, <1>3 DEF Whole

LEMMA WholeReplace ==
    ASSUME OneProcess, Core, Whole, NEW t \in Threads, Replace(t) PROVE Whole'
<1>1. thr[t].pc = "replace" /\ thr[t].pc \in Holding /\ thr[t].pc \in Made
  BY DEF Replace, Holding, Made
<1>2. UNCHANGED mem /\ disk' = My(t) /\ tmp' = Absent
  BY <1>1 DEF Replace, Whole, Own
<1>3. My(t) \in Contents /\ Kept(My(t))
  BY HomeType DEF Core, Shape, TypeOK, My, Whole, Stored
<1>4. disk' # Torn
  BY <1>2, <1>3, AtomAssumption DEF AtomAssumption
<1>5. \A p \in Processes : mem[p] = My(t)
  BY HomeType DEF OneProcess, My
<1>6. \A s \in Signatures : told'[s] # NoVerdict =>
        My(t)[s] # Absent /\ My(t)[s].verdict \in {told'[s]} \cup tried'[s]
  <2>1. CASE thr[t].call # "decide"
    <3>1. UNCHANGED <<told, tried>>
      BY <2>1 DEF Replace
    <3>2. QED
      BY <1>3, <3>1 DEF Kept
  <2>2. CASE thr[t].call = "decide"
    <3> DEFINE r == thr[t].sig
    <3>1. r \in Signatures /\ My(t)[r] # Absent /\ My(t)[r].verdict = thr[t].verdict
      BY <1>1, <2>2 DEF Core, Shape, Work, Deciding, Whole, Own
    <3>2. told' = [told EXCEPT ![r] = thr[t].verdict] /\ tried' = [tried EXCEPT ![r] = {}]
      BY <2>2 DEF Replace
    <3>3. told \in [Signatures -> Verdicts \cup {NoVerdict}] /\ tried \in [Signatures -> SUBSET Verdicts]
      BY DEF Core, Shape
    <3> HIDE DEF r
    <3>4. \A s \in Signatures : told'[s] = IF s = r THEN thr[t].verdict ELSE told[s]
      BY <3>1, <3>2, <3>3
    <3>5. \A s \in Signatures \ {r} : tried'[s] = tried[s]
      BY <3>1, <3>2, <3>3
    <3>6. QED
      BY <1>3, <3>1, <3>4, <3>5 DEF Kept
  <2>3. QED
    BY <2>1, <2>2
<1>7. Stored'
  BY <1>2, <1>4, <1>5, <1>6 DEF Stored, Kept
<1>8. \A u \in Threads : thr'[u].pc \notin Holding
  <2>1. \A u \in Threads \ {t} : thr[u].pc \notin Holding
    BY <1>1, OwnElsewhere
  <2> DEFINE w == IF thr[t].call = "decide" THEN Idle(thr[t].calls)
                  ELSE [thr[t] EXCEPT !.pc = "list", !.size = Size(My(t))]
  <2>2. Become(t, w)
    BY DEF Replace
  <2>3. w.pc \notin Holding
    <3>1. Work(thr[t], MaxCalls[t])
      BY DEF Core, Shape
    <3>2. QED
      BY <3>1, IdleWork DEF Work, Fields, Holding
  <2> HIDE DEF w
  <2>4. QED
    BY <2>1, <2>2, <2>3, BecomeIs DEF Core
<1>9. Own'
  BY <1>8 DEF Own, Holding, Made
<1>10. QED
  BY <1>7, <1>9 DEF Whole

LEMMA WholeRestart ==
    ASSUME OneProcess, Core, Whole, NEW p \in Processes, Restart(p) PROVE Whole'
<1>1. UNCHANGED <<disk, tmp, told, tried>> /\ mem' = [mem EXCEPT ![p] = disk]
  BY DEF Restart, store, ghosts, Loaded, Whole, Stored
<1>2. \A t \in Threads : thr'[t].pc \notin Holding
  <2>1. \A n : Idle(n).pc = "idle"
    BY DEF Idle
  <2>2. \A t \in Threads : thr'[t] = Idle(thr[t].calls)
    BY HomeType DEF Restart, OneProcess
  <2>3. QED
    BY <2>1, <2>2 DEF Holding
<1>3. \A q \in Processes : mem'[q] = disk
  BY <1>1 DEF OneProcess, Core, Shape, TypeOK
<1>4. Stored'
  BY <1>1, <1>3 DEF Whole, Stored, Kept
<1>5. Own'
  BY <1>2 DEF Own, Holding, Made
<1>6. QED
  BY <1>4, <1>5 DEF Whole

\* Reads, answers and failures: the thread does not hold the lock afterwards.
LEMMA WholeQuiet ==
    ASSUME Core, Whole, NEW t \in Threads,
           \/ \E p \in Plans : CallResolve(t, p)
           \/ CallList(t) \/ CallSuggest(t) \/ EndList(t) \/ Apply(t) \/ Suggest(t) \/ SaveFails(t)
           \/ Choose(t) \/ Tally(t)
    PROVE  Whole'
<1>1. UNCHANGED <<mem, disk, tmp, told, tried>>
  BY DEF CallResolve, CallList, CallSuggest, EndList, Apply, Suggest, SaveFails, Raise, Choose, Tally,
         store, ghosts
<1>2. \E w : Become(t, w) /\ w.pc \notin Holding
  <2>1. \A n : Idle(n).pc = "idle" /\ DOMAIN Idle(n) = Fields
    BY DEF Idle, Fields
  <2>2. DOMAIN thr[t] = Fields
    BY DEF Core, Shape, Work
  <2>3. CASE EndList(t) \/ Apply(t) \/ Suggest(t) \/ SaveFails(t)
    BY <2>1, <2>3 DEF EndList, Apply, Suggest, SaveFails, Raise, Holding
  <2>4. CASE CallList(t)
    <3> DEFINE w == [Idle(thr[t].calls + 1) EXCEPT !.pc = "list", !.call = "list", !.size = Size(My(t))]
    <3>1. Become(t, w) /\ w.pc = "list"
      BY <2>1, <2>4 DEF CallList, Fields
    <3>2. QED
      BY <3>1 DEF Holding
  <2>5. CASE CallSuggest(t)
    <3> DEFINE w == [Idle(thr[t].calls + 1) EXCEPT !.pc = "tally", !.call = "suggest",
                        !.todo = {s \in Signatures : My(t)[s] # Absent}, !.size = Size(My(t))]
    <3>1. Become(t, w) /\ w.pc = "tally"
      BY <2>1, <2>5 DEF CallSuggest, Fields
    <3>2. QED
      BY <3>1 DEF Holding
  <2>6. ASSUME NEW p \in Plans, CallResolve(t, p) PROVE \E w : Become(t, w) /\ w.pc \notin Holding
    <3> DEFINE w == [Idle(thr[t].calls + 1) EXCEPT !.pc = "choose", !.call = "resolve",
                        !.plan = p, !.size = Size(My(t))]
    <3>1. Become(t, w) /\ w.pc = "choose"
      BY <2>1, <2>6 DEF CallResolve, Fields
    <3>2. QED
      BY <3>1 DEF Holding
  <2>7. CASE Choose(t)
    <3> DEFINE w == [thr[t] EXCEPT !.pc = "apply", !.chosen = Decided(t, thr[t].plan)]
    <3>1. Become(t, w) \/ Become(t, Idle(thr[t].calls))
      BY <2>7 DEF Choose
    <3>2. w.pc = "apply"
      BY <2>2 DEF Fields
    <3>3. QED
      BY <2>1, <3>1, <3>2 DEF Holding
  <2>8. CASE Tally(t)
    <3>1. CASE Become(t, Idle(thr[t].calls))
      BY <2>1, <3>1 DEF Holding
    <3>2. CASE ~Become(t, Idle(thr[t].calls))
      <4>1. thr[t].pc = "tally"
        BY <2>8 DEF Tally
      <4>2. PICK s \in thr[t].todo :
              Become(t, [thr[t] EXCEPT !.todo = @ \ {s},
                            !.tally = IF My(t)[s].status = "decided"
                                      THEN @ \cup {<<s[2], My(t)[s].verdict, s>>} ELSE @])
        BY <2>8, <3>2 DEF Tally
      <4>3. [thr[t] EXCEPT !.todo = @ \ {s},
               !.tally = IF My(t)[s].status = "decided"
                         THEN @ \cup {<<s[2], My(t)[s].verdict, s>>} ELSE @].pc = "tally"
        BY <2>2, <4>1 DEF Fields
      <4>4. QED
        BY <4>2, <4>3 DEF Holding
    <3>3. QED
      BY <3>1, <3>2
  <2>9. QED
    BY <2>3, <2>4, <2>5, <2>6, <2>7, <2>8
<1>3. DOMAIN thr' = Threads /\ \A u \in Threads : thr'[u].pc \notin Holding \/ thr'[u] = thr[u]
  BY <1>2, BecomeIs DEF Core
<1>4. QED
  BY <1>1, <1>3, WholeUnchanged

\* enqueue_result and decide begin: nothing is held by another thread.
LEMMA WholeBegin ==
    ASSUME OneProcess, Core, Whole, NEW t \in Threads,
           \/ \E p \in Plans : CallEnqueue(t, p)
           \/ \E s \in Signatures, v \in Verdicts : CallDecide(t, s, v)
    PROVE  Whole'
<1>1. UNCHANGED <<mem, disk, tmp, told>>
  BY DEF CallEnqueue, CallDecide, store, ghosts
<1>2. lock[Home[t]] = Nobody
  BY DEF CallEnqueue, CallDecide, Take
<1>3. \A u \in Threads : thr[u].pc \notin Holding
  BY <1>2, HomeType, QueueAssumption DEF OneProcess, Core, Exclusive, QueueAssumption
<1>4. CASE \E p \in Plans : CallEnqueue(t, p)
  <2>1. \E w : Become(t, w) /\ w.pc = "enqueue" /\ w.call = "enqueue"
    <3>1. PICK p \in Plans : CallEnqueue(t, p)
      BY <1>4
    <3> DEFINE w == [Idle(thr[t].calls + 1) EXCEPT !.pc = "enqueue", !.call = "enqueue", !.plan = p,
                        !.todo = {Signature(p, f) : f \in {g \in ResultOf[p] : Open(g)}}]
    <3>2. Become(t, w)
      BY <3>1 DEF CallEnqueue
    <3>3. w.pc = "enqueue" /\ w.call = "enqueue"
      BY DEF Idle
    <3> HIDE DEF w
    <3>4. QED
      BY <3>2, <3>3
  <2>2. UNCHANGED tried
    BY <1>4 DEF CallEnqueue, ghosts
  <2>3. Stored'
    BY <1>1, <2>2 DEF Whole, Stored, Kept
  <2>4. Own'
    BY <1>3, <2>1, BecomeIs DEF Own, Holding, Made, Core
  <2>5. QED
    BY <2>3, <2>4 DEF Whole
<1>5. ASSUME NEW s \in Signatures, NEW v \in Verdicts, CallDecide(t, s, v) PROVE Whole'
  <2>1. tried \in [Signatures -> SUBSET Verdicts]
    BY DEF Core, Shape
  <2>2. CASE My(t)[s] = Absent
    <3>1. UNCHANGED tried /\ Become(t, Idle(thr[t].calls + 1))
      BY <1>5, <2>2 DEF CallDecide
    <3>2. Idle(thr[t].calls + 1).pc = "idle"
      BY DEF Idle
    <3>3. DOMAIN thr' = Threads /\ \A u \in Threads : thr'[u].pc \notin Holding \/ thr'[u] = thr[u]
      BY <3>1, <3>2, BecomeIs DEF Core, Holding
    <3>4. QED
      BY <1>1, <3>1, <3>3, WholeUnchanged
  <2>3. CASE My(t)[s] # Absent
    <3>1. tried' = [tried EXCEPT ![s] = @ \cup {v}]
      BY <1>5, <2>3 DEF CallDecide
    <3>2. v \in tried'[s] /\ \A r \in Signatures : tried[r] \subseteq tried'[r]
      BY <2>1, <3>1
    <3>3. \E w : Become(t, w) /\ w.pc = "status" /\ w.sig = s /\ w.verdict = v
      <4> DEFINE w == [Idle(thr[t].calls + 1) EXCEPT !.pc = "status", !.call = "decide",
                          !.sig = s, !.verdict = v]
      <4>1. Become(t, w)
        BY <1>5, <2>3 DEF CallDecide
      <4>2. w.pc = "status" /\ w.sig = s /\ w.verdict = v
        BY DEF Idle
      <4> HIDE DEF w
      <4>3. QED
        BY <4>1, <4>2
    <3>4. Stored'
      BY <1>1, <3>2 DEF Whole, Stored, Kept
    <3>5. Own'
      BY <1>3, <3>2, <3>3, BecomeIs DEF Own, Holding, Made, Core
    <3>6. QED
      BY <3>4, <3>5 DEF Whole
  <2>4. QED
    BY <2>2, <2>3
<1>6. QED
  BY <1>4, <1>5

LEMMA WholeAddItem ==
    ASSUME OneProcess, Core, Whole, NEW t \in Threads, AddItem(t) PROVE Whole'
<1>1. PICK s \in thr[t].todo :
        /\ IF My(t)[s] = Absent THEN Change(t, s, NewItem) ELSE UNCHANGED mem
        /\ Become(t, [thr[t] EXCEPT !.todo = @ \ {s}])
  BY DEF AddItem
<1> DEFINE w == [thr[t] EXCEPT !.todo = @ \ {s}]
<1>2. /\ thr[t].pc = "enqueue" /\ thr[t].pc \in Holding
      /\ UNCHANGED <<disk, told, tried>> /\ s \in Signatures /\ DOMAIN thr[t] = Fields
  BY DEF AddItem, store, ghosts, Holding, Core, Shape, Work
<1>3. /\ Become(t, w) /\ w.call = thr[t].call /\ w.sig = thr[t].sig /\ w.verdict = thr[t].verdict
      /\ w.pc = "enqueue"
  BY <1>1, <1>2 DEF Fields
<1>4. \A p \in Processes : Kept(mem'[p])
  <2>1. CASE My(t)[s] # Absent
    BY <1>1, <2>1 DEF Whole, Stored
  <2>2. CASE My(t)[s] = Absent
    <3>1. mem' = [mem EXCEPT ![Home[t]][s] = NewItem]
      BY <1>1, <2>2 DEF Change
    <3>2. told[s] = NoVerdict
      BY <1>2, <2>2, HomeType DEF Whole, Stored, Kept, My
    <3>3. mem \in [Processes -> Contents] /\ Home[t] \in Processes
      BY HomeType DEF Core, Shape, TypeOK
    <3>4. mem[Home[t]] \in [Signatures -> Items \cup {Absent}]
      BY <3>3 DEF Contents
    <3>5. \A p \in Processes, r \in Signatures : r # s => mem'[p][r] = mem[p][r]
      BY <1>2, <3>1, <3>3, <3>4
    <3>6. QED
      BY <3>2, <3>5 DEF Whole, Stored, Kept
  <2>3. QED
    BY <2>1, <2>2
<1> HIDE DEF w
<1>5. w.pc \notin Made /\ w.pc # "replace"
  BY <1>3 DEF Made
<1>6. QED
  BY <1>2, <1>3, <1>4, <1>5, WholeHeld

LEMMA WholeSet ==
    ASSUME OneProcess, Core, Whole, NEW t \in Threads, SetStatus(t) \/ SetVerdict(t) \/ SetReviewer(t)
    PROVE  Whole'
<1> DEFINE s == thr[t].sig
           next == IF thr[t].pc = "status" THEN "verdict"
                   ELSE IF thr[t].pc = "verdict" THEN "reviewer" ELSE "save"
           w == [thr[t] EXCEPT !.pc = next]
<1>1. /\ thr[t].pc \in {"status", "verdict", "reviewer"} /\ UNCHANGED <<disk, told, tried>>
      /\ Become(t, w)
      /\ SetVerdict(t) => thr[t].pc = "verdict"
      /\ thr[t].pc = "verdict" => SetVerdict(t)
  BY DEF SetStatus, SetVerdict, SetReviewer, Goto, store, ghosts
<1>2. /\ thr[t].pc \in Holding /\ thr[t].call = "decide" /\ s \in Signatures
      /\ DOMAIN thr[t] = Fields /\ thr[t].verdict \in tried[s] /\ My(t)[s] # Absent
      /\ thr[t].pc = "reviewer" => My(t)[s].verdict = thr[t].verdict
  BY <1>1 DEF Core, Shape, Work, Holding, Made, Whole, Own, Deciding
<1>3. /\ w.call = "decide" /\ w.sig = s /\ w.verdict = thr[t].verdict
      /\ w.pc = next
  BY <1>2 DEF Fields
<1>4. PICK item \in Items :
        /\ mem' = [mem EXCEPT ![Home[t]][s] = item]
        /\ item.verdict = IF SetVerdict(t) THEN thr[t].verdict ELSE My(t)[s].verdict
  BY SetStep
<1>5. mem \in [Processes -> Contents] /\ Home[t] \in Processes
  BY HomeType DEF Core, Shape, TypeOK
<1>6. mem[Home[t]] \in [Signatures -> Items \cup {Absent}]
  BY <1>5 DEF Contents
<1>7. /\ \A p \in Processes, r \in Signatures : r # s => mem'[p][r] = mem[p][r]
      /\ My(t)'[s] = item
  BY <1>2, <1>4, <1>5, <1>6 DEF My
<1>8. \A p \in Processes : mem'[p][s] = item
  BY <1>5, <1>7 DEF My, OneProcess
<1>9. item # Absent
  BY AtomAssumption DEF AtomAssumption
<1>10. \A p \in Processes : Kept(mem'[p])
  <2>1. told[s] # NoVerdict => item.verdict \in {told[s]} \cup tried[s]
    BY <1>2, <1>4, <1>5 DEF Whole, Stored, Kept, My
  <2>2. QED
    BY <1>7, <1>8, <1>9, <2>1 DEF Whole, Stored, Kept
<1>11. w.pc # "replace" /\ (w.pc \in Made => item.verdict = thr[t].verdict)
  BY <1>1, <1>2, <1>3, <1>4 DEF Made
<1> HIDE DEF w, next
<1>12. QED
  BY <1>1, <1>2, <1>3, <1>7, <1>10, <1>11, WholeHeld

LEMMA WholeFile ==
    ASSUME OneProcess, Core, Whole, NEW t \in Threads, AllAdded(t) \/ OpenTmp(t) \/ WriteTmp(t)
    PROVE  Whole'
<1> DEFINE next == IF thr[t].pc = "enqueue" THEN "save" ELSE IF thr[t].pc = "save" THEN "write" ELSE "replace"
           w == [thr[t] EXCEPT !.pc = next]
<1>1. /\ thr[t].pc \in {"enqueue", "save", "write"} /\ Become(t, w)
      /\ UNCHANGED <<mem, disk, told, tried>>
      /\ thr[t].pc = "write" => tmp' = My(t)
      /\ thr[t].pc = "enqueue" => AllAdded(t)
  BY DEF AllAdded, OpenTmp, WriteTmp, Goto, store, ghosts
<1>2. DOMAIN thr[t] = Fields /\ thr[t].pc \in Holding
  BY <1>1 DEF Core, Shape, Work, Holding
<1>3. w.call = thr[t].call /\ w.sig = thr[t].sig /\ w.verdict = thr[t].verdict /\ w.pc = next
  BY <1>2 DEF Fields
<1>4. w.pc = "replace" => tmp' = My(t)'
  BY <1>1, <1>3 DEF My
<1>5. ASSUME w.pc \in Made, w.call = "decide" PROVE My(t)'[w.sig].verdict = w.verdict
  <2>1. CASE thr[t].pc \in {"save", "write"}
    BY <1>1, <1>3, <1>5, <2>1 DEF Whole, Own, Made, My
  <2>2. CASE thr[t].pc = "enqueue"
    <3>1. thr[t].call = "enqueue"
      BY <2>2 DEF Core, Shape, Work
    <3>2. QED
      BY <1>3, <1>5, <3>1
  <2>3. QED
    BY <1>1, <2>1, <2>2
<1>6. \A p \in Processes : Kept(mem'[p])
  BY <1>1 DEF Whole, Stored
<1> HIDE DEF w, next
<1>7. QED
  BY <1>1, <1>2, <1>3, <1>4, <1>5, <1>6, WholeHeld

LEMMA WholeStep ==
    ASSUME OneProcess, Core, Whole, [Next]_vars PROVE Whole'
<1>1. CASE UNCHANGED vars
  BY <1>1, WholeUnchanged DEF vars, Core, Shape
<1>2. ASSUME NEW t \in Threads, Step(t) PROVE Whole'
  BY <1>2, WholeQuiet, WholeBegin, WholeAddItem, WholeSet, WholeFile, WholeReplace DEF Step
<1>3. QED
  BY <1>1, <1>2, WholeRestart DEF Next

\* With one process over the store, a decision that was answered is in the store, or a
\* verdict given for the item since, whatever saves failed and however often the
\* process restarted (decide, _save, _load).
THEOREM ReviewKept == ASSUME OneProcess PROVE Spec => []AnsweredDecisionKept
<1>1. Init => Whole
  <2> SUFFICES ASSUME Init PROVE Whole
    OBVIOUS
  <2>1. Nothing \in Contents
    BY DEF Nothing, Contents
  <2>2. Nothing # Torn
    BY <2>1, AtomAssumption DEF AtomAssumption
  <2>3. \A t \in Threads : thr[t].pc = "idle"
    BY DEF Init, Idle
  <2>4. QED
    BY <2>2, <2>3 DEF Init, Whole, Stored, Kept, Own, Holding, Made
<1>2. Inv /\ Whole /\ [Next]_vars => Inv' /\ Whole'
  BY CoreStep, ResolvedStep, WholeStep DEF Inv
<1>3. Whole => AnsweredDecisionKept
  BY DEF Whole, Stored, Kept, AnsweredDecisionKept
<1>4. QED
  BY InitInv, <1>1, <1>2, <1>3, PTL DEF Spec

=============================================================================
