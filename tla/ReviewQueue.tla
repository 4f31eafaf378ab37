---------------------------- MODULE ReviewQueue ----------------------------
(***************************************************************************)
(* The review queue of the compliance engine (services/review_queue.py):   *)
(* items in the memory of a process, a JSON file that is written beside    *)
(* the store and moved over it, a lock that writers take and readers do    *)
(* not.  Threads enqueue results, decide items and resolve results; a save *)
(* may fail, and a process may stop and load the store again.              *)
(***************************************************************************)
EXTENDS Naturals, FiniteSets

CONSTANTS Processes, Threads,
          Home,        \* the process of each thread
          Plans,
          Findings,    \* [clause, element, n, verdict]; n tells two of a clause apart
          ResultOf,    \* the findings of each plan
          MaxCalls,    \* bound: calls of each thread
          MaxFaults,   \* bound: failed writes and restarts
          SuggestionThreshold,
          Nobody, Absent, NoVerdict, Torn

Verdicts == {"PASS", "FAIL", "NEEDS_REVIEW"}

ASSUME QueueAssumption ==
    /\ Home \in [Threads -> Processes]
    /\ \A f \in Findings : f.verdict \in Verdicts
    /\ ResultOf \in [Plans -> SUBSET Findings]
    /\ MaxCalls \in [Threads -> Nat] /\ MaxFaults \in Nat /\ SuggestionThreshold \in Nat \ {0, 1}
    /\ Nobody \notin Threads /\ NoVerdict \notin Verdicts
    /\ Torn # Absent

Signature(p, f) == <<p, f.clause, f.element>>
Open(f) == f.verdict = "NEEDS_REVIEW"

Signatures == {Signature(p, f) : p \in Plans, f \in Findings}
Items == [status : {"pending", "decided", "deferred"},
          verdict : Verdicts \cup {NoVerdict},
          reviewer : Threads \cup {Nobody}]
NewItem == [status |-> "pending", verdict |-> NoVerdict, reviewer |-> Nobody]
Nothing == [s \in Signatures |-> Absent]
Contents == [Signatures -> Items \cup {Absent}]

ASSUME AtomAssumption == Absent \notin Items /\ {Absent, Torn} \cap Contents = {}

VARIABLES mem,      \* the items in each process
          disk,     \* the store, Torn when it cannot be parsed
          tmp,      \* the file beside it, Absent when there is none
          lock,     \* the holder of each process's lock
          thr,      \* what each thread does
          told,     \* decisions answered to a reviewer, the last one for each item
          tried,    \* verdicts given for an item since
          given,    \* verdicts ever given for an item
          resolved, \* findings a call resolved, with plan and verdict
          hints,    \* clauses a call suggested, with the verdict
          faults

vars == <<mem, disk, tmp, lock, thr, told, tried, given, resolved, hints, faults>>
store == <<disk, tmp>>
ghosts == <<told, tried, given, resolved, hints>>

Idle(n) == [pc |-> "idle", call |-> "none", plan |-> Nobody, todo |-> {}, sig |-> Nobody,
            verdict |-> NoVerdict, size |-> 0, chosen |-> {}, tally |-> {}, calls |-> n]

Size(m) == Cardinality({s \in Signatures : m[s] # Absent})
My(t) == mem[Home[t]]

Init ==
    /\ mem = [p \in Processes |-> Nothing]
    /\ disk = Nothing
    /\ tmp = Absent
    /\ lock = [p \in Processes |-> Nobody]
    /\ thr = [t \in Threads |-> Idle(0)]
    /\ told = [s \in Signatures |-> NoVerdict]
    /\ tried = [s \in Signatures |-> {}]
    /\ given = [s \in Signatures |-> {}]
    /\ resolved = {}
    /\ hints = {}
    /\ faults = 0

Become(t, r) == thr' = [thr EXCEPT ![t] = r]
Goto(t, l) == Become(t, [thr[t] EXCEPT !.pc = l])
Take(t) == /\ lock[Home[t]] = Nobody
           /\ lock' = [lock EXCEPT ![Home[t]] = t]
Drop(t) == lock' = [lock EXCEPT ![Home[t]] = Nobody]
Change(t, s, item) == mem' = [mem EXCEPT ![Home[t]][s] = item]

---------------------------------------------------------------------------
\* enqueue_result: an item for every open finding that is not tracked yet

CallEnqueue(t, p) ==
    /\ thr[t].pc = "idle" /\ thr[t].calls < MaxCalls[t]
    /\ Take(t)
    /\ Become(t, [Idle(thr[t].calls + 1) EXCEPT !.pc = "enqueue", !.call = "enqueue", !.plan = p,
                     !.todo = {Signature(p, f) : f \in {g \in ResultOf[p] : Open(g)}}])
    /\ UNCHANGED <<mem, store, ghosts, faults>>

\* (mutant: an item that is tracked already starts again)
AddItem_Overwrites(t) ==
    /\ thr[t].pc = "enqueue"
    /\ \E s \in thr[t].todo :
        /\ Change(t, s, NewItem)
        /\ Become(t, [thr[t] EXCEPT !.todo = @ \ {s}])
    /\ UNCHANGED <<store, lock, ghosts, faults>>

AddItem(t) ==
    /\ thr[t].pc = "enqueue"
    /\ \E s \in thr[t].todo :
        /\ IF My(t)[s] = Absent THEN Change(t, s, NewItem) ELSE UNCHANGED mem
        /\ Become(t, [thr[t] EXCEPT !.todo = @ \ {s}])
    /\ UNCHANGED <<store, lock, ghosts, faults>>

AllAdded(t) ==
    /\ thr[t].pc = "enqueue" /\ thr[t].todo = {}
    /\ Goto(t, "save")
    /\ UNCHANGED <<mem, store, lock, ghosts, faults>>

---------------------------------------------------------------------------
\* decide: three fields are set one after the other, then the store is saved

CallDecide(t, s, v) ==
    /\ thr[t].pc = "idle" /\ thr[t].calls < MaxCalls[t]
    /\ IF My(t)[s] = Absent
       THEN /\ lock[Home[t]] = Nobody
            /\ Become(t, Idle(thr[t].calls + 1))       \* KeyError
            /\ UNCHANGED <<lock, tried, given>>
       ELSE /\ Take(t)
            /\ Become(t, [Idle(thr[t].calls + 1) EXCEPT !.pc = "status", !.call = "decide",
                             !.sig = s, !.verdict = v])
            /\ tried' = [tried EXCEPT ![s] = @ \cup {v}]
            /\ given' = [given EXCEPT ![s] = @ \cup {v}]
    /\ UNCHANGED <<mem, store, told, resolved, hints, faults>>

SetStatus(t) ==
    /\ thr[t].pc = "status"
    /\ LET s == thr[t].sig IN
        Change(t, s, [My(t)[s] EXCEPT
            !.status = IF thr[t].verdict # "NEEDS_REVIEW" THEN "decided" ELSE "deferred"])
    /\ Goto(t, "verdict")
    /\ UNCHANGED <<store, lock, ghosts, faults>>

SetVerdict(t) ==
    /\ thr[t].pc = "verdict"
    /\ Change(t, thr[t].sig, [My(t)[thr[t].sig] EXCEPT !.verdict = thr[t].verdict])
    /\ Goto(t, "reviewer")
    /\ UNCHANGED <<store, lock, ghosts, faults>>

SetReviewer(t) ==
    /\ thr[t].pc = "reviewer"
    /\ Change(t, thr[t].sig, [My(t)[thr[t].sig] EXCEPT !.reviewer = t])
    /\ Goto(t, "save")
    /\ UNCHANGED <<store, lock, ghosts, faults>>

---------------------------------------------------------------------------
\* _save: open (which empties the file beside the store), write, move

OpenTmp(t) ==
    /\ thr[t].pc = "save"
    /\ tmp' = Torn
    /\ Goto(t, "write")
    /\ UNCHANGED <<mem, disk, lock, ghosts, faults>>

WriteTmp(t) ==
    /\ thr[t].pc = "write"
    /\ tmp' = My(t)
    /\ Goto(t, "replace")
    /\ UNCHANGED <<mem, disk, lock, ghosts, faults>>

\* os.replace, and what is left of the call: decide answers, enqueue lists
Replace(t) ==
    /\ thr[t].pc = "replace" /\ tmp # Absent
    /\ disk' = tmp
    /\ tmp' = Absent
    /\ Drop(t)
    /\ IF thr[t].call = "decide"
       THEN /\ told' = [told EXCEPT ![thr[t].sig] = thr[t].verdict]
            /\ tried' = [tried EXCEPT ![thr[t].sig] = {}]
            /\ Become(t, Idle(thr[t].calls))
       ELSE /\ Become(t, [thr[t] EXCEPT !.pc = "list", !.size = Size(My(t))])
            /\ UNCHANGED <<told, tried>>
    /\ UNCHANGED <<mem, given, resolved, hints, faults>>

Raise(t) == Drop(t) /\ Become(t, Idle(thr[t].calls)) /\ UNCHANGED <<mem, disk, ghosts>>

\* a full disk, or another process that moved the file away: the call raises
SaveFails(t) ==
    /\ \/ thr[t].pc \in {"save", "write", "replace"} /\ faults < MaxFaults /\ faults' = faults + 1
       \/ thr[t].pc = "replace" /\ tmp = Absent /\ UNCHANGED faults
    /\ UNCHANGED tmp
    /\ Raise(t)

---------------------------------------------------------------------------
\* pending, decided: a walk over the dictionary, without the lock

CallList(t) ==
    /\ thr[t].pc = "idle" /\ thr[t].calls < MaxCalls[t]
    /\ Become(t, [Idle(thr[t].calls + 1) EXCEPT !.pc = "list", !.call = "list", !.size = Size(My(t))])
    /\ UNCHANGED <<mem, store, lock, ghosts, faults>>

\* the answer, or RuntimeError when the dictionary has grown since: either way the call is over
EndList(t) ==
    /\ thr[t].pc = "list"
    /\ Become(t, Idle(thr[t].calls))
    /\ UNCHANGED <<mem, store, lock, ghosts, faults>>

---------------------------------------------------------------------------
\* resolved_findings: the decided items of the plan by reference, then the findings

CallResolve(t, p) ==
    /\ thr[t].pc = "idle" /\ thr[t].calls < MaxCalls[t]
    /\ Become(t, [Idle(thr[t].calls + 1) EXCEPT !.pc = "choose", !.call = "resolve",
                     !.plan = p, !.size = Size(My(t))])
    /\ UNCHANGED <<mem, store, lock, ghosts, faults>>

Decided(t, p) == {s \in Signatures : /\ My(t)[s] # Absent
                                     /\ s[1] = p
                                     /\ My(t)[s].status = "decided"}

Choose(t) ==
    /\ thr[t].pc = "choose"
    /\ IF Size(My(t)) # thr[t].size
       THEN Become(t, Idle(thr[t].calls))
       ELSE Become(t, [thr[t] EXCEPT !.pc = "apply", !.chosen = Decided(t, thr[t].plan)])
    /\ UNCHANGED <<mem, store, lock, ghosts, faults>>

\* (mutant: a decision counts for every finding of its clause)
Applied_ByClause(t, p) ==
    {[plan |-> p, finding |-> f, verdict |-> My(t)[s].verdict]
     : f \in {g \in ResultOf[p] : Open(g)}, s \in thr[t].chosen}

\* the findings of the plan as resolved_findings returns them
Applied(t, p) ==
    {LET s == Signature(p, f) IN
       [plan |-> p, finding |-> f,
        verdict |-> IF Open(f) /\ s \in thr[t].chosen THEN My(t)[s].verdict ELSE f.verdict]
     : f \in ResultOf[p]}

Apply(t) ==
    /\ thr[t].pc = "apply"
    /\ resolved' = resolved \cup {r \in Applied(t, thr[t].plan) : r.verdict # r.finding.verdict}
    /\ Become(t, Idle(thr[t].calls))
    /\ UNCHANGED <<mem, store, lock, told, tried, given, hints, faults>>

---------------------------------------------------------------------------
\* suggestions: a walk over the items, one at a time and without the lock

CallSuggest(t) ==
    /\ thr[t].pc = "idle" /\ thr[t].calls < MaxCalls[t]
    /\ Become(t, [Idle(thr[t].calls + 1) EXCEPT !.pc = "tally", !.call = "suggest",
                     !.todo = {s \in Signatures : My(t)[s] # Absent}, !.size = Size(My(t))])
    /\ UNCHANGED <<mem, store, lock, ghosts, faults>>

Tally(t) ==
    /\ thr[t].pc = "tally"
    /\ IF Size(My(t)) # thr[t].size
       THEN Become(t, Idle(thr[t].calls))
       ELSE \E s \in thr[t].todo :
              Become(t, [thr[t] EXCEPT !.todo = @ \ {s},
                            !.tally = IF My(t)[s].status = "decided"
                                      THEN @ \cup {<<s[2], My(t)[s].verdict, s>>} ELSE @])
    /\ UNCHANGED <<mem, store, lock, ghosts, faults>>

\* consistent and frequent enough: n >= threshold and n = total
Consistent(tally) ==
    {<<c[1], c[2]>> : c \in {d \in tally :
        /\ \A e \in tally : e[1] = d[1] => e[2] = d[2]
        /\ Cardinality({e \in tally : e[1] = d[1]}) >= SuggestionThreshold}}

Suggest(t) ==
    /\ thr[t].pc = "tally" /\ thr[t].todo = {}
    /\ hints' = hints \cup Consistent(thr[t].tally)
    /\ Become(t, Idle(thr[t].calls))
    /\ UNCHANGED <<mem, store, lock, told, tried, given, resolved, faults>>

---------------------------------------------------------------------------
\* _load: a store that cannot be parsed is taken for an empty one

Loaded(d) == IF d = Torn THEN Nothing ELSE d

Restart(p) ==
    /\ faults < MaxFaults /\ faults' = faults + 1
    /\ mem' = [mem EXCEPT ![p] = Loaded(disk)]
    /\ lock' = [lock EXCEPT ![p] = Nobody]
    /\ thr' = [t \in Threads |-> IF Home[t] = p THEN Idle(thr[t].calls) ELSE thr[t]]
    /\ UNCHANGED <<store, ghosts>>

Step(t) ==
    \/ \E p \in Plans : CallEnqueue(t, p) \/ CallResolve(t, p)
    \/ \E s \in Signatures, v \in Verdicts : CallDecide(t, s, v)
    \/ CallList(t) \/ EndList(t)
    \/ AddItem(t) \/ AllAdded(t)
    \/ SetStatus(t) \/ SetVerdict(t) \/ SetReviewer(t)
    \/ OpenTmp(t) \/ WriteTmp(t) \/ Replace(t) \/ SaveFails(t)
    \/ Choose(t) \/ Apply(t)
    \/ CallSuggest(t) \/ Tally(t) \/ Suggest(t)

Next == \/ \E t \in Threads : Step(t)
        \/ \E p \in Processes : Restart(p)

Spec == Init /\ [][Next]_vars

---------------------------------------------------------------------------
TypeOK ==
    /\ mem \in [Processes -> Contents]
    /\ disk \in Contents \cup {Torn}
    /\ tmp \in Contents \cup {Torn, Absent}
    /\ lock \in [Processes -> Threads \cup {Nobody}]
    /\ faults \in 0 .. MaxFaults
    /\ \A t \in Threads : thr[t].calls \in 0 .. MaxCalls[t]

\* A decision a reviewer was answered is not lost: the store holds it, or a verdict
\* that was given for the same item later, whatever saves failed and whoever restarted
\* (decide, _save and _load).
AnsweredDecisionKept ==
    \A s \in Signatures : told[s] # NoVerdict =>
        /\ disk # Torn
        /\ disk[s] # Absent
        /\ disk[s].verdict \in {told[s]} \cup tried[s]

\* A finding becomes PASS or FAIL only by a verdict some reviewer gave for the same
\* plan, clause and element, though the walk sees decisions half made (resolved_findings
\* reads items that decide is changing).
ResolvedByOwnDecision ==
    \A r \in resolved : r.verdict # NoVerdict =>
        \E s \in Signatures : /\ s = <<r.plan, r.finding.clause, r.finding.element>>
                               /\ r.verdict \in given[s]

\* A finding that a reviewer decided is updated to the reviewer's verdict
\* (the comment of resolved_findings): never to no verdict at all.
ResolvedHasVerdict == \A r \in resolved : r.verdict # NoVerdict

=============================================================================
