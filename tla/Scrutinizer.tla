---------------------------- MODULE Scrutinizer ----------------------------
(***************************************************************************)
(* The Scrutinizer (src/vochain/scrutinizer/scrutinizer.go): an event     *)
(* listener of the vochain State with its own key/value store.  During a  *)
(* block the callbacks only append to three in-memory pools; Commit       *)
(* flushes the pools into the store and spawns the goroutine              *)
(* checkFinishedProcesses(height); Rollback empties the pools.            *)
(*                                                                         *)
(* The store is kept per key prefix: liveProcess (L), entity (E),         *)
(* processEnding (P) and results (R).  A tally is abstracted to the       *)
(* number of votes it counts.  The helpers addEntity, addLiveResultsVote, *)
(* registerPendingProcess, isLiveResultsProcess and checkFinishedProcesses*)
(* live outside src/ and follow spec.md section 4.5.                      *)
(*                                                                         *)
(* The actions take the vochain snapshot the code reads as an argument;   *)
(* the Application module composes them with its own steps.               *)
(***************************************************************************)
EXTENDS VochainTx, Sequences, SequencesExt

VARIABLES
    votePool,       \* pids of the live-results votes seen in this block
    processPool,    \* <<eid, pid>> of the processes created in this block
    resultsPool,    \* pids whose keys were all revealed in this block
    liveProcess,    \* L: pid -> live tally, or NONE when absent
    entity,         \* E: eid -> set of its pids
    entityCount,    \* in-memory count of the keys under E
    processEnding,  \* P: set of <<height, pid>> scheduled for final results
    results,        \* R: pid -> final tally, or NONE
    finishing       \* heights whose checkFinishedProcesses goroutine has not run

scrVars == <<votePool, processPool, resultsPool, liveProcess, entity,
             entityCount, processEnding, results, finishing>>
poolVars == <<votePool, processPool, resultsPool>>
storeVars == <<liveProcess, entity, entityCount, processEnding, results, finishing>>

TypeOK ==
    /\ votePool \in Seq(Pids)
    /\ processPool \in Seq(Entities \X Pids)
    /\ resultsPool \in Seq(Pids)
    /\ liveProcess \in [Pids -> Nat \cup {NONE}]
    /\ entity \in [Entities -> SUBSET Pids]
    /\ entityCount \in Nat
    /\ processEnding \subseteq Nat \X Pids
    /\ results \in [Pids -> Nat \cup {NONE}]
    /\ finishing \subseteq Nat

\* NewScrutinizer on an empty store
Init ==
    /\ votePool = <<>> /\ processPool = <<>> /\ resultsPool = <<>>
    /\ liveProcess = [p \in Pids |-> NONE]
    /\ entity = [e \in Entities |-> {}]
    /\ entityCount = 0
    /\ processEnding = {}
    /\ results = [p \in Pids |-> NONE]
    /\ finishing = {}

\* isLiveResultsProcess: the process read from the State is not encrypted;
\* a process the State does not know is an error, logged, and not live.
IsLiveResultsProcess(st, pid) ==
    st.procs[pid] # NONE /\ ~IsEncrypted(st.procs[pid].ptype)

\* The keys under the E prefix.
EntityKeys == {e \in Entities : entity[e] # {}}

\* The byte order of the entity identifiers, in which the store keeps the
\* keys under the E prefix.
KeyOrder == SetToSeq(Entities)
KeyRank == [k \in Entities |-> CHOOSE i \in DOMAIN KeyOrder : KeyOrder[i] = k]
EntityKeySeq == SelectSeq(KeyOrder, LAMBDA k : k \in EntityKeys)

\* The empty from, []byte{}.
NoFrom == NONE

\* Mutant of ListScan: the key equal to from is not skipped.
RECURSIVE ListScanKeepingFrom(_, _, _)
ListScanKeepingFrom(max, from, ks) ==
    IF ks = <<>> THEN <<>>
    ELSE IF max - 1 < 1 THEN <<Head(ks)>>
    ELSE <<Head(ks)>> \o ListScanKeepingFrom(max - 1, from, Tail(ks))

\* The loop of List: a key equal to from is skipped, any other is appended,
\* then max is decremented and the walk stops once max < 1.
RECURSIVE ListScan(_, _, _)
ListScan(max, from, ks) ==
    IF ks = <<>> THEN <<>>
    ELSE IF from # NoFrom /\ Head(ks) = from THEN ListScan(max, from, Tail(ks))
    ELSE IF max - 1 < 1 THEN <<Head(ks)>>
    ELSE <<Head(ks)>> \o ListScan(max - 1, from, Tail(ks))

\* List(max, from, prefix): the iterator seeks to prefix+from and walks the
\* keys ks under the prefix, in store order, from there.
List(max, from, ks) ==
    ListScan(max, from, SelectSeq(ks, LAMBDA k : from = NoFrom \/ KeyRank[k] >= KeyRank[from]))

\* int64(^uint(0)>>1), the max NewScrutinizer passes; it is only compared
\* with the number of keys, so the largest integer TLC handles stands for it.
MaxListSize == 2147483647

\* Number of occurrences of pid in a pool.
Occurrences(pool, pid) == Cardinality({i \in DOMAIN pool : pool[i] = pid})

OnProcess(pid, eid) ==
    /\ processPool' = Append(processPool, <<eid, pid>>)
    /\ UNCHANGED <<votePool, resultsPool, storeVars>>

OnVote(st, pid) ==
    /\ votePool' = IF IsLiveResultsProcess(st, pid) THEN Append(votePool, pid)
                                                    ELSE votePool
    /\ UNCHANGED <<processPool, resultsPool, storeVars>>

\* OnCancel and OnProcessKeys do nothing.
OnNothing == UNCHANGED scrVars

\* OnRevealKeys reads the process from the working State (committed=false),
\* after the reveal has been applied to it.
OnRevealKeys(st, pid) ==
    /\ resultsPool' = IF st.procs[pid] # NONE /\ st.procs[pid].keyIndex < 1
                      THEN Append(resultsPool, pid) ELSE resultsPool
    /\ UNCHANGED <<votePool, processPool, storeVars>>

\* Mutants of Rollback: one of the pools is not emptied.
RollbackKeepingVotePool ==
    /\ processPool' = <<>> /\ resultsPool' = <<>>
    /\ UNCHANGED <<votePool, storeVars>>
RollbackKeepingResultsPool ==
    /\ votePool' = <<>> /\ processPool' = <<>>
    /\ UNCHANGED <<resultsPool, storeVars>>

Rollback ==
    /\ votePool' = <<>> /\ processPool' = <<>> /\ resultsPool' = <<>>
    /\ UNCHANGED storeVars

\* Commit(height) runs in two steps, because its first statement starts the
\* goroutine checkFinishedProcesses(height), which may run before the rest.
\* First step: the go statement.
CommitSpawn(height) ==
    /\ finishing' = finishing \cup {height}
    /\ UNCHANGED <<poolVars, liveProcess, entity, entityCount, processEnding, results>>

\* Mutant of CommitFlush: registerPendingProcess at height+i (off by one).
CommitFlushSchedulingAtHeight(height, st) ==
    LET created  == {x[2] : x \in ToSet(processPool)}
        newEids  == {x[1] : x \in ToSet(processPool)}
        newLive  == {p \in created : IsLiveResultsProcess(st, p)}
        base(p)  == IF p \in newLive THEN 0 ELSE liveProcess[p]
    IN
    /\ entity' = [e \in Entities |->
                    entity[e] \cup {x[2] : x \in {y \in ToSet(processPool) : y[1] = e}}]
    /\ entityCount' = entityCount + Cardinality({e \in newEids : entity[e] = {}})
    /\ processEnding' = processEnding \cup
                          {<<height + i - 1, resultsPool[i]>> : i \in DOMAIN resultsPool}
    /\ liveProcess' = [p \in Pids |-> IF base(p) = NONE THEN NONE
                                      ELSE base(p) + Occurrences(votePool, p)]
    /\ UNCHANGED <<poolVars, results, finishing>>

\* Second step: addEntity and addLiveResultsProcess for processPool;
\* registerPendingProcess at height+i+1 for the i-th (0-based) element of
\* resultsPool; then addLiveResultsVote for each vote, which fails when L
\* has no entry.  The pools are not emptied: the next Rollback does that.
CommitFlush(height, st) ==
    LET created  == {x[2] : x \in ToSet(processPool)}
        newEids  == {x[1] : x \in ToSet(processPool)}
        newLive  == {p \in created : IsLiveResultsProcess(st, p)}
        base(p)  == IF p \in newLive THEN 0 ELSE liveProcess[p]
    IN
    /\ entity' = [e \in Entities |->
                    entity[e] \cup {x[2] : x \in {y \in ToSet(processPool) : y[1] = e}}]
    /\ entityCount' = entityCount + Cardinality({e \in newEids : entity[e] = {}})
    /\ processEnding' = processEnding \cup
                          {<<height + i, resultsPool[i]>> : i \in DOMAIN resultsPool}
    /\ liveProcess' = [p \in Pids |-> IF base(p) = NONE THEN NONE
                                      ELSE base(p) + Occurrences(votePool, p)]
    /\ UNCHANGED <<poolVars, results, finishing>>

\* The goroutine checkFinishedProcesses(h): for every process scheduled at
\* h, compute the tally from the envelopes of the State snapshot st, store
\* it under R and remove the live entry.
CheckFinishedProcesses(h, st) ==
    LET ending == {p \in Pids : <<h, p>> \in processEnding} IN
    /\ h \in finishing
    /\ finishing' = finishing \ {h}
    /\ results' = [p \in Pids |-> IF p \in ending THEN Cardinality(VotesOf(st, p))
                                  ELSE results[p]]
    /\ liveProcess' = [p \in Pids |-> IF p \in ending THEN NONE ELSE liveProcess[p]]
    /\ UNCHANGED <<poolVars, entity, entityCount, processEnding>>

\* A restart: the in-memory pools and goroutines are lost, NewScrutinizer
\* rebuilds entityCount from the keys under the E prefix.
\* Mutant of Restart: entityCount is not rebuilt from the E prefix.
RestartWithoutRecount ==
    /\ votePool' = <<>> /\ processPool' = <<>> /\ resultsPool' = <<>>
    /\ finishing' = {}
    /\ entityCount' = 0
    /\ UNCHANGED <<liveProcess, entity, processEnding, results>>

Restart ==
    /\ votePool' = <<>> /\ processPool' = <<>> /\ resultsPool' = <<>>
    /\ finishing' = {}
    /\ entityCount' = Len(List(MaxListSize, NoFrom, EntityKeySeq))
    /\ UNCHANGED <<liveProcess, entity, processEnding, results>>
=============================================================================
