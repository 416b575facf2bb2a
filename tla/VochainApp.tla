----------------------------- MODULE VochainApp -----------------------------
(***************************************************************************)
(* The ABCI Application of the vochain (src/unnamed/part_000, package     *)
(* vochain, BaseApplication) driving the vochain State and its event      *)
(* listener, the Scrutinizer.                                             *)
(*                                                                         *)
(* The consensus engine calls InitChain once, then for every height       *)
(* BeginBlock, DeliverTx for each transaction of the block, and Commit.   *)
(* The State keeps a committed snapshot and a working one; DeliverTx      *)
(* validates and applies against the working one and calls the listener  *)
(* synchronously; Commit runs State.Save, which persists the working      *)
(* snapshot and then calls the listeners' Commit(height).                 *)
(*                                                                         *)
(* The node may crash and restart: the working snapshot, the Scrutinizer's*)
(* pools and its goroutines are lost; on restart the engine calls Info    *)
(* and then replays the block it had decided but the Application had not  *)
(* committed.  The engine may also call Info while a block is delivered   *)
(* (the abci_info RPC), when InfoDuringBlock is TRUE.                     *)
(***************************************************************************)
EXTENDS VochainTx, Sequences, SequencesExt

CONSTANTS
    MaxHeight,         \* last height the engine produces
    MaxTxPerBlock,     \* transactions per block
    MaxCrashes,        \* crashes of the node in a behaviour
    CrashDuringSave,   \* whether a crash may fall inside State.Save
    InfoDuringBlock    \* whether Info may be called between two DeliverTx

ASSUME MaxHeight \in Nat \ {0} /\ MaxTxPerBlock \in Nat /\ MaxCrashes \in Nat
ASSUME CrashDuringSave \in BOOLEAN /\ InfoDuringBlock \in BOOLEAN

VARIABLES
    phase,       \* "genesis", "idle", "inBlock", "saving", "notifying", "down"
    committed,   \* last committed snapshot of the State store
    working,     \* working snapshot of the State store
    tmHeight,    \* last height the engine has seen committed by the Application
    pending,     \* ghost: the transactions of the block being delivered, as decided
    nDelivered,  \* how many of them this run of the block has delivered
    ideal,       \* ghost: the State every decided transaction applied once, in order
    crashes      \* crashes so far

VARIABLES votePool, processPool, resultsPool, liveProcess, entity,
          entityCount, processEnding, results, finishing

Scr == INSTANCE Scrutinizer

scrVars == <<votePool, processPool, resultsPool, liveProcess, entity,
             entityCount, processEnding, results, finishing>>

appVars == <<phase, committed, working, tmHeight, pending, nDelivered, ideal, crashes>>
vars == <<appVars, scrVars>>

Phases == {"genesis", "idle", "inBlock", "saving", "notifying", "down"}

TypeOK ==
    /\ phase \in Phases
    /\ committed \in VState /\ working \in VState /\ ideal \in VState
    /\ tmHeight \in 0..MaxHeight
    /\ pending \in Seq(Tx) /\ Len(pending) <= MaxTxPerBlock
    /\ nDelivered \in 0..MaxTxPerBlock
    /\ crashes \in 0..MaxCrashes
    /\ Scr!TypeOK

Init ==
    /\ phase = "genesis"
    /\ committed = EmptyState /\ working = EmptyState /\ ideal = EmptyState
    /\ tmHeight = 0 /\ pending = <<>> /\ nDelivered = 0 /\ crashes = 0
    /\ Scr!Init

-----------------------------------------------------------------------------
\* The listener callbacks DeliverTx fires after a successful AddTx; st is
\* the working snapshot with the transaction applied.
Emit(tx, st) ==
    CASE tx.type = "newProcess"        -> Scr!OnProcess(tx.pid, tx.eid)
      [] tx.type = "vote"              -> Scr!OnVote(st, tx.pid)
      [] tx.type = "revealProcessKeys" -> Scr!OnRevealKeys(st, tx.pid)
      [] OTHER                         -> Scr!OnNothing

\* State.Rollback: the working snapshot goes back to the committed one and
\* the listeners roll back.
StateRollback ==
    /\ working' = committed
    /\ Scr!Rollback

\* InitChain: the genesis oracles and validators go to the app tree (not
\* modelled), the header of height 0 is added, and State.Save persists it.
InitChain ==
    /\ phase = "genesis"
    /\ committed' = [working EXCEPT !.height = 0]
    /\ working' = [working EXCEPT !.height = 0]
    /\ phase' = "saving"
    /\ UNCHANGED <<tmHeight, pending, nDelivered, ideal, crashes, scrVars>>

\* BeginBlock(h): roll back to the last persistent data, add the header of
\* h to the app tree (the vote cache purge is not modelled).
BeginBlock ==
    LET h == tmHeight + 1 IN
    /\ phase = "idle"
    /\ tmHeight < MaxHeight
    /\ working' = [committed EXCEPT !.height = h]   \* State.Rollback, then the header
    /\ Scr!Rollback
    /\ ideal' = [ideal EXCEPT !.height = h]
    /\ nDelivered' = 0
    /\ phase' = "inBlock"
    /\ UNCHANGED <<committed, tmHeight, pending, crashes>>

\* The next transaction of the block: on a replay the one decided before,
\* otherwise a new one, which the ghost applies to the ideal State.
NextTx(tx) ==
    /\ nDelivered' = nDelivered + 1
    /\ \/ /\ nDelivered < Len(pending)
          /\ tx = pending[nDelivered + 1]
          /\ UNCHANGED <<pending, ideal>>
       \/ /\ nDelivered = Len(pending)
          /\ Len(pending) < MaxTxPerBlock
          /\ pending' = Append(pending, tx)
          /\ ideal' = Deliver(tx, ideal)

\* DeliverTx: AddTx(tx, State, true) against the working snapshot; on
\* success the listeners are called, otherwise Code 1 and nothing changes.
DeliverTx(tx) ==
    /\ phase = "inBlock"
    /\ NextTx(tx)
    /\ \/ /\ ValidTx(tx, working)
          /\ working' = ApplyTx(tx, working)
          /\ Emit(tx, working')
       \/ /\ ~ValidTx(tx, working)
          /\ UNCHANGED <<working, scrVars>>
    /\ UNCHANGED <<phase, committed, tmHeight, crashes>>

\* Commit: State.Save, first half: the store commits the working snapshot.
Commit ==
    /\ phase = "inBlock"
    /\ nDelivered = Len(pending)
    /\ committed' = working
    /\ tmHeight' = tmHeight + 1
    /\ pending' = <<>>
    /\ phase' = "saving"
    /\ UNCHANGED <<working, nDelivered, ideal, crashes, scrVars>>

\* State.Save, second half: each listener's Commit(height) with the height
\* of the working header; the Scrutinizer's Commit first starts its goroutine
SaveNotifySpawn ==
    /\ phase = "saving"
    /\ Scr!CommitSpawn(working.height)
    /\ phase' = "notifying"
    /\ UNCHANGED <<committed, working, tmHeight, pending, nDelivered, ideal, crashes>>

\* ... and then flushes its pools, reading the State for isLiveResultsProcess.
SaveNotifyFlush ==
    /\ phase = "notifying"
    /\ Scr!CommitFlush(working.height, working)
    /\ phase' = "idle"
    /\ UNCHANGED <<committed, working, tmHeight, pending, nDelivered, ideal, crashes>>

\* A checkFinishedProcesses goroutine runs, reading the committed State.
RunFinishedCheck ==
    /\ phase # "down"
    /\ \E h \in finishing : Scr!CheckFinishedProcesses(h, committed)
    /\ UNCHANGED appVars

\* The abci_info RPC while a block is delivered: Info reads the working
\* header and calls State.Rollback.
InfoInBlock ==
    /\ InfoDuringBlock
    /\ phase = "inBlock"
    /\ StateRollback
    /\ UNCHANGED <<phase, committed, tmHeight, pending, nDelivered, ideal, crashes>>

\* The node process dies: memory is lost, the stores keep what they had.
Crash ==
    /\ phase \in {"idle", "inBlock"} \cup (IF CrashDuringSave THEN {"saving", "notifying"} ELSE {})
    /\ crashes < MaxCrashes
    /\ phase' = "down"
    /\ crashes' = crashes + 1
    /\ working' = committed
    /\ UNCHANGED <<committed, tmHeight, pending, nDelivered, ideal, scrVars>>

\* Restart: NewScrutinizer over its store, then the engine's handshake
\* calls Info, which rolls the State back; the engine will replay the
\* decided block the Application did not commit.
Restart ==
    /\ phase = "down"
    /\ Scr!Restart
    /\ working' = committed
    /\ phase' = "idle"
    /\ UNCHANGED <<committed, tmHeight, pending, nDelivered, ideal, crashes>>

Next ==
    \/ InitChain
    \/ BeginBlock
    \/ \E tx \in Tx : DeliverTx(tx)
    \/ Commit
    \/ SaveNotifySpawn
    \/ SaveNotifyFlush
    \/ RunFinishedCheck
    \/ InfoInBlock
    \/ Crash
    \/ Restart

\* The engine keeps producing and replaying blocks, the State.Save steps
\* finish, the node comes back, and the Go runtime runs every goroutine.
Fairness ==
    /\ WF_vars(BeginBlock)
    /\ WF_vars(Commit)
    /\ WF_vars(SaveNotifySpawn)
    /\ WF_vars(SaveNotifyFlush)
    /\ WF_vars(Restart)
    /\ WF_vars(RunFinishedCheck)
    /\ WF_vars(nDelivered < Len(pending) /\ DeliverTx(pending[nDelivered + 1]))

Spec == Init /\ [][Next]_vars
FairSpec == Spec /\ Fairness

-----------------------------------------------------------------------------
(***************************************************************************)
(* Properties.                                                             *)
(***************************************************************************)

\* Outside State.Save (where the store is ahead of the listener by design),
\* the Scrutinizer's live tally of every live-results process in the
\* committed State counts exactly the committed envelopes of that process:
\* OnVote's pool, Rollback's reset at BeginBlock and Commit's flush must
\* agree across crashes, restarts and block replays (spec 3, 8.3).
LiveResultsMatchEnvelopes ==
    phase \notin {"saving", "notifying"} =>
        \A p \in Pids : Scr!IsLiveResultsProcess(committed, p) =>
            liveProcess[p] = Cardinality(VotesOf(committed, p))

\* Outside State.Save, the E prefix of the Scrutinizer holds exactly the
\* committed processes of each entity, and entityCount (counted on first
\* sight in Commit, rebuilt with List on restart) is the number of
\* entities with a process (spec 3, "entityCount").
EntityIndexMatchesState ==
    phase \notin {"saving", "notifying", "down"} =>
        /\ \A e \in Entities :
              entity[e] = {p \in Pids : committed.procs[p] # NONE /\ committed.procs[p].eid = e}
        /\ entityCount = Cardinality(Scr!EntityKeys)

\* A process is scheduled for its final results at one height only: the
\* resultsPool of a block is flushed by Commit and emptied by the next
\* BeginBlock's Rollback, so a reveal is never registered twice across
\* blocks, replays or restarts (spec 5, "guaranteed by scheduling it only
\* once").
ProcessScheduledOnce ==
    \A x, y \in processEnding : x[2] = y[2] => x[1] = y[1]

\* The committed State of an idle node is the State every decided
\* transaction produces when applied once, in order: BeginBlock's rollback,
\* the replay after a restart and Info's rollback must never drop or
\* repeat a delivered transaction (spec 5, "exactly one writer ... touches
\* the State Store working set").
CommittedMatchesDecidedBlocks ==
    (phase = "idle" /\ pending = <<>>) => committed = ideal

\* Every key-requiring process whose keys have all been revealed in the
\* committed State early enough for its scheduled height to be produced
\* eventually gets its final result under R.
AllRevealed(st, p) ==
    st.procs[p] # NONE /\ RequireKeys(st.procs[p].ptype) /\ st.procs[p].keyIndex = 0
RevealedProcessGetsResults ==
    \A p \in Pids :
        (AllRevealed(committed, p) /\ committed.height + MaxTxPerBlock <= MaxHeight
         /\ phase = "idle")
        ~> results[p] # NONE

\* A client paging through the keys under a prefix with List, each page
\* starting from the last key of the page before, for at most n pages.
RECURSIVE ListPages(_, _, _, _)
ListPages(max, from, ks, n) ==
    LET page == Scr!List(max, from, ks) IN
    IF page = <<>> \/ n = 0 THEN <<>>
    ELSE page \o ListPages(max, Last(page), ks, n - 1)

\* List's seek to prefix+from, its skip of the key equal to from and its
\* decrement of max agree at page boundaries: paging through the keys under
\* the E prefix visits each of them exactly once and in store order, and a
\* page never holds more than a positive max keys (scrutinizer.go List).
ListPagesEnumerateKeys ==
    LET ks == Scr!EntityKeySeq IN
    \A max \in -1..Cardinality(Entities) + 1 :
        /\ ListPages(max, Scr!NoFrom, ks, Len(ks) + 1) = ks
        /\ \A from \in {Scr!NoFrom} \cup Scr!EntityKeys :
              max >= 1 => Len(Scr!List(max, from, ks)) <= max
=============================================================================
