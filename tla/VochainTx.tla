----------------------------- MODULE VochainTx -----------------------------
(***************************************************************************)
(* The vochain State as the Application sees it, and the transactions the *)
(* Application delivers to it.  The validator and the store (AddTx,       *)
(* State.Process, State.AddProcess, ...) are not under src/: the rules    *)
(* below follow spec.md section 4.2.  Signatures, census proofs, oracle  *)
(* authorisation and the content of keys and vote packages are abstracted *)
(* away: a transaction here is one that decoded and whose signer is      *)
(* authorised, and it is accepted or rejected by the state checks only.   *)
(*                                                                         *)
(* KeyIndex follows section 4.2 and scenario S3: a key-requiring process  *)
(* starts with KeyIndex = NumKeys, addProcessKeys publishes one public    *)
(* key, revealProcessKeys needs its key to have been added and decrements *)
(* KeyIndex, and votes need KeyIndex = 0.                                  *)
(***************************************************************************)
EXTENDS Naturals, FiniteSets

CONSTANTS
    Pids,          \* process identifiers (model values)
    Entities,      \* entity identifiers (model values)
    Voters,        \* voter addresses; the nullifier is a function of (voter, process)
    ProcessTypes,  \* a subset of the four process types
    NumKeys,       \* number of key-holders of a key-requiring process
    Duration,      \* NumberOfBlocks of every process
    NONE

ASSUME ProcessTypes \subseteq {"poll-vote", "petition-sign", "encrypted-poll", "snark-vote"}
ASSUME NumKeys \in Nat \ {0} /\ Duration \in Nat \ {0}

\* types.ProcessRequireKeys / types.ProcessIsEncrypted
RequireKeys(t) == t \in {"encrypted-poll", "snark-vote"}
IsEncrypted(t) == t \in {"encrypted-poll", "snark-vote"}

Process == [eid: Entities, ptype: ProcessTypes, start: Nat, canceled: BOOLEAN,
            keyIndex: 0..NumKeys, added: 0..NumKeys]

\* A snapshot of the store: the header height in the app tree, the process
\* tree and the vote tree (envelope keys processId_nullifier).
VState == [height: Nat, procs: [Pids -> Process \cup {NONE}],
           votes: SUBSET (Pids \X Voters)]

EmptyState == [height |-> 0, procs |-> [p \in Pids |-> NONE], votes |-> {}]

\* The transactions, with the start block given relative to the height of
\* the block they are delivered in.
StartOffsets == {0, 1}
Tx == [type: {"newProcess"}, pid: Pids, eid: Entities, ptype: ProcessTypes,
       offset: StartOffsets]
      \cup [type: {"vote"}, pid: Pids, voter: Voters]
      \cup [type: {"cancelProcess", "addProcessKeys", "revealProcessKeys"}, pid: Pids]

VotesOf(st, p) == {v \in Voters : <<p, v>> \in st.votes}

\* The vote window [StartBlock, StartBlock + NumberOfBlocks).
Active(pr, h) == pr.start <= h /\ h < pr.start + Duration

\* Mutant of ValidTx: addProcessKeys accepted past the number of key-holders.
ValidTxWithoutKeyBound(tx, st) ==
    LET pr == st.procs[tx.pid] IN
    \/ /\ tx.type = "newProcess"
       /\ pr = NONE
       /\ st.height + tx.offset > st.height
    \/ /\ tx.type = "vote"
       /\ pr # NONE
       /\ ~pr.canceled
       /\ Active(pr, st.height)
       /\ RequireKeys(pr.ptype) => pr.keyIndex = 0
       /\ <<tx.pid, tx.voter>> \notin st.votes
    \/ /\ tx.type = "cancelProcess"
       /\ pr # NONE
       /\ ~pr.canceled
    \/ /\ tx.type = "addProcessKeys"
       /\ pr # NONE
       /\ RequireKeys(pr.ptype)
    \/ /\ tx.type = "revealProcessKeys"
       /\ pr # NONE
       /\ pr.keyIndex > 0
       /\ pr.added >= NumKeys - pr.keyIndex + 1

\* Validation of tx against snapshot st (AddTx with commit=false/true).
ValidTx(tx, st) ==
    LET pr == st.procs[tx.pid] IN
    \/ /\ tx.type = "newProcess"
       /\ pr = NONE
       /\ st.height + tx.offset > st.height          \* startBlock > current height
    \/ /\ tx.type = "vote"
       /\ pr # NONE
       /\ ~pr.canceled
       /\ Active(pr, st.height)
       /\ RequireKeys(pr.ptype) => pr.keyIndex = 0
       /\ <<tx.pid, tx.voter>> \notin st.votes      \* one envelope per nullifier
    \/ /\ tx.type = "cancelProcess"
       /\ pr # NONE
       /\ ~pr.canceled
    \/ /\ tx.type = "addProcessKeys"
       /\ pr # NONE
       /\ RequireKeys(pr.ptype)
       /\ pr.added < NumKeys
    \/ /\ tx.type = "revealProcessKeys"
       /\ pr # NONE
       /\ pr.keyIndex > 0
       /\ pr.added >= NumKeys - pr.keyIndex + 1      \* its key was committed before

NewProcess(tx, h) ==
    [eid |-> tx.eid, ptype |-> tx.ptype, start |-> h + tx.offset, canceled |-> FALSE,
     keyIndex |-> IF RequireKeys(tx.ptype) THEN NumKeys ELSE 0, added |-> 0]

\* The state mutation of a validated transaction (AddTx with commit=true).
ApplyTx(tx, st) ==
    LET p == tx.pid
        pr == st.procs[p]
    IN CASE tx.type = "newProcess" ->
              [st EXCEPT !.procs[p] = NewProcess(tx, st.height)]
         [] tx.type = "vote" ->
              [st EXCEPT !.votes = @ \cup {<<p, tx.voter>>}]
         [] tx.type = "cancelProcess" ->
              [st EXCEPT !.procs[p].canceled = TRUE]
         [] tx.type = "addProcessKeys" ->
              [st EXCEPT !.procs[p].added = pr.added + 1]
         [] tx.type = "revealProcessKeys" ->
              [st EXCEPT !.procs[p].keyIndex = pr.keyIndex - 1]

\* DeliverTx's effect on a snapshot: applied when valid, unchanged when the
\* transaction is answered with a non-zero code.
Deliver(tx, st) == IF ValidTx(tx, st) THEN ApplyTx(tx, st) ELSE st
=============================================================================
