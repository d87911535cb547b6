-------------------------- MODULE DependencyCheck --------------------------
(***************************************************************************)
(* One dependency check (Scope::dependency_check and the report it makes,  *)
(* src/src/dependency_watch.rs): what the dependency runs now is read, the *)
(* subject's history is walked newest first for transactions that reach    *)
(* it, and each is replayed with the old binary and with the new one.  The *)
(* chain moves on between the calls: the dependency may be upgraded again  *)
(* while the check reads it.  A binary is named by the number of its       *)
(* deploy.                                                                 *)
(***************************************************************************)
EXTENDS Integers, Sequences, FiniteSets

CONSTANTS
    Histories,     \* the subject's transactions, newest first: slot, calls, reaches
    Limits,        \* how many transactions a check may be asked for
    DeploySlot,    \* the slot of every deploy of the dependency, in order
    PageSize,      \* signatures to a page
    MaxLooked      \* CORPUS_MAX_LOOKED

ASSUME CheckAssumption ==
    /\ DeploySlot # <<>> /\ DeploySlot \in Seq(Nat)
    /\ \A i, j \in DOMAIN DeploySlot : i < j => DeploySlot[i] < DeploySlot[j]
    \* Every transaction of a history is there once.
    /\ \A h \in Histories :
          /\ h \in Seq({h[i] : i \in DOMAIN h}) /\ \A i \in DOMAIN h : h[i].slot \in Nat
          /\ \A i, j \in DOMAIN h : i < j => h[i] # h[j] /\ h[i].slot >= h[j].slot
    /\ Limits \subseteq Nat \ {0}
    /\ PageSize \in Nat \ {0} /\ MaxLooked \in Nat \ {0}

VARIABLES
    ask,       \* what was asked: history, limit, baseline
    chain,     \* the dependency: how often deployed, whether upgradeable
    step,      \* where the check is
    read,      \* what it read: the deploy, the binaries, the subject's kind
    looked,    \* how many signatures it walked past
    recent,    \* the transactions it found
    missed,    \* ghost: one that would qualify was never fetched
    corpus,    \* those it replays, and the note on them
    tallied    \* the transactions replayed so far, and their counts
checkVars == <<ask, chain, step, read, looked, recent, missed, corpus, tallied>>

Unread == [deploy |-> 0, elf |-> 0, old |-> 0, program |-> FALSE]
NoCounts == [total |-> 0, unchanged |-> 0, failing |-> 0, passing |-> 0, error |-> 0,
             errored |-> 0, matches |-> 0]

CheckInit ==
    /\ ask \in [history : Histories, limit : Limits,
                baseline : {"previous", "before_deploy", "at_slot", "current"}]
    /\ chain \in [deploys : DOMAIN DeploySlot, upgradeable : BOOLEAN]
    /\ step = "deploy" /\ read = Unread /\ looked = 0 /\ recent = <<>> /\ missed = FALSE
    /\ corpus = [txs |-> <<>>, note |-> "none"] /\ tallied = [txs |-> <<>>, counts |-> NoCounts]

\* The dependency is upgraded while the check runs.
Upgrade ==
    /\ chain.upgradeable /\ chain.deploys < Len(DeploySlot)
    /\ step \in {"deploy", "elf", "kind", "old", "walk"}
    /\ chain' = [chain EXCEPT !.deploys = @ + 1]
    /\ UNCHANGED <<ask, step, read, looked, recent, missed, corpus, tallied>>

(***************************************************************************)
(* What the check reads first.                                             *)
(***************************************************************************)
Reading(at, to) ==
    /\ step = at /\ step' = to
    /\ UNCHANGED <<ask, chain, looked, recent, missed, corpus, tallied>>

\* deploy_info: nothing for a program that cannot be upgraded.
ReadDeploy ==
    /\ Reading("deploy", "elf")
    /\ read' = [read EXCEPT !.deploy = IF chain.upgradeable THEN chain.deploys ELSE 0]

\* program_elf
ReadBinary ==
    /\ Reading("elf", "kind")
    /\ read' = [read EXCEPT !.elf = chain.deploys]

\* is_executable, of the subject.
ReadKind ==
    /\ Reading("kind", "old")
    /\ \E program \in BOOLEAN : read' = [read EXCEPT !.program = program]

\* The binary "before" runs.  A watcher that saw the deploy hands in the one it
\* held; the stream gives an earlier one, or none.
ReadOld ==
    /\ step = "old"
    /\ \/ /\ ask.baseline = "previous" /\ step' = "walk"
          /\ \E old \in 1..read.elf : read' = [read EXCEPT !.old = old]
       \/ /\ ask.baseline = "before_deploy" /\ read.deploy > 1 /\ step' = "walk"
          /\ \E old \in 1..read.deploy - 1 : read' = [read EXCEPT !.old = old]
       \/ ask.baseline = "before_deploy" /\ step' = "refused" /\ UNCHANGED read
       \/ ask.baseline \in {"at_slot", "current"} /\ step' = "walk" /\ UNCHANGED read
    /\ UNCHANGED <<ask, chain, looked, recent, missed, corpus, tallied>>

(***************************************************************************)
(* The walk.                                                               *)
(***************************************************************************)
\* invokes_program, of the subject where it is one and of the dependency.
Qualifies(tx) == (read.program => tx.calls) /\ tx.reaches

FirstOf(txs, n) == [i \in 1..(IF Len(txs) < n THEN Len(txs) ELSE n) |-> txs[i]]

\* The transactions of a list at some places, in the order of the list.
Ascending(S) ==
    CHOOSE q \in [1..Cardinality(S) -> S] : \A i, j \in 1..Cardinality(S) : i < j => q[i] < q[j]
Picked(txs, places) ==
    LET at == Ascending(places)
    IN  [i \in DOMAIN at |-> txs[at[i]]]

Page ==
    LET left == Len(ask.history) - looked
    IN  [i \in 1..(IF left < PageSize THEN left ELSE PageSize) |-> ask.history[looked + i]]

\* The transactions of a page that were fetched and qualify, until twice what
\* is wanted was found.
Found(page, fetched) ==
    FirstOf(Picked(page, {i \in fetched : Qualifies(page[i])}), 2 * ask.limit - Len(recent))

Wanting == Len(recent) < ask.limit /\ looked < MaxLooked

\* One page: its transactions are fetched in a batch, and what the batch does
\* not answer is left out; where it answers nothing each is tried by itself.
WalkPage ==
    /\ step = "walk" /\ Wanting /\ Page # <<>>
    /\ \E fetched \in SUBSET DOMAIN Page :
         /\ recent' = recent \o Found(Page, fetched)
         /\ missed' = (missed \/ \E i \in DOMAIN Page \ fetched : Qualifies(Page[i]))
    /\ looked' = looked + Len(Page)
    /\ UNCHANGED <<ask, chain, step, read, corpus, tallied>>

\* The first page may fail the check; a later one ends the walk.
PageFails ==
    /\ step = "walk" /\ Wanting
    /\ step' = IF looked = 0 THEN "refused" ELSE "choose"
    /\ UNCHANGED <<ask, chain, read, looked, recent, missed, corpus, tallied>>

WalkEnds ==
    /\ step = "walk" /\ (~Wanting \/ Page = <<>>)
    /\ step' = "choose"
    /\ UNCHANGED <<ask, chain, read, looked, recent, missed, corpus, tallied>>

\* mutant: the deploy's own slot counts as before it
LandedBeforeOrAt(tx) == read.deploy = 0 \/ tx.slot <= DeploySlot[read.deploy]

LandedBefore(tx) == read.deploy = 0 \/ tx.slot < DeploySlot[read.deploy]

OldestFirst(txs) == [i \in DOMAIN txs |-> txs[Len(txs) + 1 - i]]

\* The corpus: what landed before the deploy that was read, or else the newest,
\* with a note; oldest first.
Choose ==
    /\ step = "choose" /\ step' = "chosen"
    /\ LET before == {i \in DOMAIN recent : LandedBefore(recent[i])}
           eligible == FirstOf(Picked(recent, before), ask.limit)
       IN  corpus' = IF recent = <<>> THEN [txs |-> <<>>, note |-> "none call it"]
                     ELSE IF eligible = <<>>
                     THEN [txs |-> OldestFirst(FirstOf(recent, ask.limit)), note |-> "none before"]
                     ELSE [txs |-> OldestFirst(eligible), note |-> "none"]
    /\ UNCHANGED <<ask, chain, read, looked, recent, missed, tallied>>

\* The walk's findings are not needed any more.
Begin ==
    /\ step = "chosen" /\ step' = "replay"
    /\ recent' = <<>> /\ looked' = 0 /\ missed' = FALSE /\ ask' = [ask EXCEPT !.history = <<>>]
    /\ UNCHANGED <<chain, read, corpus, tallied>>

(***************************************************************************)
(* The replays and the report.                                             *)
(***************************************************************************)
Outcomes == {"ok", "err1", "err2"}

\* mutant: a different error is no change
CountedByOutcome(counts, before, after, onchain) ==
    [counts EXCEPT
        !.total = @ + 1,
        !.matches = @ + IF (before = "ok") = onchain THEN 1 ELSE 0,
        !.failing = @ + IF before = "ok" /\ after # "ok" THEN 1 ELSE 0,
        !.passing = @ + IF before # "ok" /\ after = "ok" THEN 1 ELSE 0,
        !.unchanged = @ + IF (before = "ok") = (after = "ok") THEN 1 ELSE 0]

\* One transaction's line in the summary.
Counted(counts, before, after, onchain) ==
    [counts EXCEPT
        !.total = @ + 1,
        !.matches = @ + IF (before = "ok") = onchain THEN 1 ELSE 0,
        !.failing = @ + IF before = "ok" /\ after # "ok" THEN 1 ELSE 0,
        !.passing = @ + IF before # "ok" /\ after = "ok" THEN 1 ELSE 0,
        !.error = @ + IF before # "ok" /\ after # "ok" /\ before # after THEN 1 ELSE 0,
        !.unchanged = @ + IF before = after THEN 1 ELSE 0]

\* What the report says of one transaction, and of one that could not be replayed.
Checked(tx, before, after) ==
    [slot |-> tx.slot, before |-> before, after |-> after,
     changed |-> before # after, errored |-> before = "none"]

\* One transaction: with an old binary both runs swap theirs in, on the same
\* state; without, the loaded one runs first.
Replay ==
    /\ step = "replay" /\ Len(tallied.txs) < Len(corpus.txs)
    /\ LET tx == corpus.txs[Len(tallied.txs) + 1]
       IN  \/ \E run \in [{"old", "new"} -> Outcomes], onchain \in BOOLEAN :
                tallied' = [txs |-> Append(tallied.txs, Checked(tx, run["old"], run["new"])),
                            counts |-> Counted(tallied.counts, run["old"], run["new"], onchain)]
           \/ tallied' = [txs |-> Append(tallied.txs, Checked(tx, "none", "none")),
                          counts |-> [tallied.counts EXCEPT !.total = @ + 1, !.errored = @ + 1]]
    /\ UNCHANGED <<ask, chain, step, read, looked, recent, missed, corpus>>

\* The report and its verdict.
BaselineKind == IF read.old # 0 THEN "previous" ELSE ask.baseline
ReportVerdict(counts) ==
    CASE counts.total = 0 -> "nothing to check"
      [] counts.total > 0 /\ BaselineKind = "current" -> "still execute"
      [] counts.total > 0 /\ BaselineKind # "current" /\ counts.failing = 0 /\ counts.error = 0 ->
           "nothing newly fails"
      [] OTHER -> "fails"
Drifted(counts) ==
    LET checked == counts.total - counts.errored
    IN  checked > 0 /\ 2 * (checked - counts.matches) >= checked

Report ==
    /\ step = "replay" /\ Len(tallied.txs) = Len(corpus.txs)
    /\ step' = "reported"
    /\ UNCHANGED <<ask, chain, read, looked, recent, missed, corpus, tallied>>

CheckNext ==
    \/ Upgrade \/ ReadDeploy \/ ReadBinary \/ ReadKind \/ ReadOld
    \/ WalkPage \/ PageFails \/ WalkEnds \/ Choose \/ Begin \/ Replay \/ Report

CheckSpec == CheckInit /\ [][CheckNext]_checkVars

(***************************************************************************)
(* Properties.                                                             *)
(***************************************************************************)
ToTxs(txs) == {txs[i] : i \in DOMAIN txs}

\* What is replayed was found to reach the dependency, oldest first; unless
\* the note says otherwise it landed before every deploy whose binary is run as
\* the new one, even where another one was made while the check was reading.
CorpusIsOld ==
    step \in {"chosen", "replay", "reported"} =>
        /\ Len(corpus.txs) <= ask.limit
        /\ \A i, j \in DOMAIN corpus.txs : i < j => corpus.txs[i].slot <= corpus.txs[j].slot
        /\ \A i \in DOMAIN corpus.txs :
             /\ Qualifies(corpus.txs[i])
             /\ read.deploy > 0 /\ corpus.note = "none" =>
                  corpus.txs[i].slot < DeploySlot[read.elf]

\* Where every transaction was fetched, the ones replayed are the newest of the
\* subject's that reach the dependency and, of those found, landed before the
\* deploy: none between two of them was passed over.
NonePassedOver ==
    step = "chosen" /\ ~missed =>
        \A i, j \in DOMAIN ask.history :
            i < j /\ ask.history[j] \in ToTxs(corpus.txs) /\ Qualifies(ask.history[i])
              /\ (LandedBefore(ask.history[i]) \/ corpus.note = "none before")
              => ask.history[i] \in ToTxs(corpus.txs)

\* The summary is the transactions': every one is counted in one place, and the
\* verdict says that nothing newly fails only where no replay that the old
\* binary passes fails under the new one and no failure became another.
VerdictTrue ==
    step = "reported" =>
        LET c == tallied.counts
        IN  /\ c.total = Len(corpus.txs)
            /\ c.total = c.unchanged + c.failing + c.passing + c.error + c.errored
            /\ c.failing + c.passing + c.error = Cardinality({i \in DOMAIN tallied.txs : tallied.txs[i].changed})
            /\ c.matches <= c.total - c.errored
            /\ ReportVerdict(c) = "nothing newly fails" =>
                 \A i \in DOMAIN tallied.txs :
                    LET tx == tallied.txs[i]
                    IN  tx.changed => tx.after = "ok"
            /\ [i \in DOMAIN tallied.txs |-> tallied.txs[i].slot]
                 = [i \in DOMAIN corpus.txs |-> corpus.txs[i].slot]

\* What a check reports (dependency_check, dependency_watch.rs:563): see the
\* three parts.
CheckTrue == CorpusIsOld /\ NonePassedOver /\ VerdictTrue
=============================================================================
