---------------------------- MODULE Reconstruct ----------------------------
(* The free historical tier: replay_at and reconstruct_drift of scope.rs.  *)
(* For each account a transaction names, one source after another is asked *)
(* for what it held just before the transaction (or at another slot), and  *)
(* a label says what the answer rests on.  What no label admits is taken   *)
(* for exact by everything after.                                          *)
(*                                                                         *)
(* The chain is fixed: N transactions in order.  An account is what last   *)
(* changed its bytes and what last changed its balance, by position; 0     *)
(* stands for nothing.  Balances and bytes that come from elsewhere than   *)
(* the chain at the asked moment differ from it only by position.          *)
EXTENDS Naturals, Sequences, FiniteSets

CONSTANTS
    Keys,        \* account_keys of the transaction, in order
    SlotOf,      \* the slot of each transaction of the chain
    Worlds,      \* [kind, effect, target, asked, budget, records, covers, start]
    NotLoaded,   \* an address the context holds nothing at
    Nothing      \* no answer

Account == {Keys[i] : i \in DOMAIN Keys}
Tx == DOMAIN SlotOf
Last == Len(SlotOf)
Garbage == Last + 1     \* bytes or a balance that nothing on chain made
Gone == [data |-> 0, bal |-> 0]

\* An account, and replay_block_prefix while it runs.
States == [data : Nat, bal : Nat]
Runs == [svm : [Account -> States], exact : BOOLEAN, foreign : BOOLEAN, todo : SUBSET Tx,
         skipped : SUBSET Tx, amiss : SUBSET Account, inexact : SUBSET Account]

ASSUME ReconstructAssumption ==
    /\ Keys \in Seq({Keys[i] : i \in DOMAIN Keys}) /\ Keys # <<>>
    /\ \A i, j \in DOMAIN Keys : Keys[i] = Keys[j] => i = j
    /\ SlotOf \in Seq(Nat)
    /\ \A i, j \in DOMAIN SlotOf : i <= j => SlotOf[i] <= SlotOf[j]
    /\ \A w \in Worlds : w.budget \in Nat /\ w.target \in DOMAIN SlotOf /\ w.asked \in Nat
    /\ NotLoaded \notin States /\ Nothing \notin Runs

\* A chain is what the runtime admits: tokens pay by their bytes, wallets have
\* none, programs are only deployed, what is paid is there, and the
\* transaction at hand names every account.  A recorded version is of the
\* asked moment or older, and held there if nothing was written since.
ASSUME WorldsAssumption ==
    \A w \in Worlds : \A a \in Account :
        LET did == w.effect[a]
            v == w.start[a]
            floor == IF w.asked = SlotOf[w.target] THEN w.asked - 1 ELSE w.asked
        IN  /\ \/ /\ w.kind[a] \in {"data", "curve"}
                  /\ \A i \in Tx : did[i] \in {"none", "read", "write", "pay", "close"}
               \/ w.kind[a] = "token" /\ \A i \in Tx : did[i] \in {"none", "read", "write", "close"}
               \/ w.kind[a] = "signer" /\ \A i \in Tx : did[i] \in {"none", "read", "pay"}
               \/ /\ w.kind[a] = "program" /\ \A i \in Tx : did[i] \in {"none", "read", "write"}
                  /\ \E i \in Tx : did[i] = "write"
            /\ did[w.target] # "none"
            /\ w.kind[a] # "signer" => \A i \in Tx : did[i] = "pay" =>
                 \E j \in Tx : /\ j < i /\ did[j] \in {"write", "pay"}
                              /\ \A k \in Tx : j < k /\ k < i => did[k] # "close"
            /\ v # Nothing =>
                 /\ v.slot \in Nat /\ v.slot <= floor
                 /\ v.held => \A i \in Tx : v.slot < SlotOf[i] /\ SlotOf[i] <= floor =>
                                 did[i] \in {"none", "read"}

VARIABLES
    world,      \* what is asked, and the chain and store it is asked of
    chain,      \* every account after each transaction
    ctx,        \* ReplayContext.loaded
    label,      \* provenance
    unproven,   \* balance_unproven
    left,       \* budget_left
    streamed,   \* answers of the account-changes stream
    phase,      \* "stream", "keys", "block", "prefix", "done"
    next,       \* the account the loop is at
    run,        \* replay_block_prefix while it runs
    gaps,       \* history: where an answer is weaker than its label says
    written,    \* history: what was recorded on the way
    spent       \* history: replays of old writes, whatever came of them
vars == <<world, chain, ctx, label, unproven, left, streamed, phase, next, run, gaps,
          written, spent>>

-----------------------------------------------------------------------------
(* The chain.                                                              *)

Kind(a) == world.kind[a]
Did(a, i) == world.effect[a][i]
Changes == {"write", "close"}
Writable == Changes \cup {"pay"}

\* An account after the first i transactions.
LastIn(P) == CHOOSE i \in P \cup {0} : \A j \in P : j <= i
StateAfter(a, i) ==
    LET since == {j \in LastIn({k \in 1..i : Did(a, k) = "close"})+1 .. i :
                    Did(a, j) \in {"write", "pay"}}
        paid == {j \in since : Did(a, j) = "pay"}
    IN  IF since = {} THEN Gone
        ELSE [data |-> LastIn(since \ paid),
              bal |-> IF paid = {} THEN CHOOSE j \in since : \A k \in since : j <= k
                      ELSE LastIn(paid)]

Landed == SlotOf[world.target]
OwnSlot == world.asked = Landed
\* mutant: the landing slot's own version answers for before the transaction
FloorInSlot == world.asked
Floor == IF OwnSlot THEN world.asked - 1 ELSE world.asked
UpTo(slot) == LastIn({i \in Tx : SlotOf[i] <= slot})
Before(slot) == LastIn({i \in Tx : SlotOf[i] < slot})
Held(a, i) == chain[a][i]
Pre(a) == Held(a, world.target - 1)
Post(a) == Held(a, world.target)

\* What the context stands for: an account without lamports is none.
Stands(st) == IF st = NotLoaded THEN Gone ELSE IF st.bal = 0 THEN Gone ELSE st

-----------------------------------------------------------------------------
(* What the transaction's own record says (PreState).                      *)

\* Balances from before the transaction, or from after it for a later slot.
Meta(a) == IF world.asked <= Landed THEN Pre(a) ELSE Post(a)
TokenListed(a) == Kind(a) = "token" /\ Meta(a) # Gone

\* build_context: today's account with the record's balance and amount, and
\* what is gone today rebuilt from the record alone.
Loaded(a) ==
    LET now == Held(a, Last)
    IN  IF Kind(a) = "program" THEN now
        ELSE IF now # Gone \/ TokenListed(a)
          THEN [data |-> IF TokenListed(a) THEN Meta(a).data ELSE now.data,
                bal |-> Meta(a).bal]
        ELSE IF Meta(a).bal > 0 THEN [data |-> 0, bal |-> Meta(a).bal]
        ELSE NotLoaded

\* Without bytes: a wallet, or nothing.
Empty(a) == IF ctx[a] = NotLoaded THEN TRUE ELSE ctx[a].data = 0
IsToken(a) == Kind(a) = "token" /\ ~Empty(a)
IsProgram(a) == Kind(a) = "program"
IsSigner(a) == Kind(a) = "signer"
Closed(a) ==
    /\ ~IsProgram(a) /\ ~IsSigner(a)
    /\ Pre(a).bal > 0 /\ Post(a).bal = 0
    /\ Empty(a)

-----------------------------------------------------------------------------
(* Lookups.  Each may fail.                                                *)

Mentions(a) == {i \in Tx : Did(a, i) # "none"}

\* The newest transaction of P, by its slot; no answer if there is none, or
\* if the call fails: the caller cannot tell which.
NewestSlot(P) ==
    {Nothing} \cup IF P = {} THEN {} ELSE {SlotOf[LastIn(P)]}

\* The stream's version at the account's last change in or before slot s.
LastChange(a, s) ==
    LastIn({i \in Tx : Did(a, i) \in Changes /\ SlotOf[i] <= s})
VersionAt(a, i) == [slot |-> SlotOf[i], data |-> Held(a, i).data]
StreamBefore(a) ==
    {Nothing} \cup IF LastChange(a, Floor) = 0 THEN {}
                   ELSE {VersionAt(a, LastChange(a, Floor))}

\* version_at_last_mention: one block per slot the account was writable in,
\* newest first.  A transaction whose record does not come back is passed
\* over like one that only read the account.
WritableSlots(a) ==
    {SlotOf[i] : i \in {j \in Tx : /\ Did(a, j) \in Writable
                                   /\ IsProgram(a) \/ j < world.target
                                   /\ SlotOf[j] < world.asked}}
ChangedIn(a, s) == {i \in Tx : SlotOf[i] = s /\ Did(a, i) \in Changes}
AtMention(a, lost) ==
    LET asked == {s \in WritableSlots(a) \ lost : ChangedIn(a, s) # {}}
    IN  IF asked = {} THEN Nothing
        ELSE VersionAt(a, LastIn(UNION {ChangedIn(a, s) : s \in asked}))
FromMentions(a) ==
    {Nothing} \cup {AtMention(a, lost) : lost \in SUBSET WritableSlots(a)}

\* metadata_label: is the record's balance still, or already, the balance
\* at another slot?  A failed lookup counts as "no earlier mention".
RewindLabels(a) ==
    IF world.asked < Landed
    THEN LET earlier == {i \in Mentions(a) : i < world.target}
         IN  {[label |-> IF m = Nothing \/ m < world.asked
                         THEN "MetadataRewind" ELSE "MetadataEstimate",
               why |-> IF m = Nothing /\ earlier # {} THEN {"lookup failed"} ELSE {}]
              : m \in NewestSlot(earlier)}
    ELSE {[label |-> IF m # Nothing /\ m <= Landed
                     THEN "MetadataRewind" ELSE "MetadataEstimate",
           why |-> IF \E i \in Mentions(a) : i > world.target /\ SlotOf[i] = Landed
                   THEN {"later in the block"} ELSE {}]
          : m \in NewestSlot(Mentions(a))}

\* wallet_balance_at: the balance after the newest mention up to the slot.
WalletBalances(a) ==
    LET upto == {i \in Mentions(a) : /\ SlotOf[i] <= world.asked
                                     /\ world.asked < Landed => i < world.target}
    IN  {Nothing} \cup IF upto = {} THEN {} ELSE {Held(a, LastIn(upto)).bal}

\* mention_tx_before and the trade its logs hold, if it was one.
LastTrade(a) ==
    LET m == LastIn({i \in Mentions(a) : SlotOf[i] < world.asked})
    IN  {Nothing} \cup IF m = 0 \/ Did(a, m) # "write" THEN {} ELSE {m}

-----------------------------------------------------------------------------
(* The request.                                                            *)

\* The moments an answer for another slot may be of: the code takes some at
\* the slot's start and some at its end.
Moments == IF OwnSlot THEN {world.target - 1}
           ELSE {Before(world.asked), UpTo(world.asked)}
Right(a, state) == \E i \in Moments : Stands(state) = Held(a, i)
HadBytes(a) == \E i \in Moments : Held(a, i).data # 0
Because(condition, why) == IF condition THEN {why} ELSE {}

\* With nothing to replay and no store, no account is looked at.
Off == world.budget = 0 /\ ~world.records

Init ==
    /\ world \in Worlds
    /\ chain = [a \in Account |-> [i \in 0..Last |-> StateAfter(a, i)]]
    /\ ctx = [a \in Account |-> Loaded(a)]
    /\ label = [a \in Account |-> "none"]
    /\ unproven = {}
    /\ left = world.budget
    /\ streamed = [a \in Account |-> Nothing]
    /\ phase = IF Off THEN "done" ELSE "stream"
    /\ next = 1
    /\ run = Nothing
    /\ gaps = [a \in Account |->
                 Because(Off /\ OwnSlot /\ Empty(a) /\ HadBytes(a), "closed since")]
    /\ written = {}
    /\ spent = 0

Recorded(a) == world.records /\ world.start[a] # Nothing

\* One call for every data account the recordings do not cover, then the
\* mention history of what it did not find.
AskStream ==
    /\ phase = "stream"
    /\ LET wanted == {a \in Account :
                        /\ ~IsSigner(a) /\ ~IsProgram(a)
                        /\ Empty(a) => Closed(a)
                        /\ ~(world.covers /\ Recorded(a))}
           answers(a) ==
             IF a \notin wanted THEN {[v |-> Nothing, why |-> {}]}
             ELSE {[v |-> v, why |-> {}] : v \in StreamBefore(a)} \cup
                  IF world.asked > Landed THEN {}
                  ELSE {[v |-> v,
                         why |-> IF v # Nothing /\ v.slot # AtMention(a, {}).slot
                                 THEN {"answer lost"} ELSE {}]
                        : v \in FromMentions(a)}
       IN  \E got \in [Account -> UNION {answers(a) : a \in Account}] :
             /\ \A a \in Account : got[a] \in answers(a)
             /\ streamed' = [a \in Account |-> got[a].v]
             /\ gaps' = [a \in Account |-> got[a].why]
    /\ phase' = "keys"
    /\ UNCHANGED <<world, chain, ctx, label, unproven, left, next, run, written, spent>>

\* The loop settles one account and goes on.
This == Keys[next]
Settle(state, source, why) ==
    /\ ctx' = [ctx EXCEPT ![This] = state]
    /\ label' = [label EXCEPT ![This] = source]
    /\ gaps' = [gaps EXCEPT ![This] = @ \cup why]
    /\ next' = next + 1
    /\ phase' = IF next < Len(Keys) THEN "keys"
                ELSE IF OwnSlot THEN "block" ELSE "done"
    /\ UNCHANGED <<world, chain, streamed, run>>
\* mutant: the version goes to the slot that was asked
WritesAsAsked(slot, state, known) ==
    written' = IF world.records
               THEN written \cup {[account |-> This, slot |-> world.asked,
                                   state |-> state, known |-> known]}
               ELSE written
Writes(slot, state, known) ==
    written' = IF world.records
               THEN written \cup {[account |-> This, slot |-> slot,
                                   state |-> state, known |-> known]}
               ELSE written

\* Programs: the loader stamps the slot of the last deploy; an older binary
\* is the stream's version of the program data at its last deploy before.
KeepProgram ==
    /\ IsProgram(This)
    /\ LET deployed == SlotOf[LastIn({i \in Tx : Did(This, i) = "write"})]
       IN  \/ /\ Settle(ctx[This], "ProgramUnchecked", {})
              /\ UNCHANGED written
           \/ /\ deployed <= world.asked
              /\ Settle(ctx[This], "Program",
                        Because(deployed = world.asked, "deployed in the slot"))
              /\ UNCHANGED written
           \/ /\ deployed > world.asked
              /\ \E elf \in FromMentions(This) :
                   IF elf = Nothing
                   THEN /\ Settle(ctx[This], "ProgramUpgraded", {})
                        /\ UNCHANGED written
                   ELSE /\ Settle([data |-> elf.data, bal |-> ctx[This].bal], "Recorded",
                             Because(elf.slot # AtMention(This, {}).slot, "answer lost"))
                        /\ Writes(elf.slot, [data |-> elf.data, bal |-> 0], TRUE)
    /\ UNCHANGED <<unproven, left, spent>>

\* Signers are wallets: only the balance matters, and at the own slot the
\* record has it.
SeedSigner ==
    /\ IsSigner(This)
    /\ \/ /\ OwnSlot
          /\ Settle(ctx[This], "none", {})
       \/ /\ ~OwnSlot
          /\ \E l \in RewindLabels(This) :
               \/ /\ l.label = "MetadataRewind" \/ ctx[This] = NotLoaded
                  /\ Settle(ctx[This], l.label, l.why)
               \/ /\ l.label = "MetadataEstimate" /\ ctx[This] # NotLoaded
                  /\ \E bal \in WalletBalances(This) :
                       IF bal = Nothing THEN Settle(ctx[This], l.label, {})
                       ELSE Settle([ctx[This] EXCEPT !.bal = bal], "Recorded", {})
    /\ UNCHANGED <<unproven, left, written, spent>>

\* A data account that the transaction closed: only the stream has it.
InLoop == ~IsProgram(This) /\ ~IsSigner(This)
Streamed(a) == streamed[a] # Nothing
ClosedAfterwards == Streamed(This) /\ streamed[This].data = 0 /\ world.asked > Landed
StreamedBytes == Streamed(This) /\ streamed[This].data # 0
SettledAsClosed ==
    Closed(This) /\ (ClosedAfterwards \/ StreamedBytes \/ ~TokenListed(This))
TakeClosed ==
    /\ InLoop /\ SettledAsClosed
    /\ \/ /\ ClosedAfterwards
          /\ Settle(NotLoaded, "Recorded", {})
          /\ UNCHANGED written
       \/ /\ StreamedBytes
          /\ LET state == [data |-> IF OwnSlot /\ TokenListed(This)
                                    THEN Meta(This).data ELSE streamed[This].data,
                           bal |-> IF OwnSlot THEN Meta(This).bal ELSE Garbage]
             IN  /\ Settle(state, "Recorded", Because(~OwnSlot, "guessed balance"))
                 /\ Writes(streamed[This].slot, state, TRUE)
       \/ /\ ~StreamedBytes /\ ~ClosedAfterwards
          /\ Settle(ctx[This], "CurrentRpc", {})
          /\ UNCHANGED written
    /\ UNCHANGED <<unproven, left, spent>>

\* At the own slot the record covers a token account's amount and a wallet's
\* balance; what is empty today counts as a wallet.
Seedable == OwnSlot /\ (IsToken(This) \/ Empty(This))
TakeRecord ==
    /\ InLoop /\ ~SettledAsClosed /\ Seedable
    /\ IF IsToken(This) /\ StreamedBytes
       THEN LET state == [data |-> IF TokenListed(This) THEN Meta(This).data
                                   ELSE streamed[This].data,
                          bal |-> Meta(This).bal]
            IN  /\ Settle(state, "Recorded", {})
                /\ Writes(streamed[This].slot, state, TRUE)
       ELSE /\ Settle(ctx[This], "MetadataRewind",
                      Because(Empty(This) /\ HadBytes(This), "closed since"))
            /\ UNCHANGED written
    /\ UNCHANGED <<unproven, left, spent>>

\* Path 3: a recorded version that the rounds prove was still held.
InLookup == InLoop /\ ~SettledAsClosed /\ ~Seedable
Start == world.start[This]
StartState ==
    LET held == Held(This, UpTo(Start.slot))
    IN  IF Start.known \/ held = Gone THEN held ELSE [held EXCEPT !.bal = Garbage]
Proven == Recorded(This) /\ Start.held /\ world.covers
TakeVersion ==
    /\ InLookup /\ Proven
    /\ LET state == IF StartState = Gone THEN NotLoaded
                    ELSE IF Start.known THEN StartState
                    ELSE [StartState EXCEPT !.bal = Meta(This).bal]
       IN  Settle(state, "Recorded", Because(~OwnSlot /\ ~Start.known, "guessed balance"))
    /\ UNCHANGED <<unproven, left, written, spent>>

\* The stream had it: its bytes, with the balance of the record.
TakeStreamed ==
    /\ InLookup /\ ~Proven /\ Streamed(This)
    /\ LET v == streamed[This]
           state == IF v.data = 0 THEN NotLoaded
                    ELSE [data |-> v.data, bal |-> Meta(This).bal]
       IN  /\ Settle(state, "Recorded", {})
           /\ Writes(v.slot, IF state = NotLoaded THEN Gone ELSE state, TRUE)
           /\ unproven' = IF state # NotLoaded /\ ~OwnSlot
                          THEN unproven \cup {This} ELSE unproven
    /\ UNCHANGED <<left, spent>>

\* A bonding curve: its reserves before the transaction's own trade, or after
\* the last mention before the slot if that was a trade.
InSources == InLookup /\ ~Proven /\ ~Streamed(This)
IsCurve == Kind(This) = "curve" /\ ~Empty(This)
Traded ==
    IF ~IsCurve THEN {Nothing}
    ELSE IF OwnSlot
      THEN {IF Did(This, world.target) = "write" THEN Pre(This).data ELSE Nothing}
      ELSE LastTrade(This)
TakeEvent ==
    /\ InSources
    /\ \E trade \in Traded \ {Nothing} :
         Settle([ctx[This] EXCEPT !.data = trade], "EventLog", {})
    /\ UNCHANGED <<unproven, left, written, spent>>

\* At another slot: a balance the record lists, labelled by a lookup.
Listed == ~OwnSlot /\ (Empty(This) \/ TokenListed(This))
TakeListed ==
    /\ InSources /\ Listed
    /\ \E l \in RewindLabels(This) :
         Settle(ctx[This], l.label,
                l.why \cup Because(Empty(This) /\ HadBytes(This), "closed since"))
    /\ UNCHANGED <<unproven, left, written, spent>>

\* From here on lookups cost calls.  Path 2: today's bytes, when the newest
\* mention is before the slot.
InBudget == InSources /\ ~Listed /\ Nothing \in Traded
OverBudget ==
    /\ InBudget /\ left = 0
    /\ Settle(ctx[This], "CurrentRpc", {})
    /\ UNCHANGED <<unproven, left, written, spent>>
TakeCurrent ==
    /\ InBudget /\ left # 0
    /\ \E newest \in NewestSlot(Mentions(This)) :
         \/ /\ newest = Nothing
            /\ Settle(ctx[This], "CurrentRpc", {})
         \/ /\ newest # Nothing /\ newest < world.asked
            /\ Settle(ctx[This], "Unchanged",
                      Because(ctx[This].bal # Held(This, Last).bal, "balance of the landing"))
    /\ UNCHANGED <<unproven, left, written, spent>>

\* reconstruct_account_from: replay the account's own writes from a recorded
\* version, or from its creation, up to the transaction or the slot, unless
\* there are more than the budget has left: that is only known once so many
\* have been replayed, which nobody counts.  A write whose replay fails is
\* skipped; one that saw other accounts than today's may succeed with other
\* bytes.
ToReplay ==
    {i \in Tx : /\ Did(This, i) \in Writable
                /\ IF OwnSlot THEN i < world.target ELSE SlotOf[i] < world.asked
                /\ Recorded(This) => SlotOf[i] > Start.slot}
\* mutant: the budget is looked at after the replay, not before
AffordableLate == Cardinality(ToReplay) <= left + 1
Affordable == Cardinality(ToReplay) <= left
Drifts ==
    \E newest \in NewestSlot(Mentions(This)) \ {Nothing} : newest >= world.asked
Replayed(account, skipped, amiss) ==
    LET from == IF Recorded(account) THEN StartState ELSE Gone
        made == IF ToReplay = {} THEN from
                ELSE IF skipped = {} /\ ~amiss THEN Held(account, LastIn(ToReplay))
                ELSE [data |-> Garbage, bal |-> Garbage]
    IN  IF made = Gone THEN NotLoaded ELSE made
Rebuild ==
    /\ InBudget /\ left # 0 /\ Drifts
    /\ \/ /\ Settle(ctx[This], "CurrentRpc", {})
          /\ spent' = spent \/ (~Affordable /\ spent' = spent + left)
          /\ UNCHANGED left
       \/ /\ Affordable
          /\ spent' = spent + Cardinality(ToReplay)
          /\ \E skipped \in SUBSET ToReplay, amiss \in BOOLEAN :
               LET writes == Cardinality(ToReplay \ skipped)
                   state == Replayed(This, skipped, amiss)
                   full == skipped = {} /\ writes < world.budget
                   why == Because(amiss, "other accounts") \cup
                          Because(Recorded(This) /\ ~Start.known, "guessed balance")
               IN  /\ amiss => skipped = {} /\ ToReplay # {}
                   /\ IF Recorded(This) /\ ToReplay = {}
                      THEN /\ Settle(state, "Recorded", why)
                           /\ UNCHANGED left
                      ELSE /\ \/ Settle(state, IF full THEN "Reconstructed"
                                               ELSE "ReconstructedInexact", why)
                              \/ skipped # {} /\ Settle(ctx[This], "CurrentRpc", {})
                           /\ left' = IF writes < 1 THEN left - 1 ELSE left - writes
    /\ UNCHANGED <<unproven, written>>

-----------------------------------------------------------------------------
(* The block's earlier transactions.  Every source above is as of a block's *)
(* end; what was written since is replayed on top.                         *)

Earlier == {i \in Tx : SlotOf[i] = Landed /\ i < world.target}
MayWrite(i, a) == Did(a, i) \in Writable
Preceded == {a \in Account : \E i \in Earlier : MayWrite(i, a)}
InContext == {a \in Account : ctx[a] # NotLoaded /\ ~IsProgram(a)}
Affected(found) == {a \in found : ~IsToken(a) /\ label[a] \in {"Recorded", "Unchanged"}}
Relabel(found, source) ==
    label' = [a \in Account |-> IF a \in Affected(found) THEN source ELSE label[a]]

\* Data accounts chain transactions to each other; signers, token accounts
\* and programs come from each transaction's own record.
Chained(i, a) == /\ Did(a, i) # "none" /\ Kind(a) \in {"data", "curve"}
Touched(C) == {a \in Account : \E i \in C : Chained(i, a)}
DataWrites(i) == {a \in Account : Chained(i, a) /\ MayWrite(i, a)}
NeedsAll(C) ==
    \A i \in Earlier :
        DataWrites(i) \cap (Affected(Preceded) \cup Touched(C)) # {} => i \in C
Chosen == {i \in Earlier : \A C \in SUBSET Earlier : NeedsAll(C) => i \in C}

\* The block cannot be read: no earlier write can be ruled out.
BlockUnread ==
    /\ phase = "block"
    /\ Relabel(InContext, "SameBlock")
    /\ gaps' = [a \in Account |->
                  IF a \in Preceded \ InContext THEN gaps[a] \cup {"absent in an unread block"}
                  ELSE gaps[a]]
    /\ phase' = "done"
    /\ UNCHANGED <<world, chain, ctx, unproven, left, streamed, next, run, written, spent>>

NothingBefore ==
    /\ phase = "block" /\ Affected(Preceded) = {}
    /\ phase' = "done"
    /\ UNCHANGED <<world, chain, ctx, label, unproven, left, streamed, next, run, gaps,
                   written, spent>>

\* Too long a chain, or a transaction that cannot be decoded.
LabelOnly ==
    /\ phase = "block" /\ Affected(Preceded) # {}
    /\ Relabel(Preceded, "SameBlock")
    /\ phase' = "done"
    /\ UNCHANGED <<world, chain, ctx, unproven, left, streamed, next, run, gaps, written, spent>>

\* What the chosen transactions need and the context lacks: the stream's
\* version at the block's opening, or today's bytes, which makes all they
\* write inexact.  foreign stands for accounts this transaction does not name.
StartPrefix ==
    /\ phase = "block" /\ Affected(Preceded) # {} /\ Chosen # {}
    /\ LET lacking == (Affected(Preceded) \cup Touched(Chosen)) \ InContext
       IN  \E found \in SUBSET {a \in lacking : LastChange(a, Floor) # 0},
              foreign \in BOOLEAN :
             LET exact == foreign /\ found = lacking
                 opened(a) ==
                   IF a \in found
                   THEN [data |-> Held(a, LastChange(a, Floor)).data, bal |-> Garbage]
                   ELSE Held(a, Last)
             IN  /\ run' = [svm |-> [a \in Account |->
                                       IF a \in lacking THEN opened(a)
                                       ELSE IF ctx[a] = NotLoaded THEN Gone
                                       ELSE ctx[a]],
                            exact |-> exact,
                            foreign |-> foreign,
                            todo |-> Chosen,
                            skipped |-> {},
                            amiss |-> {},
                            inexact |-> IF exact THEN {}
                                        ELSE UNION {DataWrites(i) : i \in Chosen}]
                 /\ written' = IF ~world.records THEN written ELSE written \cup
                      {[account |-> a, slot |-> SlotOf[LastChange(a, Floor)],
                        state |-> [data |-> Held(a, LastChange(a, Floor)).data, bal |-> 0],
                        known |-> TRUE] : a \in found}
    /\ phase' = "prefix"
    /\ UNCHANGED <<world, chain, ctx, label, unproven, left, streamed, next, gaps, spent>>

\* One of them runs, with its own record's balances put in first.  With the
\* inputs it had it does what it did; with others it may fail.
RunOne ==
    /\ phase = "prefix" /\ run.todo # {}
    /\ LET i == CHOOSE i \in run.todo : \A j \in run.todo : i <= j
           named == {a \in Account : Did(a, i) # "none" /\ ~IsProgram(a)}
           rewound(a) ==
             [data |-> IF Kind(a) = "token" THEN Held(a, i-1).data ELSE run.svm[a].data,
              bal |-> Held(a, i-1).bal]
           asItWas == /\ \A a \in named : Stands(rewound(a)) = Held(a, i-1)
                      /\ run.foreign
           labelled == DataWrites(i) \cap Affected(Preceded)
           after(f(_)) == [a \in Account |-> IF a \in named THEN f(a) ELSE run.svm[a]]
           didWhatItDid(a) == Held(a, i)
           wentAstray(a) == IF MayWrite(i, a) /\ Stands(rewound(a)) # Gone
                            THEN [data |-> Garbage, bal |-> Garbage] ELSE rewound(a)
       IN  \/ run' = [run EXCEPT !.todo = @ \ {i}, !.svm = after(didWhatItDid)]
           \/ /\ ~asItWas
              /\ run' = [run EXCEPT !.todo = @ \ {i}, !.svm = after(wentAstray),
                             !.amiss = @ \cup (named \ IF run.exact THEN {}
                                                       ELSE labelled)]
           \/ /\ ~asItWas
              /\ run' = [run EXCEPT !.todo = @ \ {i}, !.svm = after(rewound),
                             !.skipped = @ \cup {i},
                             !.inexact = @ \cup DataWrites(i),
                             !.amiss = @ \cup (named \ labelled)]
    /\ UNCHANGED <<world, chain, ctx, label, unproven, left, streamed, phase, next,
                   gaps, written, spent>>

\* Something the prefix left out changed it after the prefix named it.
Overtaken(a) ==
    \E i \in Chosen, j \in Earlier \ Chosen :
        i < j /\ Did(a, i) # "none" /\ MayWrite(j, a)

\* What the context held before the prefix takes its state after it.
Bake ==
    /\ phase = "prefix" /\ run.todo = {}
    /\ IF run.skipped = Chosen
       THEN /\ Relabel(Preceded, "SameBlock")
            /\ UNCHANGED <<ctx, gaps>>
       ELSE /\ ctx' = [a \in Account |->
                  IF a \in InContext /\ run.svm[a] # Gone THEN run.svm[a] ELSE ctx[a]]
            /\ label' = [a \in Account |->
                  IF a \notin Affected(Preceded) THEN label[a]
                  ELSE IF a \in run.inexact THEN "BlockPrefixInexact" ELSE "BlockPrefix"]
            /\ gaps' = [a \in Account |->
                  gaps[a] \cup Because(a \in run.amiss, "inputs amiss")
                          \cup Because(a \in InContext /\ run.svm[a] = Gone, "closed in the block")
                          \cup Because(a \notin InContext /\ run.svm[a] # Gone, "made in the block")
                          \cup Because(Overtaken(a), "balance overtaken")]
    /\ phase' = "done"
    /\ run' = Nothing
    /\ UNCHANGED <<world, chain, unproven, left, streamed, next, written, spent>>

Key ==
    /\ phase = "keys"
    /\ \/ KeepProgram \/ SeedSigner \/ TakeClosed \/ TakeRecord \/ TakeVersion
       \/ TakeStreamed \/ TakeEvent \/ TakeListed \/ OverBudget \/ TakeCurrent
       \/ Rebuild
Next ==
    \/ AskStream \/ Key
    \/ BlockUnread \/ NothingBefore \/ LabelOnly \/ StartPrefix \/ RunOne \/ Bake

\* Every lookup may fail, and nothing has to answer: no fairness.
Spec == Init /\ [][Next]_vars

-----------------------------------------------------------------------------
(* The certificate.                                                        *)

Source(a) ==
    IF label[a] # "none" THEN label[a]
    ELSE IF IsProgram(a) THEN "ProgramUnchecked"
    ELSE IF ctx[a] = NotLoaded THEN "Absent"
    ELSE IF OwnSlot /\ Empty(a) THEN "MetadataRewind"
    ELSE "CurrentRpc"

\* mutant: proven bytes are enough
DriftedBytes ==
    {a \in Account :
        Source(a) \in {"CurrentRpc", "MetadataEstimate", "SameBlock", "BlockPrefixInexact",
                       "ReconstructedInexact", "ProgramUpgraded", "Absent"}}
Drifted ==
    unproven \cup
    {a \in Account :
        Source(a) \in {"CurrentRpc", "MetadataEstimate", "SameBlock", "BlockPrefixInexact",
                       "ReconstructedInexact", "ProgramUpgraded", "Absent"}}

-----------------------------------------------------------------------------

Labels == {"none", "Recorded", "Reconstructed", "ReconstructedInexact", "BlockPrefix",
           "BlockPrefixInexact", "SameBlock", "MetadataRewind", "MetadataEstimate",
           "EventLog", "Unchanged", "CurrentRpc", "Program", "ProgramUpgraded",
           "ProgramUnchecked"}

\* Every account has one label and none before the loop reaches it; the
\* budget never goes below zero; a prefix runs only in its phase.
TypeOK ==
    /\ phase \in {"stream", "keys", "block", "prefix", "done"}
    /\ next \in 1..Len(Keys)+1
    /\ phase = "keys" => next <= Len(Keys)
    /\ label \in [Account -> Labels]
    /\ \A i \in DOMAIN Keys : i >= next => label[Keys[i]] = "none"
    /\ unproven \subseteq Account
    /\ left \in 0..world.budget
    /\ (run # Nothing) <=> (phase = "prefix")

\* What the certificate vouches for, and what makes it right.
Vouched(a) == a \notin Drifted /\ Source(a) # "ProgramUnchecked"
Exact(a) ==
    IF Source(a) = "EventLog" THEN \E i \in Moments : ctx[a].data = Held(a, i).data
    ELSE Right(a, ctx[a])
VouchedIsExact == \A a \in Account : Vouched(a) /\ gaps[a] = {} => Exact(a)

\* Asked for the transaction's own slot, an account the certificate does not
\* call drifted is what the transaction saw, bytes and balance, with every
\* earlier transaction of its block applied, except where gaps says how the
\* code labels more than it knows.
OwnSlotExact == phase = "done" /\ OwnSlot => VouchedIsExact

\* Asked for another slot, an account the certificate does not call drifted
\* is what it was at that slot's start or end, with the same exceptions.
OtherSlotExact == phase = "done" /\ ~OwnSlot => VouchedIsExact

\* The certificate is right, whichever slot is asked for.
SlotExact == TypeOK /\ OwnSlotExact /\ OtherSlotExact

\* The loop replays no more than the budget for each account it has passed,
\* failed replays and abandoned reconstructions included.  (It may replay
\* more than the budget in all: an abandoned reconstruction is not counted.)
BudgetPerAccount == spent <= world.budget * (next - 1)

\* Whatever goes to the record store on the way is what the account held at
\* the slot it is stored for: later replays take it for a recording.  (Token
\* versions carry the transaction's own amount and are left out.)
WrittenTrue ==
    \A w \in written : Kind(w.account) # "token" =>
        w.state.data = Held(w.account, UpTo(w.slot)).data

\* "Only signers get the wallet shortcut": at the own slot, an account that
\* held bytes and is gone today is not taken for a wallet when it is looked at.
OnlySignersAreWallets ==
    phase = "done" /\ OwnSlot /\ ~Off =>
        \A a \in Account :
            /\ Kind(a) \in {"data", "curve"} /\ Pre(a).data # 0 /\ Held(a, Last) = Gone
            => Source(a) # "MetadataRewind"
=============================================================================
