------------------------------ MODULE ElfCache ------------------------------
(***************************************************************************)
(* The binaries of upgradeable programs that replays share (replay.rs      *)
(* ELF_CACHE): keyed by the programdata account and the slot of its last   *)
(* upgrade, which every fetch reads first, and held within a byte budget.  *)
(* The n-th deployed binary of a program is n, and so is its slot.         *)
(***************************************************************************)
EXTENDS Naturals, Sequences, FiniteSets, SequencesExt

CONSTANTS
    Fetchers,     \* threads
    Upgradeable,  \* programs
    ElfSize,      \* the bytes of a binary of each
    ElfBudget,    \* elf_cache_budget
    MaxUpgrades,  \* bound: binaries of a program
    MaxFetches    \* bound: fetches

ASSUME ElfAssumption ==
    ElfSize \in [Upgradeable -> Nat \ {0}] /\ {ElfBudget, MaxUpgrades, MaxFetches} \subseteq Nat

VARIABLES
    upgraded,   \* the chain: the binary of each program
    elfs,       \* ELF_CACHE: [key, elf], the least recently used first
    fetch,      \* per thread, its fetch: [stage, program, slot, elf]
    fetches     \* fetches so far
elfVars == <<upgraded, elfs, fetch, fetches>>

NoFetch == [stage |-> "idle", program |-> CHOOSE p \in Upgradeable : TRUE, slot |-> 0, elf |-> 0]

ElfInit ==
    /\ upgraded = [p \in Upgradeable |-> 1] /\ elfs = <<>>
    /\ fetch = [t \in Fetchers |-> NoFetch] /\ fetches = 0

Upgrade(p) ==
    /\ upgraded[p] < MaxUpgrades /\ upgraded' = [upgraded EXCEPT ![p] = @ + 1]
    /\ UNCHANGED <<elfs, fetch, fetches>>

\* The header of the programdata account: its last upgrade.
ReadHeader(t, p) ==
    /\ fetch[t].stage \in {"idle", "done"} /\ fetches < MaxFetches
    /\ fetch' = [fetch EXCEPT ![t] = [stage |-> "look", program |-> p, slot |-> upgraded[p], elf |-> 0]]
    /\ fetches' = fetches + 1 /\ UNCHANGED <<upgraded, elfs>>

\* mutant: the slot is left out of the key
AnySlot(f) == <<f.program, 0>>

ElfKey(f) == <<f.program, f.slot>>
Without(key) ==
    LET held == {i \in DOMAIN elfs : elfs[i].key = key}
    IN  IF held = {} THEN elfs ELSE RemoveAt(elfs, CHOOSE i \in held : TRUE)

\* The cache under its lock: a hit is touched and served.
LookUp(t) ==
    LET f == fetch[t]
        hits == {e \in ToSet(elfs) : e.key = ElfKey(f)}
    IN  /\ f.stage = "look"
        /\ \/ /\ hits = {} /\ fetch' = [fetch EXCEPT ![t].stage = "read"] /\ UNCHANGED elfs
           \/ \E e \in hits :
                /\ fetch' = [fetch EXCEPT ![t].stage = "done", ![t].elf = e.elf]
                /\ elfs' = Append(Without(ElfKey(f)), e)
        /\ UNCHANGED <<upgraded, fetches>>

\* The whole account, as it is by now; the call may fail.
ReadAccount(t) ==
    /\ fetch[t].stage = "read"
    /\ \/ fetch' = [fetch EXCEPT ![t].stage = "store", ![t].elf = upgraded[fetch[t].program]]
       \/ fetch' = [fetch EXCEPT ![t] = NoFetch]
    /\ UNCHANGED <<upgraded, elfs, fetches>>

\* The bytes of all the values; no two have the same key.
BytesOf(entries) == MapThenSumSet(LAMBDA e : ElfSize[e.key[1]], entries)
ElfBytes(s) == BytesOf(ToSet(s))

\* The binary is put; the oldest go until the rest fits, the new one stays.
StoreElf(t) ==
    LET f == fetch[t]
        put == Append(Without(ElfKey(f)), [key |-> ElfKey(f), elf |-> f.elf])
        n == CHOOSE i \in 1..Len(put) :
               /\ i = Len(put) \/ ElfBytes(SubSeq(put, i, Len(put))) <= ElfBudget
               /\ \A j \in 1..i - 1 : ~(ElfBytes(SubSeq(put, j, Len(put))) <= ElfBudget)
    IN  /\ f.stage = "store"
        /\ elfs' = SubSeq(put, n, Len(put))
        /\ fetch' = [fetch EXCEPT ![t].stage = "done"]
        /\ UNCHANGED <<upgraded, fetches>>

ElfNext ==
    \/ \E p \in Upgradeable : Upgrade(p)
    \/ \E t \in Fetchers :
         \/ \E p \in Upgradeable : ReadHeader(t, p)
         \/ LookUp(t) \/ ReadAccount(t) \/ StoreElf(t)

ElfSpec == ElfInit /\ [][ElfNext]_elfVars

\* Whatever upgrades land between a fetch's reads and whatever other fetches
\* put, the binary served is none older than the chain held when the fetch
\* began; no binary is kept under the slot of a later one; and the cache is
\* within its budget but for the binary just put.
ElfFresh ==
    /\ \A t \in Fetchers : fetch[t].stage = "done" => fetch[t].elf >= fetch[t].slot
    /\ \A e \in ToSet(elfs) : e.elf >= e.key[2]
    /\ Len(elfs) > 1 => ElfBytes(elfs) <= ElfBudget
=============================================================================
