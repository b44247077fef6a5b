--------------------------------- MODULE Pcid ---------------------------------
(***************************************************************************)
(* Recycling of hardware address-space tags (kernel/src/mm/pcid.c and the  *)
(* CR3 load of sched_schedule()).  A CPU remembers in a bitmap which tags  *)
(* its TLB may hold translations of and reloads such a tag without a       *)
(* flush; releasing a tag must clear that memory on every CPU before the   *)
(* tag can serve another address space.                                    *)
(***************************************************************************)
EXTENDS Naturals, FiniteSets, Null

CONSTANTS
    Cpus, Spaces,
    PCID_MAX      \* 4095 in the code

ASSUME PcidConstants ==
    /\ None \notin Spaces
    /\ PCID_MAX \in Nat \ {0}

PCID_KERNEL == 0
PCID_MIN == 1
Ids == PCID_MIN .. PCID_MAX

VARIABLES
    bitmap,     \* pcid_bitmap: the ids handed out
    next_hint,
    stage,      \* an address space: "unborn", "live", "clear", "flush", "dead"
    pcid,       \* mm->pcid
    todo,       \* the CPUs pcid_free() has still to visit
    cached,     \* active_pcids_bmp of each CPU
    loaded,     \* the address space in CR3, None for the kernel's
    next, warm, \* the switch under way: its target, and cpu_pcid_is_cached()
    tlb,        \* what the TLB holds: <<tag, address space>>
    early       \* history: spaces given an id inside its pcid_free()

spaceVars == <<bitmap, next_hint, stage, pcid, todo>>
pcidVars == <<spaceVars, cached, loaded, next, warm, tlb, early>>

PcidInit ==
    /\ bitmap = {}
    /\ next_hint = PCID_MIN
    /\ stage = [s \in Spaces |-> "unborn"]
    /\ pcid = [s \in Spaces |-> PCID_KERNEL]
    /\ todo = [s \in Spaces |-> {}]
    /\ cached = [c \in Cpus |-> {}]
    /\ loaded = [c \in Cpus |-> None]
    /\ next = [c \in Cpus |-> None]
    /\ warm = [c \in Cpus |-> FALSE]
    /\ tlb = [c \in Cpus |-> {}]
    /\ early = {}

\* No state: only another module of the run moves.
PcidAbsent ==
    /\ bitmap = None /\ next_hint = None /\ stage = None /\ pcid = None
    /\ todo = None /\ cached = None /\ loaded = None /\ next = None
    /\ warm = None /\ tlb = None /\ early = None

PcidPresent == bitmap # None

-----------------------------------------------------------------------------
\* The ids from lo to hi that are free.
Scan(lo, hi) == {i \in Ids : lo <= i /\ i <= hi} \ bitmap

NextHint(id) == IF id < PCID_MAX THEN id + 1 ELSE PCID_MIN

\* From the hint up, then from the bottom to the hint.
pcid_alloc(s) ==
    /\ stage[s] = "unborn"
    /\ stage' = [stage EXCEPT ![s] = "live"]
    /\ LET up == Scan(next_hint, PCID_MAX)
           found == IF up # {} THEN up ELSE Scan(PCID_MIN, next_hint - 1)
       IN \/ /\ found = {}
             /\ UNCHANGED <<bitmap, next_hint, pcid, early>>
          \/ \E id \in found :
                /\ \A i \in found : id <= i
                /\ bitmap' = bitmap \cup {id}
                /\ next_hint' = NextHint(id)
                /\ pcid' = [pcid EXCEPT ![s] = id]
                /\ early' = early \cup {x \in {s} : \E u \in Spaces :
                                stage[u] \in {"clear", "flush"} /\ pcid[u] = id}
    /\ UNCHANGED <<todo, cached, loaded, next, warm, tlb>>

\* The last user of the space is gone; the id is given back first ...
pcid_free(s) ==
    /\ stage[s] = "live"
    /\ \A c \in Cpus : loaded[c] # s /\ next[c] # s
    /\ IF pcid[s] = PCID_KERNEL
         THEN /\ stage' = [stage EXCEPT ![s] = "dead"]
              /\ UNCHANGED <<bitmap, next_hint, todo>>
         ELSE /\ stage' = [stage EXCEPT ![s] = "clear"]
              /\ bitmap' = bitmap \ {pcid[s]}
              /\ next_hint' = IF pcid[s] < next_hint THEN pcid[s] ELSE next_hint
              /\ todo' = [todo EXCEPT ![s] = Cpus]
    /\ UNCHANGED <<pcid, cached, loaded, next, warm, tlb, early>>

\* ... then every CPU's bit is cleared ...
\* mutant: only one CPU is visited
ClearOne(s, c) ==
    /\ stage[s] = "clear" /\ c \in todo[s]
    /\ cached' = [cached EXCEPT ![c] = @ \ {pcid[s]}]
    /\ todo' = [todo EXCEPT ![s] = {}]
    /\ stage' = [stage EXCEPT ![s] = "flush"]
    /\ UNCHANGED <<bitmap, next_hint, pcid, loaded, next, warm, tlb, early>>
cpu_pcid_invalidate(s, c) ==
    /\ stage[s] = "clear" /\ c \in todo[s]
    /\ cached' = [cached EXCEPT ![c] = @ \ {pcid[s]}]
    /\ todo' = [todo EXCEPT ![s] = @ \ {c}]
    /\ stage' = [stage EXCEPT ![s] = IF todo[s] = {c} THEN "flush" ELSE "clear"]
    /\ UNCHANGED <<bitmap, next_hint, pcid, loaded, next, warm, tlb, early>>

\* ... and INVPCID reaches the CPU it runs on, whichever that is.
pcid_flush_context(s, c) ==
    /\ stage[s] = "flush"
    /\ tlb' = [tlb EXCEPT ![c] = {e \in @ : e[1] # pcid[s]}]
    /\ stage' = [stage EXCEPT ![s] = "dead"]
    /\ UNCHANGED <<bitmap, next_hint, pcid, todo, cached, loaded, next, warm, early>>

-----------------------------------------------------------------------------
\* The scheduler tests and marks the bit, then loads CR3.
SwitchTest(c, s) ==
    /\ next[c] = None /\ loaded[c] # s /\ stage[s] = "live"
    /\ next' = [next EXCEPT ![c] = s]
    /\ warm' = [warm EXCEPT ![c] = pcid[s] \in cached[c]]
    /\ cached' = [cached EXCEPT ![c] = @ \cup ({pcid[s]} \ {PCID_KERNEL})]
    /\ UNCHANGED <<spaceVars, loaded, tlb, early>>

SwitchLoad(c) ==
    /\ next[c] # None
    /\ loaded' = [loaded EXCEPT ![c] = next[c]]
    /\ tlb' = [tlb EXCEPT ![c] = IF warm[c] THEN @ ELSE {e \in @ : e[1] # pcid[next[c]]}]
    /\ next' = [next EXCEPT ![c] = None]
    /\ UNCHANGED <<spaceVars, cached, warm, early>>

\* A kernel thread: the kernel's CR3, a flushing load of tag 0.
SwitchKernel(c) ==
    /\ next[c] = None /\ loaded[c] # None
    /\ loaded' = [loaded EXCEPT ![c] = None]
    /\ tlb' = [tlb EXCEPT ![c] = {e \in @ : e[1] # PCID_KERNEL}]
    /\ UNCHANGED <<spaceVars, cached, next, warm, early>>

\* The MMU fills the TLB under the loaded tag.
Access(c) ==
    /\ loaded[c] # None
    /\ tlb' = [tlb EXCEPT ![c] = @ \cup {<<pcid[loaded[c]], loaded[c]>>}]
    /\ UNCHANGED <<spaceVars, cached, loaded, next, warm, early>>

PcidNext ==
    \/ \E s \in Spaces : pcid_alloc(s) \/ pcid_free(s)
    \/ \E s \in Spaces, c \in Cpus :
          cpu_pcid_invalidate(s, c) \/ pcid_flush_context(s, c) \/ SwitchTest(c, s)
    \/ \E c \in Cpus : SwitchLoad(c) \/ SwitchKernel(c) \/ Access(c)

PcidSpec == PcidInit /\ [][PcidNext]_pcidVars

-----------------------------------------------------------------------------
\* The state's types; the hint stays inside the range of ids.
PcidTypeOK ==
    /\ bitmap \subseteq Ids /\ next_hint \in Ids
    /\ stage \in [Spaces -> {"unborn", "live", "clear", "flush", "dead"}]
    /\ pcid \in [Spaces -> Ids \cup {PCID_KERNEL}]
    /\ todo \in [Spaces -> SUBSET Cpus]
    /\ cached \in [Cpus -> SUBSET Ids]
    /\ loaded \in [Cpus -> Spaces \cup {None}]
    /\ next \in [Cpus -> Spaces \cup {None}]
    /\ warm \in [Cpus -> BOOLEAN]
    /\ early \subseteq Spaces
    /\ tlb \in [Cpus -> SUBSET ((Ids \cup {PCID_KERNEL}) \X Spaces)]

(***************************************************************************)
(* "Releasing a PCID must leave no core able to reuse it with stale        *)
(* translations" (pcid.c): no CPU running an address space holds           *)
(* translations of another one under the same tag.  pcid_free() gives the  *)
(* id back before it clears the CPUs' bits; a space that was given the id  *)
(* in between is excepted.                                                 *)
(***************************************************************************)
NoForeignTranslation ==
    PcidPresent =>
      \A c \in Cpus : loaded[c] \notin early \cup {None} =>
          \A e \in tlb[c] : e[1] = pcid[loaded[c]] => e[2] = loaded[c]

-----------------------------------------------------------------------------
\* No entry of another space under the tag of s.
Clean(c, s) == \A e \in tlb[c] : e[1] = pcid[s] => e[2] = s

\* A live space has its tag to itself; CPUs run live ones.
TagsInv ==
    /\ \A s \in Spaces : stage[s] = "unborn" => pcid[s] = PCID_KERNEL
    /\ \A s \in Spaces : stage[s] = "live" /\ pcid[s] # PCID_KERNEL => pcid[s] \in bitmap
    /\ \A s, u \in Spaces :
         stage[s] = "live" /\ stage[u] = "live" /\ pcid[s] = pcid[u]
           => s = u \/ pcid[s] = PCID_KERNEL
    /\ \A c \in Cpus : /\ loaded[c] # None => stage[loaded[c]] = "live"
                       /\ next[c] # None => stage[next[c]] = "live"

\* A CPU remembers a free tag only while the release of the tag has still to
\* visit it.
ReleaseInv ==
    \A c \in Cpus : \A i \in cached[c] \ bitmap :
        \E s \in Spaces : stage[s] = "clear" /\ pcid[s] = i /\ c \in todo[s]

\* What a CPU remembers of a space it may load without a flush.
CleanInv ==
    \A c \in Cpus, s \in Spaces \ early :
        /\ loaded[c] = s => Clean(c, s)
        /\ next[c] = s /\ warm[c] => pcid[s] # PCID_KERNEL /\ Clean(c, s)
        /\ stage[s] = "live" /\ pcid[s] \in cached[c] =>
             Clean(c, s) \/ (next[c] = s /\ ~warm[c])

PcidInv == PcidTypeOK /\ TagsInv /\ ReleaseInv /\ CleanInv
=============================================================================
