-------------------------------- MODULE Mman --------------------------------
(***************************************************************************)
(* The memory manager (kernel/mman.c), the process level on top of it      *)
(* (kernel/mmanutils.c) and the system calls mmap, munmap, mremap,         *)
(* mprotect and brk (kernel/syscall.c).                                    *)
(*                                                                         *)
(* One flat range of pages serves all processes.  The break value grows    *)
(* from below, mappings are placed from above.  Areas in use are kept in a *)
(* sorted list of descriptors (VADs), here a set of intervals <<first page,*)
(* page after the last>>.  Every function of mman.c holds the lock of the  *)
(* memory manager, so it is one step; recording which process owns the     *)
(* pages is another step of the system call.  Areas that were mapped       *)
(* without any access are zero-filled when they become accessible, not     *)
(* before.                                                                 *)
(***************************************************************************)
EXTENDS Integers, FiniteSets, FiniteSetsExt

CONSTANTS NumPages,      \* pages between mman->start and mman->end
          Procs,         \* processes, each with one thread that makes calls
          Nobody,        \* pid 0
          MaxLen,        \* bound on the length of a request
          MaxCalls       \* bound on system calls

ASSUME MmanAssumption == NumPages \in Nat /\ MaxLen \in Nat /\ Nobody \notin Procs

Pages == 0..(NumPages - 1)
Prots == {"none", "r", "rw"}
Zero == "zero"

VARIABLES
    brk,       \* mman->brk, in pages
    map,       \* mman->map
    vads,      \* mman->vad_list
    prot,      \* mman->prot_vector without MYST_PENDING_ZEROING_FLAG
    pending,   \* the pages with MYST_PENDING_ZEROING_FLAG
    host,      \* the protection the host has for each page
    mem,       \* what each page holds: zeros, or data of a process
    pid,       \* the pids vector: the recorded owner of each page
    call,      \* the system call of each process between its steps
    calls,
    owner,     \* ghost: the process that has mapped the page
    want,      \* ghost: what the owner expects the page to hold
    lostcopy,  \* ghost: pages mremap copied but left marked for zero-filling
    erased     \* ghost: pages whose owner another process's munmap erased

memVars == <<prot, pending, host, mem>>
vars == <<brk, map, vads, memVars, pid, call, calls, owner, want, lostcopy, erased>>

Idle == [op |-> "none", old |-> {}, new |-> {}]

\* setup_mman: everything is free and inaccessible, with whatever was there
Init ==
    /\ brk = 0 /\ map = NumPages /\ vads = {}
    /\ prot = [g \in Pages |-> "none"]
    /\ pending = {}
    /\ host = [g \in Pages |-> "none"]
    /\ mem \in [Pages -> {Nobody}]
    /\ pid = [g \in Pages |-> Nobody]
    /\ call = [p \in Procs |-> Idle]
    /\ calls = 0
    /\ owner = [g \in Pages |-> Nobody]
    /\ want = [g \in Pages |-> Zero]
    /\ lostcopy = {} /\ erased = {}

-----------------------------------------------------------------------------
(***************************************************************************)
(* The list of VADs                                                        *)
(***************************************************************************)
Area(a, n) == a..(a + n - 1)

\* _list_find
VadOf(a) == {v \in vads : v[1] <= a /\ a < v[2]}

Covered(V) == UNION {v[1]..(v[2] - 1) : v \in V}

\* _get_right_gap
RightGap(v) ==
    LET after == {w[1] : w \in {x \in vads : x[1] >= v[2]}}
    IN  (IF after = {} THEN NumPages ELSE Min(after)) - v[2]

\* _mman_find_gap: the first gap that is large enough, or below all mappings
FindGap(n) ==
    LET starts == {v[2] : v \in {w \in vads : RightGap(w) >= n}}
    IN  CASE starts # {} -> {Min(starts)}
          [] starts = {} /\ map - n >= brk -> {map - n}
          [] OTHER -> {}

\* mutant: the new area is merged with its left neighbour only
InsertLeftOnly(V, a, e) ==
    LET touching == {v \in V : v[2] = a}
        ends == {<<a, e>>} \cup touching
    IN  (V \ touching) \cup {<<Min({v[1] : v \in ends}), Max({v[2] : v \in ends})>>}

\* the list with the area [a, e) added: a new VAD, merged with the neighbours it
\* touches
Insert(V, a, e) ==
    LET touching == {v \in V : v[2] = a \/ v[1] = e}
        ends == {<<a, e>>} \cup touching
    IN  (V \ touching) \cup {<<Min({v[1] : v \in ends}), Max({v[2] : v \in ends})>>}

\* mutant: the part to the right of the hole is forgotten
CutForgetsRight(V, v, a, e) ==
    (V \ {v}) \cup {w \in {<<v[1], a>>, <<e, v[2]>>} :
                        w[1] < w[2] /\ (w[1] = v[1] \/ a = v[1])}

\* the list with [a, e) cut out of VAD v, the four cases of _munmap
Cut(V, v, a, e) ==
    (V \ {v}) \cup {w \in {<<v[1], a>>, <<e, v[2]>>} : w[1] < w[2]}

\* _mman_sync_top
Top(V) == IF V = {} THEN NumPages ELSE Min({v[1] : v \in V})

\* functions of pages with a new value on a set of them
Set(f, S, x) == [g \in DOMAIN f |-> IF g \in S THEN x ELSE f[g]]

-----------------------------------------------------------------------------
MayCall(p) == call[p] = Idle /\ calls < MaxCalls

\* what a process can legally name in a call: pages it has mapped, recorded as its
Owns(p, S) == S \subseteq Pages /\ \A g \in S : owner[g] = p /\ pid[g] = p

\* mutant: a read-only area is not zero-filled
FillWritable(S, pr) ==
    /\ prot' = Set(prot, S, pr)
    /\ host' = Set(host, S, pr)
    /\ IF pr # "rw"
       THEN pending' = (IF pr = "none" THEN pending \cup S ELSE pending \ S) /\ UNCHANGED mem
       ELSE mem' = Set(mem, S, Zero) /\ pending' = pending \ S

\* the end of _mmap: zero-fill what is accessible, mark the rest
FillNew(S, pr) ==
    /\ prot' = Set(prot, S, pr)
    /\ host' = Set(host, S, pr)
    /\ IF pr = "none"
       THEN pending' = pending \cup S /\ UNCHANGED mem
       ELSE mem' = Set(mem, S, Zero) /\ pending' = pending \ S

\* mmap without an address: find a gap, insert, fill; the pages get their owner in
\* the next step
Mmap(p, n, pr) ==
    /\ MayCall(p)
    /\ \E a \in FindGap(n) :
          /\ vads' = Insert(vads, a, a + n)
          /\ map' = Top(vads')
          /\ FillNew(Area(a, n), pr)
          /\ call' = [call EXCEPT ![p] = [op |-> "own", old |-> {}, new |-> Area(a, n)]]
          /\ owner' = Set(owner, Area(a, n), p)
          /\ want' = Set(want, Area(a, n), Zero)
          /\ lostcopy' = lostcopy \ Area(a, n)
          /\ erased' = erased \ Area(a, n)
    /\ calls' = calls + 1
    /\ UNCHANGED <<brk, pid>>

\* mmap with MAP_FIXED of pages the process owns, inside one area: they are filled
\* anew in place
MmapFixed(p, a, n, pr) ==
    /\ MayCall(p) /\ Owns(p, Area(a, n))
    /\ \E v \in VadOf(a) : a + n <= v[2]
    /\ FillNew(Area(a, n), pr)
    /\ want' = Set(want, Area(a, n), Zero)
    /\ lostcopy' = lostcopy \ Area(a, n)
    /\ call' = [call EXCEPT ![p] = [op |-> "own", old |-> {}, new |-> Area(a, n)]]
    /\ calls' = calls + 1
    /\ UNCHANGED <<brk, map, vads, pid, owner, erased>>

\* mutant: the pages keep MYST_PENDING_ZEROING_FLAG
MunmapKeepsFlag(p, a, n) ==
    /\ MayCall(p) /\ Owns(p, Area(a, n))
    /\ \E v \in VadOf(a) :
          /\ a + n <= v[2]
          /\ vads' = Cut(vads, v, a, a + n)
    /\ map' = Top(vads')
    /\ prot' = Set(prot, Area(a, n), "none")
    /\ host' = Set(host, Area(a, n), "none")
    /\ call' = [call EXCEPT ![p] = [op |-> "disown", old |-> Area(a, n), new |-> {}]]
    /\ calls' = calls + 1
    /\ owner' = Set(owner, Area(a, n), Nobody)
    /\ lostcopy' = lostcopy \ Area(a, n)
    /\ UNCHANGED <<brk, pending, mem, pid, want, erased>>

\* munmap: the area must lie in one VAD
Munmap(p, a, n) ==
    /\ MayCall(p) /\ Owns(p, Area(a, n))
    /\ \E v \in VadOf(a) :
          /\ a + n <= v[2]
          /\ vads' = Cut(vads, v, a, a + n)
    /\ map' = Top(vads')
    /\ prot' = Set(prot, Area(a, n), "none")
    /\ host' = Set(host, Area(a, n), "none")
    /\ pending' = pending \ Area(a, n)
    /\ call' = [call EXCEPT ![p] = [op |-> "disown", old |-> Area(a, n), new |-> {}]]
    /\ calls' = calls + 1
    /\ owner' = Set(owner, Area(a, n), Nobody)
    /\ lostcopy' = lostcopy \ Area(a, n)
    /\ UNCHANGED <<brk, mem, pid, want, erased>>

\* myst_mman_pids_set(old, 0)
Disown(p) ==
    /\ call[p].op \in {"disown", "move"}
    /\ pid' = Set(pid, call[p].old, Nobody)
    /\ erased' = erased \cup {g \in call[p].old : owner[g] \notin {p, Nobody}}
    /\ call' = [call EXCEPT ![p] =
                   IF @.op = "move" THEN [@ EXCEPT !.op = "own"] ELSE Idle]
    /\ UNCHANGED <<brk, map, vads, memVars, calls, owner, want, lostcopy>>

\* mutant: one page too few
OwnShort(p) ==
    /\ call[p].op = "own"
    /\ pid' = Set(pid, call[p].new \ {Max(call[p].new)}, p)
    /\ call' = [call EXCEPT ![p] = Idle]
    /\ erased' = erased \ call[p].new
    /\ UNCHANGED <<brk, map, vads, memVars, calls, owner, want, lostcopy>>

\* myst_mman_pids_set(new, pid)
Own(p) ==
    /\ call[p].op = "own"
    /\ pid' = Set(pid, call[p].new, p)
    /\ call' = [call EXCEPT ![p] = Idle]
    /\ erased' = erased \ call[p].new
    /\ UNCHANGED <<brk, map, vads, memVars, calls, owner, want, lostcopy>>

-----------------------------------------------------------------------------
(***************************************************************************)
(* mremap                                                                  *)
(***************************************************************************)
\* _mman_get_prot: 0 for the same protection and flag, 1 if only the flag
\* differs, -1 otherwise; the first page is not compared with the second, so that
\* it may differ in the flag from pages that agree
Consistency(a, n) ==
    LET rest == Area(a + 1, n - 1)
    IN  CASE \E g \in rest : prot[g] # prot[a] -> -1
          [] (\A g \in rest : prot[g] = prot[a]) /\ (rest \subseteq pending \/ rest \cap pending = {}) -> 0
          [] OTHER -> 1

\* the ownership steps that end mremap
Reown(p, old, new) ==
    /\ call' = [call EXCEPT ![p] = [op |-> "move", old |-> old, new |-> new]]
    /\ calls' = calls + 1

MayRemap(p, a, n, v) ==
    /\ MayCall(p) /\ Owns(p, Area(a, n)) /\ v \in VadOf(a) /\ a + n <= v[2]

\* the area shrinks in place; what lies to its right becomes a VAD of its own
MremapShrink(p, a, n, m, v) ==
    /\ MayRemap(p, a, n, v) /\ m < n
    /\ vads' = Cut(vads, v, a + m, a + n)
    /\ map' = Top(vads')
    /\ LET gone == Area(a + m, n - m)
       IN  /\ prot' = Set(prot, gone, "none")
           /\ host' = Set(host, gone, "none")
           /\ pending' = pending \ gone
           /\ owner' = Set(owner, gone, Nobody)
           /\ lostcopy' = lostcopy \ gone
    /\ Reown(p, Area(a, n), Area(a, m))
    /\ UNCHANGED <<brk, mem, pid, want, erased>>

\* the protection of the grown area: that of its first page, none if the pages
\* differ in the flag
GrowFlag(a, n) == a \in pending /\ Consistency(a, n) # 1

HasRoom(a, n, m, v) == v[2] = a + n /\ RightGap(v) >= m - n

\* the area grows in place and merges with the VAD it reaches; pages added to a
\* pending area are pending
MremapGrow(p, a, n, m, v) ==
    LET new == Area(a + n, m - n)
    IN  /\ MayRemap(p, a, n, v) /\ m > n /\ HasRoom(a, n, m, v)
        /\ Consistency(a, n) # -1
        /\ vads' = Insert(vads, a + n, a + m)
        /\ map' = Top(vads')
        /\ prot' = Set(prot, new, prot[a])
        /\ IF GrowFlag(a, n)
           THEN pending' = pending \cup new /\ UNCHANGED <<mem, host>>
           ELSE /\ pending' = pending \ new
                /\ mem' = Set(mem, new, Zero)
                /\ host' = Set(host, new, prot[a])
        /\ owner' = Set(owner, new, p)
        /\ want' = Set(want, new, Zero)
        /\ lostcopy' = lostcopy \ new
        /\ erased' = erased \ new
        /\ Reown(p, Area(a, n), Area(a, m))
        /\ UNCHANGED <<brk, pid>>

\* the flags after a move from a to b: mmap set the flag on the new area if it is
\* inaccessible, and only the mixed case clears it
PendingAfterMove(a, b, n, m) ==
    IF Consistency(a, n) = 1 \/ prot[a] # "none"
    THEN pending \ (Area(a, n) \cup Area(b, m))
    ELSE (pending \ Area(a, n)) \cup Area(b, m)

\* what the pages hold after a move: the new area was zero-filled by mmap if it is
\* accessible; unless the old one is pending, its pages are zero-filled where they
\* are pending (in the mixed case) and then copied
MemAfterMove(a, b, n, m) ==
    LET c == Consistency(a, n)
        old(g) == IF c = 1 /\ g \in pending THEN Zero ELSE mem[g]
    IN  [g \in Pages |->
            CASE GrowFlag(a, n) -> mem[g]
              [] ~GrowFlag(a, n) /\ g \in Area(b, n) -> old(a + (g - b))
              [] ~GrowFlag(a, n) /\ g \in Area(b + n, m - n) ->
                     IF c = 1 \/ prot[a] # "none" THEN Zero ELSE mem[g]
              [] ~GrowFlag(a, n) /\ g \in Area(a, n) -> old(g)
              [] OTHER -> mem[g]]

\* the area moves: mmap of the new one, copy, munmap of the old one
MremapMove(p, a, n, m, v) ==
    /\ MayRemap(p, a, n, v) /\ m > n /\ ~HasRoom(a, n, m, v)
    /\ Consistency(a, n) # -1
    /\ \E b \in FindGap(m) :
          LET added == Insert(vads, b, b + m)
              u == CHOOSE w \in added : w[1] <= a /\ a < w[2]
          IN  /\ vads' = Cut(added, u, a, a + n)
              /\ map' = Top(vads')
              /\ prot' = Set(Set(prot, Area(b, m), prot[a]), Area(a, n), "none")
              /\ host' = Set(Set(host, Area(b, m), prot[a]), Area(a, n), "none")
              /\ pending' = PendingAfterMove(a, b, n, m)
              /\ mem' = MemAfterMove(a, b, n, m)
              /\ owner' = Set(Set(owner, Area(b, m), p), Area(a, n), Nobody)
              /\ want' = [g \in Pages |-> CASE g \in Area(b, n) -> want[a + (g - b)]
                                            [] g \in Area(b + n, m - n) -> Zero
                                            [] OTHER -> want[g]]
              /\ lostcopy' = ((lostcopy \cup
                      IF /\ Consistency(a, n) = 0 /\ prot[a] = "none"
                         /\ \E g \in Area(a, n) : g \notin pending
                      THEN Area(b, m) ELSE {}) \cup
                      {g \in Area(b, n) : a + (g - b) \in lostcopy}) \ Area(a, n)
              /\ erased' = erased \ Area(b, m)
              /\ Reown(p, Area(a, n), Area(b, m))
    /\ UNCHANGED <<brk, pid>>

-----------------------------------------------------------------------------
\* mprotect of pages the process owns: pages that become accessible are zero-filled
\* if they are pending; others keep their flag
Mprotect(p, a, n, pr) ==
    LET S == Area(a, n)
    IN  /\ MayCall(p) /\ Owns(p, S)
        /\ calls' = calls + 1
        /\ prot' = Set(prot, S, pr)
        /\ host' = Set(host, S, pr)
        /\ IF pr = "none" THEN UNCHANGED <<mem, pending>>
           ELSE mem' = Set(mem, S \cap pending, Zero) /\ pending' = pending \ S
        /\ UNCHANGED <<brk, map, vads, pid, call, owner, want, lostcopy, erased>>

\* brk: pages below the break value are accessible; nothing is zero-filled
Brk(p, b) ==
    /\ MayCall(p) /\ b <= map /\ b # brk
    /\ calls' = calls + 1
    /\ brk' = b
    /\ prot' = Set(Set(prot, brk..(b - 1), "rw"), b..(brk - 1), "none")
    /\ host' = Set(Set(host, brk..(b - 1), "rw"), b..(brk - 1), "none")
    /\ pending' = pending \ (brk..(b - 1))
    /\ UNCHANGED <<map, vads, mem, pid, call, owner, want, lostcopy, erased>>

\* a program writes to a page it can write to
Store(p, g) ==
    /\ call[p] = Idle /\ mem[g] # p
    /\ host[g] = "rw" /\ (owner[g] = p \/ g < brk)
    /\ mem' = [mem EXCEPT ![g] = p]
    /\ want' = [want EXCEPT ![g] = IF owner[g] = p THEN p ELSE @]
    /\ UNCHANGED <<brk, map, vads, prot, pending, host, pid, call, calls, owner,
                   lostcopy, erased>>

\* maximal runs of pages in S, as intervals
Runs(S) == {r \in Pages \X (1..NumPages) :
               /\ r[1] < r[2] /\ r[1]..(r[2] - 1) \subseteq S
               /\ r[1] - 1 \notin S /\ r[2] \notin S}

OwnedRuns(p) == Runs({g \in Pages : pid[g] = p})

\* myst_release_process_mappings: every run of pages recorded for the process is
\* unmapped
Release(p) ==
    LET S == {g \in Pages : pid[g] = p}
    IN  /\ call[p] = Idle
        /\ \A r \in OwnedRuns(p) : \E v \in vads : v[1] <= r[1] /\ r[2] <= v[2]
        /\ vads' = UNION {Runs((v[1]..(v[2] - 1)) \ S) : v \in vads}
        /\ map' = Top(vads')
        /\ prot' = Set(prot, S, "none")
        /\ host' = Set(host, S, "none")
        /\ pending' = pending \ S
        /\ pid' = Set(pid, S, Nobody)
        /\ owner' = Set(owner, S, Nobody)
        /\ lostcopy' = lostcopy \ S
        /\ call' = [call EXCEPT ![p] = [Idle EXCEPT !.op = "exited"]]
        /\ UNCHANGED <<brk, mem, calls, want, erased>>

Lengths == 1..MaxLen

Next ==
    \E p \in Procs :
        \/ Own(p) \/ Disown(p) \/ Release(p)
        \/ \E n \in Lengths, pr \in Prots : Mmap(p, n, pr)
        \/ \E a \in Pages, n \in Lengths : Munmap(p, a, n)
        \/ \E a \in Pages, n \in Lengths, pr \in Prots :
              MmapFixed(p, a, n, pr) \/ Mprotect(p, a, n, pr)
        \/ \E a \in Pages, n, m \in Lengths : \E v \in VadOf(a) :
              MremapShrink(p, a, n, m, v) \/ MremapGrow(p, a, n, m, v) \/ MremapMove(p, a, n, m, v)
        \/ \E b \in 0..NumPages : Brk(p, b)
        \/ \E g \in Pages : Store(p, g)

Spec == Init /\ [][Next]_vars

-----------------------------------------------------------------------------
(***************************************************************************)
(* Properties                                                              *)
(***************************************************************************)
\* The types of the variables.
TypeOK ==
    /\ brk \in 0..NumPages /\ map \in 0..NumPages
    /\ vads \subseteq Pages \X (1..NumPages)
    /\ prot \in [Pages -> Prots] /\ host \in [Pages -> Prots]
    /\ pending \subseteq Pages
    /\ mem \in [Pages -> Procs \cup {Nobody, Zero}]
    /\ pid \in [Pages -> Procs \cup {Nobody}]
    /\ owner \in [Pages -> Procs \cup {Nobody}]
    /\ want \in [Pages -> Procs \cup {Zero}]
    /\ lostcopy \subseteq Pages /\ erased \subseteq Pages
    /\ call \in [Procs -> [op : {"none", "own", "disown", "move", "exited"},
                           old : SUBSET Pages, new : SUBSET Pages]]

\* myst_mman_is_sane, which every function of mman.c checks before and after: the
\* VADs are disjoint, in order and never touch, map is the first of them, and the
\* break value stays below it.
Sane ==
    /\ brk <= map
    /\ map = Top(vads)
    /\ \A v \in vads : v[1] < v[2] /\ v[2] <= NumPages
    /\ \A v, w \in vads : v = w \/ v[2] < w[1] \/ w[2] < v[1]

\* The VADs are the pages that processes have mapped: no page is in two processes'
\* hands, none is lost and none of the heap's is mapped.
VadsExact ==
    Covered(vads) = {g \in Pages : owner[g] # Nobody}

\* The host protects every page as prot_vector says, and a page that waits for
\* its zeros cannot be accessed: "MYST_PENDING_ZEROING_FLAG logic error" does not
\* happen.
ProtExact ==
    /\ host = prot
    /\ \A g \in pending : prot[g] = "none" /\ owner[g] # Nobody

\* what a mapped page holds once it is accessible
Content(g) == IF g \in pending THEN Zero ELSE mem[g]

\* A process finds in its pages what it stored there or zeros, never data of
\* another process or of an earlier mapping, through any sequence of mmap, mremap,
\* mprotect and munmap; except after mremap has moved an inaccessible area that
\* was not, or not all, waiting for its zeros.
ContentKept ==
    \A g \in Pages : owner[g] # Nobody /\ g \notin lostcopy => Content(g) = want[g]

\* Between system calls the recorded owner of a page is the process that mapped
\* it, unless a late munmap of another process has erased it.
OwnerExact ==
    \A g \in Pages :
        (\A p \in Procs : g \notin call[p].old \cup call[p].new) =>
            pid[g] = owner[g] \/ g \in erased

\* "The unmap operation is not expected to fail": a process that exits can unmap
\* every run of pages recorded as its own in one piece, because areas that touch
\* have always been merged.
ReleaseSucceeds ==
    \A p \in Procs : call[p] = Idle =>
        \A r \in OwnedRuns(p) : \E v \in vads : v[1] <= r[1] /\ r[2] <= v[2]

\* The list of areas is sane, exact and merged (Sane, VadsExact, ReleaseSucceeds).
AreasExact == TypeOK /\ Sane /\ VadsExact /\ ReleaseSucceeds

\* Every page has the protection, the content and the owner it should have
\* (ProtExact, ContentKept, OwnerExact).
PagesExact == ProtExact /\ ContentKept /\ OwnerExact
=============================================================================
