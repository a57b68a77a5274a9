------------------------------ MODULE Inotify ------------------------------
(***************************************************************************)
(* Watches of inotify (kernel/inotifydev.c).  Watch descriptors come from  *)
(* one bitmap for all instances; an instance keeps a list of watches, each *)
(* with the normalised form of its path.  Nothing is ever reported: read   *)
(* returns no bytes.                                                       *)
(***************************************************************************)
EXTENDS Integers, Sequences, FiniteSets

CONSTANTS
    Threads,
    Instances,
    Paths,          \* what callers pass
    Normal,         \* the normalised form of each
    NumWds,
    MaxCalls

VARIABLES
    life,           \* of each instance: "none", "open" or "closed"
    watches,        \* its watches: the path and the watch descriptor
    wds,            \* _wds: the watch descriptors that are taken
    pc, op,         \* the call of each thread
    ret,            \* what its last call returned: a descriptor, -1 if it failed
    calls,
    leaked,         \* ghost: descriptors of instances that were closed
    twice           \* ghost: instances for which a path was given in another form
                    \* or by two threads at once

vars == <<life, watches, wds, pc, op, ret, calls, leaked, twice>>

NoOp == [i |-> "none", path |-> "none", wd |-> 0]

Init ==
    /\ life = [i \in Instances |-> "none"]
    /\ watches = [i \in Instances |-> <<>>]
    /\ wds = {}
    /\ pc = [t \in Threads |-> "idle"]
    /\ op = [t \in Threads |-> NoOp]
    /\ ret = [t \in Threads |-> 0]
    /\ calls = 0
    /\ leaked = {}
    /\ twice = {}

Goto(t, l) == pc' = [pc EXCEPT ![t] = l]
Begin == calls < MaxCalls /\ calls' = calls + 1
Return(t, r) ==
    /\ ret' = [ret EXCEPT ![t] = r]
    /\ op' = [op EXCEPT ![t] = NoOp]
    /\ Goto(t, "idle")

WdsOf(i) == {watches[i][k].wd : k \in DOMAIN watches[i]}
Least(S) == CHOOSE n \in S : \A m \in S : n <= m

\* _id_inotify_init1
InotifyInit(i) ==
    /\ Begin /\ life[i] = "none"
    /\ life' = [life EXCEPT ![i] = "open"]
    /\ UNCHANGED <<watches, wds, pc, op, ret, leaked, twice>>

\* _id_inotify_add_watch: the list is searched for the path as it was given, under
\* the lock of the instance
AddSearch(t, i, p) ==
    /\ Begin /\ pc[t] = "idle" /\ life[i] = "open"
    /\ \E found \in {{k \in DOMAIN watches[i] : watches[i][k].path = p}} :
          IF found # {} THEN Return(t, watches[i][Least(found)].wd)
          ELSE /\ op' = [op EXCEPT ![t] = [NoOp EXCEPT !.i = i, !.path = p]]
               /\ Goto(t, "get")
               /\ UNCHANGED ret
    /\ twice' = IF Normal[p] # p \/ \E u \in Threads : pc[u] \in {"get", "add"} /\ op[u].i = i
                THEN twice \cup {i} ELSE twice
    /\ UNCHANGED <<life, watches, wds, leaked>>

Free == 0..(NumWds - 1) \ wds

\* _get_wd, the first that is free
AddGet(t) ==
    /\ pc[t] = "get"
    /\ IF Free = {} THEN Return(t, -1) /\ UNCHANGED wds
       ELSE /\ wds' = wds \cup {Least(Free)}
            /\ op' = [op EXCEPT ![t].wd = Least(Free)]
            /\ Goto(t, "add")
            /\ UNCHANGED ret
    /\ UNCHANGED <<life, watches, calls, leaked, twice>>

\* mutant: the path is stored as it was given
AddAsGiven(t) ==
    /\ pc[t] = "add"
    /\ watches' = [watches EXCEPT ![op[t].i] =
                      Append(@, [path |-> op[t].path, wd |-> op[t].wd])]
    /\ Return(t, op[t].wd)
    /\ UNCHANGED <<life, wds, calls, leaked, twice>>

\* the new watch is appended under the lock, which was free in between; on an instance
\* that was closed meanwhile, in free memory, where nobody finds it
AddAppend(t) ==
    /\ pc[t] = "add"
    /\ IF life[op[t].i] = "open"
         THEN /\ watches' = [watches EXCEPT ![op[t].i] =
                                Append(@, [path |-> Normal[op[t].path], wd |-> op[t].wd])]
              /\ UNCHANGED leaked
         ELSE leaked' = leaked \cup {op[t].wd} /\ UNCHANGED watches
    /\ Return(t, op[t].wd)
    /\ UNCHANGED <<life, wds, calls, twice>>

Without(s, k) == SubSeq(s, 1, k - 1) \o SubSeq(s, k + 1, Len(s))

\* mutant: the watch stays on the list
RmKeeps(t, i, wd) ==
    /\ Begin /\ pc[t] = "idle" /\ life[i] = "open"
    /\ IF wd \notin WdsOf(i) THEN Return(t, -1) /\ UNCHANGED watches
       ELSE /\ UNCHANGED watches
            /\ op' = [op EXCEPT ![t] = [NoOp EXCEPT !.i = i, !.wd = wd]]
            /\ Goto(t, "put")
            /\ UNCHANGED ret
    /\ UNCHANGED <<life, wds, leaked, twice>>

\* _id_inotify_rm_watch: the watch is unlinked under the lock
RmUnlink(t, i, wd) ==
    /\ Begin /\ pc[t] = "idle" /\ life[i] = "open"
    /\ IF wd \notin WdsOf(i) THEN Return(t, -1) /\ UNCHANGED watches
       ELSE /\ \E k \in {Least({m \in DOMAIN watches[i] : watches[i][m].wd = wd})} :
                  watches' = [watches EXCEPT ![i] = Without(@, k)]
            /\ op' = [op EXCEPT ![t] = [NoOp EXCEPT !.i = i, !.wd = wd]]
            /\ Goto(t, "put")
            /\ UNCHANGED ret
    /\ UNCHANGED <<life, wds, leaked, twice>>

\* _put_wd, EINVAL if the bit is not set
RmPut(t) ==
    /\ pc[t] = "put"
    /\ wds' = wds \ {op[t].wd}
    /\ Return(t, IF op[t].wd \in wds THEN 0 ELSE -1)
    /\ UNCHANGED <<life, watches, calls, leaked, twice>>

\* _id_close frees the instance, neither its watches nor their descriptors, and does not
\* wait for calls on it
Close(i) ==
    /\ life[i] = "open"
    /\ life' = [life EXCEPT ![i] = "closed"]
    /\ leaked' = leaked \cup WdsOf(i)
    /\ watches' = [watches EXCEPT ![i] = <<>>]
    /\ UNCHANGED <<wds, pc, op, ret, calls, twice>>

Next ==
    \/ \E i \in Instances : InotifyInit(i) \/ Close(i)
    \/ \E t \in Threads :
          \/ AddGet(t) \/ AddAppend(t) \/ RmPut(t)
          \/ \E i \in Instances, p \in Paths : AddSearch(t, i, p)
          \/ \E i \in Instances, wd \in 0..(NumWds - 1) : RmUnlink(t, i, wd)

Spec == Init /\ [][Next]_vars

-----------------------------------------------------------------------------
(***************************************************************************)
(* Properties                                                              *)
(***************************************************************************)
\* The types of the variables.
TypeOK ==
    /\ life \in [Instances -> {"none", "open", "closed"}]
    /\ \A i \in Instances : WdsOf(i) \subseteq 0..(NumWds - 1)
    /\ wds \subseteq 0..(NumWds - 1)

Held(t) == IF pc[t] \in {"add", "put"} THEN {op[t].wd} ELSE {}

\* A watch descriptor that is taken belongs to one watch of one instance, to one call
\* that is putting it on a list or has just taken it off, or to an instance that was
\* closed and never gave it back; no other is taken.
DescriptorsOwned ==
    /\ wds = leaked \cup UNION {WdsOf(i) : i \in Instances} \cup UNION {Held(t) : t \in Threads}
    /\ \A i \in Instances : Cardinality(WdsOf(i)) = Len(watches[i]) /\ WdsOf(i) \cap leaked = {}
    /\ \A i, j \in Instances : i # j => WdsOf(i) \cap WdsOf(j) = {}
    /\ \A t \in Threads : \A i \in Instances : Held(t) \cap (WdsOf(i) \cup leaked) = {}
    /\ \A t, u \in Threads : t # u => Held(t) \cap Held(u) = {}

\* An instance has one watch for a path, as long as its callers give normalised paths
\* and one thread at a time adds.
OneWatchPerPath ==
    \A i \in Instances \ twice : \A k, m \in DOMAIN watches[i] :
        watches[i][k].path = watches[i][m].path => k = m

\* Every path on a list is normalised.
PathsNormal ==
    \A i \in Instances : \A k \in DOMAIN watches[i] :
        \E p \in Paths : watches[i][k].path = Normal[p]

\* All of the above.
InotifyExact == TypeOK /\ DescriptorsOwned /\ OneWatchPerPath /\ PathsNormal
=============================================================================
