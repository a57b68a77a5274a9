-------------------------------- MODULE Ids --------------------------------
(***************************************************************************)
(* The user and group ids of a thread, the calls that change them, and     *)
(* the owner and mode of a file that depend on them (kernel/uid_gid.c,     *)
(* kernel/chown.c, the chmod calls of kernel/syscall.c, and _chown and     *)
(* _chmod of ramfs and ext2).  One thread is followed; fork and clone go   *)
(* on with the child.  0 is root.  The file is in ramfs or in ext2; ext2   *)
(* keeps a group id in two halves and compares the low half only (Low).    *)
(* The list of supplementary groups is an array and a count, which         *)
(* setgroups sets apart from each other.                                   *)
(***************************************************************************)
EXTENDS Integers, FiniteSets

CONSTANTS
    Users,       \* the ids of /etc/passwd, without 0
    Groups,      \* the ids of /etc/group, without 0
    Bad,         \* an id they do not know
    Low,         \* the low half of a group id
    MaxGroups,   \* NGROUPS_MAX, here a small number
    MaxCalls

Keep == -1       \* (uid_t)-1: this id stays as it is
Ids == {0, Bad} \cup Users \cup Groups
Bits == {"suid", "sgid", "xusr", "xgrp"}

VARIABLES
    u,           \* uid, euid, savuid and fsuid of the thread
    g,           \* gid, egid, savgid and fsgid
    supgid,      \* the array of supplementary groups
    num,         \* num_supgid
    processUid,  \* process_uid, which waitid reports
    isMain,      \* the thread is the first of its process
    file,        \* owner, group, mode bits and file system of the file
    born,        \* forks and clones so far
    ret,         \* what the last call returned
    calls

idVars == <<u, g, supgid, num, processUid, isMain, born>>
vars == <<idVars, file, ret, calls>>

\* the supplementary groups that count
sup == {supgid[i] : i \in 1..num}
NoGroups == [i \in 1..MaxGroups |-> 0]

AllOf(i) == [r |-> i, e |-> i, s |-> i, fs |-> i]

\* enter.c: MYST_DEFAULT_UID and GID are 0; savuid and fsuid are 0 by calloc
Init ==
    /\ u = AllOf(0) /\ g = AllOf(0) /\ supgid = NoGroups /\ num = 0 /\ processUid = 0
    /\ isMain = TRUE /\ born = 0
    /\ file \in [uid : {0}, gid : {0}, mode : {{}, {"suid", "sgid", "xusr", "xgrp"}},
                 fs : {"ramfs", "ext2"}]
    /\ ret = "ok" /\ calls = 0

\* myst_valid_uid_against_passwd_file and myst_valid_gid_against_group_file, which
\* read the file as root and know 0 without it
ValidUids == {0} \cup Users
ValidGids == {0} \cup Groups

\* the set of ids before a call, in a record of real, effective and saved id
Known(x) == {x.r, x.e, x.s}

Given(new, old) == IF new = Keep THEN old ELSE new

\* the end of a call
Answer(r) == ret' = r /\ calls' = calls + 1

\* process_uid follows an assignment to the real uid of the first thread
SetUids(x, assigned) ==
    /\ u' = x
    /\ processUid' = IF assigned /\ isMain THEN x.r ELSE processUid
    /\ UNCHANGED <<g, supgid, num, isMain, file, born>>
SetGids(x) == g' = x /\ UNCHANGED <<u, supgid, num, processUid, isMain, file, born>>

-----------------------------------------------------------------------------
\* the ids after setuid, and after setgid with the privilege of its own effective id
AfterSet(x, id, valid) ==
    CASE id \notin valid -> [x |-> x, ret |-> "EINVAL"]
      [] id \in valid /\ x.e = 0 -> [x |-> AllOf(id), ret |-> "ok"]
      [] id \in valid /\ x.e # 0 /\ id \notin {x.r, x.s} -> [x |-> x, ret |-> "EPERM"]
      [] OTHER -> [x |-> [x EXCEPT !.e = id, !.fs = id], ret |-> "ok"]

Setuid(id) ==
    LET a == AfterSet(u, id, ValidUids) IN Answer(a.ret) /\ SetUids(a.x, a.ret = "ok" /\ u.e = 0)
Setgid(id) == LET a == AfterSet(g, id, ValidGids) IN Answer(a.ret) /\ SetGids(a.x)

\* the ids a new real and a new effective id may take without privilege; setregid
\* compares the new real gid with the effective uid instead of the effective gid
MayRe(x, r, e, effective) ==
    \/ x.r = e /\ x.e = r
    \/ r \in {Keep, effective, x.s} /\ e \in {Keep, x.r, x.s}

\* mutant: the saved id follows although the call failed
AfterReKeepsSaved(x, r, e, effective, valid) ==
    LET sav == IF e # Keep /\ (r # Keep \/ x.r # e) THEN e ELSE x.s
        nothing == (r = Keep /\ e = Keep) \/ (r = x.r /\ e = x.e)
        ok == nothing \/ ({r, e} \subseteq valid \cup {Keep}
                            /\ (u.e = 0 \/ MayRe(x, r, e, effective)))
    IN  [x |-> IF ok /\ ~nothing THEN [x EXCEPT !.r = Given(r, @), !.e = Given(e, @), !.s = sav]
               ELSE [x EXCEPT !.s = sav],
         ret |-> IF ok THEN "ok" ELSE "EPERM"]

\* setreuid and setregid; the saved id follows every call that succeeds, the file
\* system id none
AfterRe(x, r, e, effective, valid) ==
    LET sav == IF e # Keep /\ (r # Keep \/ x.r # e) THEN e ELSE x.s
        nothing == (r = Keep /\ e = Keep) \/ (r = x.r /\ e = x.e)
        ok == nothing \/ ({r, e} \subseteq valid \cup {Keep}
                            /\ (u.e = 0 \/ MayRe(x, r, e, effective)))
    IN  [x |-> IF ok /\ ~nothing THEN [x EXCEPT !.r = Given(r, @), !.e = Given(e, @), !.s = sav]
               ELSE IF ok THEN [x EXCEPT !.s = sav] ELSE x,
         ret |-> IF ok THEN "ok" ELSE "EPERM"]

Setreuid(r, e) ==
    LET a == AfterRe(u, r, e, u.e, ValidUids)
    IN  Answer(a.ret) /\ SetUids(a.x, a.ret = "ok" /\ r # Keep /\ <<r, e>> # <<u.r, u.e>>)
Setregid(r, e) == LET a == AfterRe(g, r, e, u.e, ValidGids) IN Answer(a.ret) /\ SetGids(a.x)

\* mutant: any of the three ids may become any of the three, and the real id too may
\* be new
MayResAny(x, r, e, s) == {e, s} \subseteq {Keep} \cup Known(x)

\* the ids that setresuid and setresgid may choose without privilege
MayRes(x, r, e, s) ==
    r \in {Keep, x.e, x.s} /\ e \in {Keep, x.r, x.s} /\ s \in {Keep, x.r, x.e}

\* setresuid and setresgid: the file system id follows the effective id
AfterRes(x, r, e, s, valid) ==
    CASE ~({r, e, s} \subseteq valid \cup {Keep}) -> [x |-> x, ret |-> "EINVAL"]
      [] {r, e, s} \subseteq valid \cup {Keep} /\ (u.e = 0 \/ MayRes(x, r, e, s)) ->
            [x |-> [r |-> Given(r, x.r), e |-> Given(e, x.e), s |-> Given(s, x.s),
                    fs |-> Given(e, x.fs)], ret |-> "ok"]
      [] OTHER -> [x |-> x, ret |-> "EPERM"]

Setresuid(r, e, s) ==
    LET a == AfterRes(u, r, e, s, ValidUids) IN Answer(a.ret) /\ SetUids(a.x, a.ret = "ok" /\ r # Keep)
Setresgid(r, e, s) == LET a == AfterRes(g, r, e, s, ValidGids) IN Answer(a.ret) /\ SetGids(a.x)

\* setfsuid and setfsgid, which return the old id, changed or not
AfterFs(x, id, valid) ==
    IF id \in valid /\ (u.e = 0 \/ id \in Known(x)) THEN [x EXCEPT !.fs = id] ELSE x
Setfsuid(id) == Answer("ok") /\ SetUids(AfterFs(u, id, ValidUids), FALSE)
Setfsgid(id) == Answer("ok") /\ SetGids(AfterFs(g, id, ValidGids))

\* setgroups: the ids are not looked at; without a list (NULL) only the count changes,
\* and counts what the array has from before
Null == <<>>
Setgroups(size, list) ==
    LET ok == size <= MaxGroups /\ u.e = 0
    IN  /\ Answer(IF size > MaxGroups THEN "EINVAL" ELSE IF ok THEN "ok" ELSE "EPERM")
        /\ num' = IF ok THEN size ELSE num
        /\ supgid' = IF ok /\ list # Null
                     THEN [i \in 1..MaxGroups |-> IF i <= size THEN list[i] ELSE supgid[i]]
                     ELSE supgid
        /\ UNCHANGED <<u, g, processUid, isMain, file, born>>

-----------------------------------------------------------------------------
\* the fork half of clone: the saved uid of the child is the saved gid of the
\* parent.  Of the supplementary groups as many bytes are copied as there are groups, into
\* zeros: of four bytes each, the first gid keeps its low ones.  process_uid stays zero.
BytesCopied(i) == LET n == num - 4 * (i - 1) IN IF n < 0 THEN 0 ELSE IF n > 4 THEN 4 ELSE n
Fork ==
    /\ Answer("ok")
    /\ u' = [u EXCEPT !.s = g.s]
    /\ supgid' = [i \in 1..MaxGroups |-> supgid[i] % (256 ^ BytesCopied(i))]
    /\ processUid' = 0
    /\ isMain' = TRUE
    /\ born' = born + 1
    /\ UNCHANGED <<g, num, file>>

\* the thread half of clone: the new thread has the zeros of calloc
Clone ==
    /\ Answer("ok")
    /\ u' = AllOf(0) /\ g' = AllOf(0) /\ supgid' = NoGroups /\ num' = 0
    /\ isMain' = FALSE
    /\ born' = born + 1
    /\ UNCHANGED <<processUid, file>>

-----------------------------------------------------------------------------
\* check_thread_group_membership
Member(group) == group = g.e \/ group \in sup

\* what an unprivileged owner may do (_non_root_chown_checks)
MayChown(owner, group) ==
    file.uid = u.e /\ owner \in {Keep, file.uid} /\ (group = Keep \/ Member(group))

\* mutant: the bits stay
ModeKept(mode) == mode

\* the set-user-ID and set-group-ID bits of an executable after _chown
ModeAfterChown(mode) ==
    IF mode \cap {"xusr", "xgrp"} = {} THEN mode
    ELSE mode \ (IF "xgrp" \in mode THEN {"suid", "sgid"} ELSE {"suid"})

\* chown: ids that are not known make an unprivileged call return EINVAL, after it
\* has gone its way
Chown(owner, group) ==
    LET allowed == u.e = 0 \/ MayChown(owner, group)
        unknown == u.e # 0 /\ (owner \notin ValidUids \cup {Keep} \/ group \notin ValidGids \cup {Keep})
    IN  /\ Answer(IF ~allowed THEN "EPERM" ELSE IF unknown THEN "EINVAL" ELSE "ok")
        /\ file' = IF allowed THEN [file EXCEPT !.uid = Given(owner, @), !.gid = Given(group, @),
                                                !.mode = ModeAfterChown(@)]
                   ELSE file
        /\ UNCHANGED idVars

\* the same for a descriptor, for the name itself and for a name in a directory, which
\* is one of the three
Fchown(owner, group) == Chown(owner, group)
Lchown(owner, group) == Chown(owner, group)
Fchownat(owner, group) == Fchown(owner, group) \/ Lchown(owner, group) \/ Chown(owner, group)

\* the group that _chmod compares: ext2 has the low half at hand
ShownGid == IF file.fs = "ext2" THEN Low[file.gid] ELSE file.gid

\* mutant: the set-group-ID bit is the owner's to set
SgidKept(mode) == mode

\* the set-group-ID bit is dropped unless root or a member of the group sets it
ModeAllowed(mode) ==
    IF u.e # 0 /\ ~Member(ShownGid) THEN mode \ {"sgid"} ELSE mode

\* chmod
Chmod(mode) ==
    LET allowed == u.e = 0 \/ file.uid = u.e
    IN  /\ Answer(IF allowed THEN "ok" ELSE "EPERM")
        /\ file' = IF allowed THEN [file EXCEPT !.mode = ModeAllowed(mode)] ELSE file
        /\ UNCHANGED idVars

\* the same for a descriptor of a file, and for a name in a directory
Fchmod(mode) == Chmod(mode)
Fchmodat(mode) == Chmod(mode)

-----------------------------------------------------------------------------
Next ==
    /\ calls < MaxCalls
    /\ \/ \E id \in Ids : Setuid(id) \/ Setgid(id) \/ Setfsuid(id) \/ Setfsgid(id)
       \/ \E r \in Ids \cup {Keep}, e \in (Ids \ {Bad}) \cup {Keep} :
             Setreuid(r, e) \/ Setregid(r, e) \/ Fchownat(e, r)
       \/ \E r, e, s \in {0, Keep} \cup (Users \cap Groups) :
             Setresuid(r, e, s) \/ Setresgid(r, e, s)
       \/ \E size \in 0..(MaxGroups + 1) :
             Setgroups(size, Null) \/ Setgroups(size, [i \in 1..size |-> Bad])
       \/ \E mode \in {{"xusr"}, {"suid", "sgid", "xgrp"}} : Fchmod(mode) \/ Fchmodat(mode)
       \/ Fork \/ Clone

Spec == Init /\ [][Next]_vars

-----------------------------------------------------------------------------
(***************************************************************************)
(* Properties                                                              *)
(***************************************************************************)
\* The types of the variables: every id of a thread is one that its file knows, but
\* for the saved uid of a thread that was forked.
TypeOK ==
    /\ u \in [r : ValidUids, e : ValidUids, s : Ids \ {Bad}, fs : ValidUids]
    /\ u.s \in ValidUids \/ born > 0
    /\ g \in [r : ValidGids, e : ValidGids, s : ValidGids, fs : ValidGids]
    /\ \A i \in 1..MaxGroups : supgid[i] \in Ids \cup {id % 256 : id \in Ids}
    /\ num \in 0..MaxGroups /\ processUid \in ValidUids /\ isMain \in BOOLEAN
    /\ file \in [uid : Ids, gid : Ids, mode : SUBSET Bits, fs : {"ramfs", "ext2"}]

\* A thread that is not root cannot come by an id it did not have: its uids and gids
\* stay among its real, effective and saved ones, its groups stay as they are; only
\* setregid lets it have its effective uid as a gid, and being forked or cloned
\* gives it others.
Confined ==
    (u.e # 0 /\ born' = born) =>
        /\ Known(u') \subseteq Known(u) /\ u'.fs \in Known(u) \cup {u.fs}
        /\ g.e # 0 => /\ Known(g') \subseteq Known(g) \cup {u.e}
                      /\ g'.fs \in Known(g) \cup {g.fs}
        /\ sup' = sup

\* A call that fails changes nothing; an unprivileged chown to a group of its own
\* that the group file does not know is the exception.
FailureKeeps ==
    ret' \in {"EPERM", "EINVAL"} =>
        <<u, g, supgid, num, processUid, file>>' = <<u, g, supgid, num, processUid, file>>
        \/ (u.e # 0 /\ ret' = "EINVAL" /\ file'.gid \notin ValidGids)

\* The process reports the real uid of its first thread, or 0 after a fork until the
\* uid is set again.
ReportsUid == isMain => processUid = u.r \/ (born > 0 /\ processUid = 0)

\* An executable that gets another owner or group does not keep its set-user-ID bit,
\* and a thread that is not root gives the set-group-ID bit only to a file of its
\* groups, as far as ext2 tells the groups apart.
BitsSafe ==
    /\ (<<file.uid, file.gid>>' # <<file.uid, file.gid>> /\ "suid" \in file'.mode) =>
           file'.mode \cap {"xusr", "xgrp"} = {}
    /\ (u.e # 0 /\ "sgid" \in file'.mode \ file.mode) =>
           file.gid \in sup \cup {g.e}
           \/ (file.fs = "ext2" /\ Low[file.gid] # file.gid)

\* All of the above, in every step.
IdsStep == Confined /\ FailureKeeps /\ BitsSafe /\ TypeOK' /\ ReportsUid'
IdsExact == [][IdsStep]_vars
=============================================================================
