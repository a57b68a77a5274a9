----------------------------- MODULE MCObjects -----------------------------
(* What a process holds and what serves it: Unix domain sockets (Uds, extended *)
(* here, and UdsListen) and the host's (HostSock), ids and permissions (Ids)   *)
(* and the attributes of files (Attributes), offsets and the copying calls     *)
(* (FileIo) and mapped files (FileMap), path names and mounts (Names), epoll   *)
(* and event counters (Epoll), inotify (Inotify), poll and select (Poll), the  *)
(* interval timer (Itimer), and below the file systems their lock (Lockfs),    *)
(* block devices (BlockDev), directory streams (DirStream) and the directories *)
(* of the host (HostFs).  A behaviour is one of one component; running says    *)
(* which.                                                                      *)
EXTENDS Uds, TLC

CONSTANTS end1, end2, t1, t2, t3

VARIABLE running

\* the variables of UdsListen, Ids, FileIo, Names, Epoll, Inotify, Poll, Itimer, HostSock, Lockfs, BlockDev, DirStream, HostFs, Attributes and FileMap
VARIABLES
    l_life, l_bound, l_slot, l_peer, l_files, l_acc, l_num, l_pc, l_at, l_conn,
    l_calls, l_asked, l_failed, l_shifted,
    i_u, i_g, i_supgid, i_num, i_processUid, i_isMain, i_file, i_born, i_ret, i_calls,
    o_fs, o_data, o_off, o_seen, o_flags, o_job, o_sent, o_calls,
    n_tree, n_table, n_life, n_cwd, n_fd, n_mlock, n_clock, n_call, n_moves, n_hurt,
    n_ops,
    p_obj, p_count, p_open, p_num, p_watched, p_pc, p_op, p_got, p_calls, p_drift,
    w_life, w_watches, w_wds, w_pc, w_op, w_ret, w_calls, w_leaked, w_twice,
    v_open, v_ready, v_signal, v_sending, v_woken, v_now, v_pc, v_call, v_internal, v_target,
    v_timeout, v_lapsed, v_start, v_deadline, v_revents, v_sets, v_ret, v_changes,
    t_requested, t_allocated, t_initialized, t_value, t_interval, t_start, t_queued,
    t_timer, t_call, t_now, t_calls, t_interrupts, t_due, t_skew, t_alarms, t_told,
    h_desc, h_fds, h_sock, h_pc, h_op, h_res, h_pending, h_bounds,
    k_owner, k_refs, k_stack, k_phase, k_call, k_mask, k_home, k_via, k_calls,
    b_dev, b_luks, b_mode, b_disk, b_tree, b_written, b_recent, b_ahead, b_cache,
    b_chains, b_lru, b_dirty, b_last, b_lost, b_res, b_ops, b_faults,
    d_fs, d_ents, d_doff, d_str, d_last, d_calls, d_moved,
    g_names, g_object, g_hostFd, g_file, g_res, g_calls, g_opened, g_said, g_moved,
    g_leaked,
    a_fs, a_member, a_inode, a_fd, a_open, a_path, a_res, a_now, a_calls, a_said,
    a_odd,
    m_owner, m_prot, m_cell, m_map, m_fdt, m_size, m_data, m_closing, m_ret,
    m_calls, m_truth, m_excused

lvars == <<l_life, l_bound, l_slot, l_peer, l_files, l_acc, l_num, l_pc, l_at,
    l_conn, l_calls, l_asked, l_failed, l_shifted>>
ivars == <<i_u, i_g, i_supgid, i_num, i_processUid, i_isMain, i_file, i_born, i_ret, i_calls>>
ovars == <<o_fs, o_data, o_off, o_seen, o_flags, o_job, o_sent, o_calls>>
nvars == <<n_tree, n_table, n_life, n_cwd, n_fd, n_mlock, n_clock, n_call, n_moves,
    n_hurt, n_ops>>
pvars == <<p_obj, p_count, p_open, p_num, p_watched, p_pc, p_op, p_got, p_calls,
    p_drift>>
wvars == <<w_life, w_watches, w_wds, w_pc, w_op, w_ret, w_calls, w_leaked, w_twice>>
vvars == <<v_open, v_ready, v_signal, v_sending, v_woken, v_now, v_pc, v_call, v_internal,
    v_target, v_timeout, v_lapsed, v_start, v_deadline, v_revents, v_sets, v_ret,
    v_changes>>
tvars == <<t_requested, t_allocated, t_initialized, t_value, t_interval, t_start,
    t_queued, t_timer, t_call, t_now, t_calls, t_interrupts, t_due, t_skew,
    t_alarms, t_told>>
hvars == <<h_desc, h_fds, h_sock, h_pc, h_op, h_res, h_pending, h_bounds>>
kvars == <<k_owner, k_refs, k_stack, k_phase, k_call, k_mask, k_home, k_via,
    k_calls>>
bvars == <<b_dev, b_luks, b_mode, b_disk, b_tree, b_written, b_recent, b_ahead,
    b_cache, b_chains, b_lru, b_dirty, b_last, b_lost, b_res, b_ops, b_faults>>
dvars == <<d_fs, d_ents, d_doff, d_str, d_last, d_calls, d_moved>>
gvars == <<g_names, g_object, g_hostFd, g_file, g_res, g_calls, g_opened, g_said,
    g_moved, g_leaked>>
avars == <<a_fs, a_member, a_inode, a_fd, a_open, a_path, a_res, a_now, a_calls,
    a_said, a_odd>>
mvars == <<m_owner, m_prot, m_cell, m_map, m_fdt, m_size, m_data, m_closing, m_ret,
    m_calls, m_truth, m_excused>>

MCEnd == (t1 :> end1) @@ (t2 :> end2) @@ (t3 :> end2)
MCCalls == (t1 :> {"send"}) @@ (t2 :> {"recv"}) @@ (t3 :> {"send"})

In(abs, toks, slash) == [abs |-> abs, toks |-> toks, slash |-> slash]

\* four sockets and one name of each kind
L == INSTANCE UdsListen WITH
        life <- l_life, bound <- l_bound, slot <- l_slot, peer <- l_peer,
        files <- l_files, acc <- l_acc, num <- l_num, pc <- l_pc, at <- l_at,
        conn <- l_conn, calls <- l_calls, asked <- l_asked, failed <- l_failed,
        shifted <- l_shifted,
        Socks <- 1..4, Paths <- {"path"}, Abstract <- {"name"},
        NoName <- "none", NoSock <- 0, MaxAcceptors <- 2, MaxCalls <- 9

\* a user, two groups and root, and an id that is nobody's; two of them share a low half
I == INSTANCE Ids WITH
        u <- i_u, g <- i_g, supgid <- i_supgid, num <- i_num, processUid <- i_processUid,
        isMain <- i_isMain, file <- i_file, born <- i_born, ret <- i_ret,
        calls <- i_calls,
        Users <- {1}, Groups <- {1, 3}, Bad <- 259, MaxGroups <- 2,
        Low <- [n \in {0, 1, 3, 259} |-> n % 2], MaxCalls <- 3

\* two files, the second open twice
O == INSTANCE FileIo WITH
        fs <- o_fs, data <- o_data, off <- o_off, seen <- o_seen, flags <- o_flags,
        job <- o_job, sent <- o_sent, calls <- o_calls,
        Handles <- {1, 2, 3}, FileOf <- <<1, 2, 2>>, Start <- <<<<1, 2, 3>>, <<4>>>>,
        Source <- 1, Sink <- 2, Stream <- 0, Readers <- {1}, Writers <- {3},
        Chunk <- 2, MaxSize <- 5, MaxCalls <- 2

\* two file systems to mount, over a root with /a and /a/b
N == INSTANCE Names WITH
        tree <- n_tree, table <- n_table, life <- n_life, cwd <- n_cwd, fd <- n_fd,
        mlock <- n_mlock, clock <- n_clock, call <- n_call, moves <- n_moves,
        hurt <- n_hurt, ops <- n_ops,
        Threads <- {"t1", "t2"}, NoThread <- "none", Callers <- {"t1"}, Mounters <- {"t2"},
        Fss <- {"root", "m", "n"}, Root <- "root",
        Inputs <- {In(TRUE, <<"a">>, FALSE), In(TRUE, <<"a", "b">>, FALSE),
                   In(TRUE, <<"a">>, TRUE), In(FALSE, <<"a", "..", "b">>, FALSE)},
        Tree0 <- [f \in {"root", "m", "n"} |->
                     IF f = "root" THEN {<<>>, <<"a">>, <<"a", "b">>} ELSE {<<>>, <<"b">>}],
        TableSize <- 3, MaxOps <- 3

\* two counters, an epoll descriptor and its duplicate
P == INSTANCE Epoll WITH
        obj <- p_obj, count <- p_count, open <- p_open, num <- p_num,
        watched <- p_watched, pc <- p_pc, op <- p_op, got <- p_got, calls <- p_calls,
        drift <- p_drift,
        Threads <- {"t1", "t2"}, Fds <- {1, 2}, Objects <- {1, 2}, Handles <- {"h", "k"},
        First <- "h", Nothing <- 0, LocalSize <- 2, IntMax <- 2, Maxevents <- {1, 3},
        MaxCount <- 1, MaxCalls <- 4

\* two instances and two directories, one of them under two names
W == INSTANCE Inotify WITH
        life <- w_life, watches <- w_watches, wds <- w_wds, pc <- w_pc, op <- w_op,
        ret <- w_ret, calls <- w_calls, leaked <- w_leaked, twice <- w_twice,
        Threads <- {"t1", "t2"}, Instances <- {"i", "j"}, Paths <- {"/a", "/b", "/b/."},
        Normal <- [p \in {"/a", "/b", "/b/."} |-> IF p = "/b/." THEN "/b" ELSE p],
        NumWds <- 3, MaxCalls <- 6

\* a host descriptor, standard output and one without events of its own
V == INSTANCE Poll WITH
        open <- v_open, ready <- v_ready, signal <- v_signal, sending <- v_sending,
        woken <- v_woken, now <- v_now, pc <- v_pc, call <- v_call, internal <- v_internal,
        target <- v_target, timeout <- v_timeout, lapsed <- v_lapsed, start <- v_start,
        deadline <- v_deadline, revents <- v_revents, sets <- v_sets, ret <- v_ret,
        changes <- v_changes,
        Fds <- {1, 2, 3}, Kind <- <<"host", "out", "mute">>,
        Offers <- {{}, {"in", "out"}, {"hup"}, {"out", "err"}},
        Asked <- {1 :> {"in"}, (1 :> {"out"}) @@ (2 :> {"in"}),
                  (1 :> {"in", "out"}) @@ (2 :> {"out"}) @@ (3 :> {"in"})},
        Masks <- {<<{1}, {}, {}>>, <<{1}, {1, 2}, {}>>, <<{2}, {1}, {1}>>},
        Timeouts <- {-1, 0, 1, 3}, Cap <- 2, MaxTime <- 6, MaxChanges <- 3

\* two threads that set the timer of their process
T == INSTANCE Itimer WITH
        requested <- t_requested, allocated <- t_allocated,
        initialized <- t_initialized, value <- t_value, interval <- t_interval,
        start <- t_start, queued <- t_queued, timer <- t_timer, call <- t_call,
        now <- t_now, calls <- t_calls, interrupts <- t_interrupts, due <- t_due,
        skew <- t_skew, alarms <- t_alarms, told <- t_told,
        Callers <- {"t1", "t2"}, Values <- {0, 2}, Intervals <- {0, 1},
        MaxTime <- 3, MaxCalls <- 3, MaxInterrupts <- 1

\* two sockets of the host, two descriptors and two threads
H == INSTANCE HostSock WITH
        desc <- h_desc, fds <- h_fds, sock <- h_sock, pc <- h_pc, op <- h_op,
        res <- h_res, pending <- h_pending, bounds <- h_bounds,
        Threads <- {"t1", "t2"}, Socks <- {1, 2}, Fds <- {1, 2}, Descs <- {1, 2},
        MaxCalls <- 3, MaxEvents <- 2, MaxSignals <- 1

\* two file systems with links into each other
K == INSTANCE Lockfs WITH
        owner <- k_owner, refs <- k_refs, stack <- k_stack, phase <- k_phase,
        call <- k_call, mask <- k_mask, home <- k_home, via <- k_via, calls <- k_calls,
        Threads <- {"t1", "t2", "t3"}, NoThread <- "none", Fss <- {"a", "b"},
        Links <- {<<"a", "b">>, <<"b", "a">>, <<"a", "a">>}, Handles <- {1, 2},
        MaxDepth <- 1, MaxCalls <- 4

\* three blocks of two sectors; caches of one to three blocks
B == INSTANCE BlockDev WITH
        dev <- b_dev, luks <- b_luks, mode <- b_mode, disk <- b_disk, tree <- b_tree,
        written <- b_written, recent <- b_recent, ahead <- b_ahead, cache <- b_cache,
        chains <- b_chains, lru <- b_lru, dirty <- b_dirty, last <- b_last,
        lost <- b_lost, res <- b_res, ops <- b_ops, faults <- b_faults,
        NumBlocks <- 3, Factor <- 2, Digests <- 2, Offset <- 1,
        Modes <- {[name |-> "xts", bits |-> 512], [name |-> "cbc", bits |-> 512]},
        MaxCache <- 3, MaxChains <- 2, LruChains <- 2, LruSize <- 1, LookaheadSize <- 2,
        QueueSize <- 1, Values <- {1, 2}, MaxOps <- 4, MaxFaults <- 1

\* two streams over a directory of three to four entries
D == INSTANCE DirStream WITH
        fs <- d_fs, ents <- d_ents, doff <- d_doff, str <- d_str, last <- d_last,
        calls <- d_calls, moved <- d_moved,
        Streams <- {1, 2}, Start <- 3, MaxEntries <- 4, MaxCalls <- 6

\* a directory of the host, with links in it and a file beside it
G == INSTANCE HostFs WITH
        names <- g_names, object <- g_object, hostFd <- g_hostFd, file <- g_file,
        res <- g_res, calls <- g_calls, opened <- g_opened, said <- g_said,
        moved <- g_moved, leaked <- g_leaked,
        Handles <- {1, 2}, Source <- <<"/s", "/m">>, Target <- <<"/t">>,
        Locals <- {<<"/a">>, <<"/d">>, <<"/d", "/a">>},
        Outside <- {<<"/s", "/m", "x">>}, Slashed <- {"/s", "/m", "/a", "/d"},
        UidMap <- <<<<0, 100>>, <<1, 2>>, <<2, 3>>, <<7, 3>>>>, Users <- {2, 7, 9},
        Links <- {[abs |-> TRUE, path |-> <<"/d">>], [abs |-> FALSE, path |-> <<"/a">>]},
        Dirs <- {<<"/d">>}, TableSize <- 1, MaxFd <- 2, MaxObject <- 4, MaxCalls <- 3

\* a file, a link to it and two open files; 7 is a time, -1 and -2 stand for none and now
A == INSTANCE Attributes WITH
        fs <- a_fs, member <- a_member, inode <- a_inode, fd <- a_fd, open <- a_open,
        path <- a_path, res <- a_res, now <- a_now, calls <- a_calls, said <- a_said,
        odd <- a_odd,
        Fds <- {1, 2}, Opens <- {1, 2}, Modes <- {{"r"}, {"x", "gx", "suid", "sgid"}},
        Times <- {<<7, -2>>, <<-1, 7>>},
        TargetSize <- 2, MaxTime <- 2, MaxCalls <- 3

\* three pages and two files
M == INSTANCE FileMap WITH
        owner <- m_owner, prot <- m_prot, cell <- m_cell, map <- m_map, fdt <- m_fdt,
        size <- m_size, data <- m_data, closing <- m_closing, ret <- m_ret,
        calls <- m_calls, truth <- m_truth, excused <- m_excused,
        NumPages <- 3, Fds <- {0, 1, 2}, Files <- {1, 2}, Checked <- {2}, Offsets <- {0, 1, 2},
        MaxCalls <- 4

\* the variables of a component while another one runs
sOff ==
    /\ buf = 0 /\ closed = 0 /\ state = 0 /\ host = 0 /\ nonblock = 0 /\ dups = 0
    /\ refs = 0 /\ freed = 0 /\ mutex = 0 /\ queue = 0 /\ pc = 0 /\ op = 0
    /\ moved = 0 /\ untold = 0 /\ bounds = 0
lOff ==
    /\ l_life = 0 /\ l_bound = 0 /\ l_slot = 0 /\ l_peer = 0 /\ l_files = 0
    /\ l_acc = 0 /\ l_num = 0 /\ l_pc = 0 /\ l_at = 0 /\ l_conn = 0
    /\ l_calls = 0 /\ l_asked = 0 /\ l_failed = 0 /\ l_shifted = 0
iOff ==
    /\ i_u = 0 /\ i_g = 0 /\ i_supgid = 0 /\ i_num = 0 /\ i_processUid = 0 /\ i_isMain = 0
    /\ i_file = 0 /\ i_born = 0 /\ i_ret = 0 /\ i_calls = 0
oOff ==
    /\ o_fs = 0 /\ o_data = 0 /\ o_off = 0 /\ o_seen = 0 /\ o_flags = 0
    /\ o_job = 0 /\ o_sent = 0 /\ o_calls = 0
nOff ==
    /\ n_tree = 0 /\ n_table = 0 /\ n_life = 0 /\ n_cwd = 0 /\ n_fd = 0
    /\ n_mlock = 0 /\ n_clock = 0 /\ n_call = 0 /\ n_moves = 0 /\ n_hurt = 0
    /\ n_ops = 0
pOff ==
    /\ p_obj = 0 /\ p_count = 0 /\ p_open = 0 /\ p_num = 0 /\ p_watched = 0
    /\ p_pc = 0 /\ p_op = 0 /\ p_got = 0 /\ p_calls = 0 /\ p_drift = 0
wOff ==
    /\ w_life = 0 /\ w_watches = 0 /\ w_wds = 0 /\ w_pc = 0 /\ w_op = 0
    /\ w_ret = 0 /\ w_calls = 0 /\ w_leaked = 0 /\ w_twice = 0
vOff ==
    /\ v_open = 0 /\ v_ready = 0 /\ v_signal = 0 /\ v_sending = 0 /\ v_woken = 0 /\ v_now = 0
    /\ v_pc = 0 /\ v_call = 0 /\ v_internal = 0 /\ v_target = 0 /\ v_timeout = 0
    /\ v_lapsed = 0 /\ v_start = 0 /\ v_deadline = 0 /\ v_revents = 0
    /\ v_sets = 0 /\ v_ret = 0 /\ v_changes = 0
tOff ==
    /\ t_requested = 0 /\ t_allocated = 0 /\ t_initialized = 0 /\ t_value = 0
    /\ t_interval = 0 /\ t_start = 0 /\ t_queued = 0 /\ t_timer = 0
    /\ t_call = 0 /\ t_now = 0 /\ t_calls = 0 /\ t_interrupts = 0 /\ t_due = 0
    /\ t_skew = 0 /\ t_alarms = 0 /\ t_told = 0
hOff ==
    /\ h_desc = 0 /\ h_fds = 0 /\ h_sock = 0 /\ h_pc = 0 /\ h_op = 0
    /\ h_res = 0 /\ h_pending = 0 /\ h_bounds = 0
kOff ==
    /\ k_owner = 0 /\ k_refs = 0 /\ k_stack = 0 /\ k_phase = 0 /\ k_call = 0
    /\ k_mask = 0 /\ k_home = 0 /\ k_via = 0 /\ k_calls = 0
bOff ==
    /\ b_dev = 0 /\ b_luks = 0 /\ b_mode = 0 /\ b_disk = 0 /\ b_tree = 0
    /\ b_written = 0 /\ b_recent = 0 /\ b_ahead = 0 /\ b_cache = 0
    /\ b_chains = 0 /\ b_lru = 0 /\ b_dirty = 0 /\ b_last = 0 /\ b_lost = 0
    /\ b_res = 0 /\ b_ops = 0 /\ b_faults = 0
dOff ==
    /\ d_fs = 0 /\ d_ents = 0 /\ d_doff = 0 /\ d_str = 0 /\ d_last = 0
    /\ d_calls = 0 /\ d_moved = 0
gOff ==
    /\ g_names = 0 /\ g_object = 0 /\ g_hostFd = 0 /\ g_file = 0 /\ g_res = 0
    /\ g_calls = 0 /\ g_opened = 0 /\ g_said = 0 /\ g_moved = 0 /\ g_leaked = 0
aOff ==
    /\ a_fs = 0 /\ a_member = 0 /\ a_inode = 0 /\ a_fd = 0 /\ a_open = 0
    /\ a_path = 0 /\ a_res = 0 /\ a_now = 0 /\ a_calls = 0 /\ a_said = 0
    /\ a_odd = 0
mOff ==
    /\ m_owner = 0 /\ m_prot = 0 /\ m_cell = 0 /\ m_map = 0 /\ m_fdt = 0
    /\ m_size = 0 /\ m_data = 0 /\ m_closing = 0 /\ m_ret = 0 /\ m_calls = 0
    /\ m_truth = 0 /\ m_excused = 0

MCInit == /\ running \in {"stream", "listen", "ids", "fileio", "names", "epoll", "inotify",
                          "poll", "itimer", "hostsock", "lockfs", "blockdev",
                          "dirstream", "hostfs", "attributes", "filemap"}
          /\ IF running = "stream" THEN Init ELSE sOff
          /\ IF running = "listen" THEN L!Init ELSE lOff
          /\ IF running = "ids" THEN I!Init ELSE iOff
          /\ IF running = "fileio" THEN O!Init ELSE oOff
          /\ IF running = "names" THEN N!Init ELSE nOff
          /\ IF running = "epoll" THEN P!Init ELSE pOff
          /\ IF running = "inotify" THEN W!Init ELSE wOff
          /\ IF running = "poll" THEN V!Init ELSE vOff
          /\ IF running = "itimer" THEN T!Init ELSE tOff
          /\ IF running = "hostsock" THEN H!Init ELSE hOff
          /\ IF running = "lockfs" THEN K!Init ELSE kOff
          /\ IF running = "blockdev" THEN B!Init ELSE bOff
          /\ IF running = "dirstream" THEN D!Init ELSE dOff
          /\ IF running = "hostfs" THEN G!Init ELSE gOff
          /\ IF running = "attributes" THEN A!Init ELSE aOff
          /\ IF running = "filemap" THEN M!Init ELSE mOff

MCNext ==
    /\ UNCHANGED running
    /\ \/ /\ running = "stream" /\ Next
          /\ UNCHANGED <<lvars, ivars, ovars, nvars, pvars, wvars, vvars, tvars, hvars, kvars, bvars, dvars, gvars, avars, mvars>>
       \/ /\ running = "listen" /\ L!Next
          /\ UNCHANGED <<vars, ivars, ovars, nvars, pvars, wvars, vvars, tvars, hvars, kvars, bvars, dvars, gvars, avars, mvars>>
       \/ /\ running = "ids" /\ I!Next
          /\ UNCHANGED <<vars, lvars, ovars, nvars, pvars, wvars, vvars, tvars, hvars, kvars, bvars, dvars, gvars, avars, mvars>>
       \/ /\ running = "fileio" /\ O!Next
          /\ UNCHANGED <<vars, lvars, ivars, nvars, pvars, wvars, vvars, tvars, hvars, kvars, bvars, dvars, gvars, avars, mvars>>
       \/ /\ running = "names" /\ N!Next
          /\ UNCHANGED <<vars, lvars, ivars, ovars, pvars, wvars, vvars, tvars, hvars, kvars, bvars, dvars, gvars, avars, mvars>>
       \/ /\ running = "epoll" /\ P!Next
          /\ UNCHANGED <<vars, lvars, ivars, ovars, nvars, wvars, vvars, tvars, hvars, kvars, bvars, dvars, gvars, avars, mvars>>
       \/ /\ running = "inotify" /\ W!Next
          /\ UNCHANGED <<vars, lvars, ivars, ovars, nvars, pvars, vvars, tvars, hvars, kvars, bvars, dvars, gvars, avars, mvars>>
       \/ /\ running = "poll" /\ V!Next
          /\ UNCHANGED <<vars, lvars, ivars, ovars, nvars, pvars, wvars, tvars, hvars, kvars, bvars, dvars, gvars, avars, mvars>>
       \/ /\ running = "itimer" /\ T!Next
          /\ UNCHANGED <<vars, lvars, ivars, ovars, nvars, pvars, wvars, vvars, hvars, kvars, bvars, dvars, gvars, avars, mvars>>
       \/ /\ running = "hostsock" /\ H!Next
          /\ UNCHANGED <<vars, lvars, ivars, ovars, nvars, pvars, wvars, vvars, tvars, kvars, bvars, dvars, gvars, avars, mvars>>
       \/ /\ running = "lockfs" /\ K!Next
          /\ UNCHANGED <<vars, lvars, ivars, ovars, nvars, pvars, wvars, vvars, tvars, hvars, bvars, dvars, gvars, avars, mvars>>
       \/ /\ running = "blockdev" /\ B!Next
          /\ UNCHANGED <<vars, lvars, ivars, ovars, nvars, pvars, wvars, vvars, tvars, hvars, kvars, dvars, gvars, avars, mvars>>
       \/ /\ running = "dirstream" /\ D!Next
          /\ UNCHANGED <<vars, lvars, ivars, ovars, nvars, pvars, wvars, vvars, tvars, hvars, kvars, bvars, gvars, avars, mvars>>
       \/ /\ running = "hostfs" /\ G!Next
          /\ UNCHANGED <<vars, lvars, ivars, ovars, nvars, pvars, wvars, vvars, tvars, hvars, kvars, bvars, dvars, avars, mvars>>
       \/ /\ running = "attributes" /\ A!Next
          /\ UNCHANGED <<vars, lvars, ivars, ovars, nvars, pvars, wvars, vvars, tvars, hvars, kvars, bvars, dvars, gvars, mvars>>
       \/ /\ running = "filemap" /\ M!Next
          /\ UNCHANGED <<vars, lvars, ivars, ovars, nvars, pvars, wvars, vvars, tvars, hvars, kvars, bvars, dvars, gvars, avars>>

MCSpec == MCInit /\ [][MCNext]_<<running, vars, lvars, ivars, ovars, nvars, pvars, wvars, vvars, tvars, hvars, kvars, bvars, dvars, gvars, avars, mvars>>

-----------------------------------------------------------------------------
\* Sockets: bytes arrive once and in order, poll shows what a call would do, a socket's
\* state is freed by the last close of either end and one-way traffic never deadlocks
\* (Uds!UdsExact); a connection is taken from the list of the name it asked for
\* (UdsListen!ListenExact); a call on a socket of the host waits in the kernel and only
\* there, and only when the socket blocks (HostSock!HostSockExact).
SocketsExact ==
    /\ running = "stream" => UdsExact
    /\ running = "listen" => L!ListenExact
    /\ running = "hostsock" => H!HostSockExact

\* Ids and attributes: a process without privilege keeps within the ids it has, a call
\* that fails changes nothing and set-id bits do not survive a change of owner
\* (Ids!IdsStep); a call changes the attributes it names, and stat and fstat agree on
\* them (Attributes!AttributesStep).
CredentialsExact ==
    [][ /\ running = "ids" => I!IdsStep
        /\ running = "attributes" => A!AttributesStep ]_<<ivars, avars>>

\* Offsets and mapped files: a copying call moves what it says, from where it said, and
\* leaves the offsets it must leave (FileIo!FileIoStep); msync writes every page to its
\* place in its file, and munmap closes the descriptors that the mapping made and no others
\* (FileMap!FileMapStep, with the mappings the code loses track of left out).
CopiesExact ==
    [][ /\ running = "fileio" => O!FileIoStep
        /\ running = "filemap" => M!FileMapStep ]_<<ovars, mvars>>

\* Path names lead to the file system and file they name (Names!NamesStep).
PathsExact == [][running = "names" => N!NamesStep]_nvars

\* epoll_wait never writes past its buffer, and takes events that its caller never gets only
\* when it counted no watched descriptor at its start; the count is right as long as the
\* epoll descriptor is not duplicated or closed under a call; watch descriptors have one
\* owner each; poll and select count what they report and time out when they should; a
\* setting of the interval timer is noticed (EpollExact, InotifyExact, PollExact and
\* ItimerExact of the modules).
EventsExact ==
    /\ running = "epoll" => P!EpollExact
    /\ running = "inotify" => W!InotifyExact
    /\ running = "poll" => V!PollExact
    /\ running = "itimer" => T!ItimerExact

\* What a call says is so: connect reports the result of its own connection
\* (HostSock!ConnectsStep), and the timer rings when its time is over, not before
\* (Itimer!ItimerStep).
AnswersTrue ==
    [][ /\ running = "hostsock" => H!ConnectsStep
        /\ running = "itimer" => T!ItimerStep ]_<<hvars, tvars>>

\* Below the file systems: one call at a time in an open file, and threads block each
\* other only over links across file systems (Lockfs!LockfsExact); a block is read as it
\* was written or an altered one refused, but a write to a block that verity evicts is
\* gone and the block as it was in the image comes back (BlockDev!BlockDevExact); a pass
\* over a directory shows no entry twice, and a ramfs pass misses at most one entry for
\* each one removed during it (DirStream!DirStreamExact); links, owners and descriptors
\* of the host are what they are called here, but for real paths through links
\* (HostFs!HostFsExact).
StoresExact ==
    /\ running = "lockfs" => K!LockfsExact
    /\ running = "blockdev" => B!BlockDevExact
    /\ running = "dirstream" => D!DirStreamExact
    /\ running = "hostfs" => G!HostFsExact

=============================================================================
