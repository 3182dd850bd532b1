---------------------------- MODULE FileTransfer ----------------------------
(***************************************************************************)
(* The jobs that copy files between the client and the controlled computer *)
(* (TransferJob of libs/hbb_common/src/fs.rs): a job that reads, on one    *)
(* side, and a job with the same id that writes, on the other.             *)
(*                                                                         *)
(*   download: Connection (server/connection.rs) reads, the client         *)
(*             (client/io_loop.rs) writes;                                 *)
(*   upload:   the client reads, the connection manager (handle_fs of      *)
(*             ui_cm_interface.rs) writes for the connection.              *)
(*                                                                         *)
(* Before a file is sent the reader sends its digest and waits: the side   *)
(* that writes looks for the file and for what an earlier transfer left of *)
(* it, and the client, or its user in a dialog, decides.  What is received *)
(* goes to <name>.download, with <name>.digest beside it, and is renamed   *)
(* when the next file starts or the job is done.  When the connection is   *)
(* lost the client saves its jobs; it may add and resume them later.       *)
(*                                                                         *)
(* A step of the client, or of the connection with its connection manager, *)
(* is one message of the peer, one tick of the file timer or one command   *)
(* of the user.  Files are numbered from 1, and the data of a file of size *)
(* n are the blocks 1 .. n; the empty block, 0, ends it.                   *)
(***************************************************************************)
EXTENDS Integers, Sequences, FiniteSets

CONSTANTS
    Scenarios,      \* what there is to copy: see ScenarioOK
    None            \* no dialog, no file

Dir == -1           \* the "size" of the marker of an empty directory
Skip == -1          \* the answer that a file is not sent; an offset otherwise
Unset == -2         \* no default_overwrite_strategy
Old == <<0>>        \* what was in a file before

\* files[j]: the sizes of the files of a job.  old, stale: the files that are at
\* the destination already, and those an earlier transfer has left a first block
\* of.  undated: those whose digest cannot be told (a time before 1970).  od:
\* both sides know overwrite detection.  breaks: how often the connection may be
\* lost.  faults: reading, looking at or writing a file may fail.
ScenarioOK(s) ==
    /\ IsFiniteSet(DOMAIN s.files)
    /\ s.files \in [DOMAIN s.files -> Seq({Dir} \cup Nat)]
    /\ s.upload \in [DOMAIN s.files -> BOOLEAN]
    /\ \A f \in s.old \cup s.stale \cup s.undated :
          f[1] \in DOMAIN s.files /\ f[2] \in DOMAIN s.files[f[1]]
    /\ \A f \in s.undated : s.files[f[1]][f[2]] # Dir
    /\ s.od \in BOOLEAN /\ s.faults \in BOOLEAN /\ s.cancel \in BOOLEAN
    /\ s.breaks \in Nat

ASSUME FileTransferAssumption ==
    /\ \A s \in Scenarios : ScenarioOK(s)
    /\ None \notin Seq(Nat)

VARIABLES
    sc,             \* the scenario
    up,             \* there is a connection
    breaks,         \* how often it was lost
    rjob, wjob,     \* the jobs that read, and that write, by id
    reads,          \* the order of the jobs in read_jobs, on each side
    disk,           \* the destination: each file, its .download and .digest,
                    \* and whether other files' blocks were put behind its own
    c2s, s2c,       \* messages on the way
    dialog,         \* pendingOverride: the question the user is shown
    saved,          \* PeerConfig::transfer: file_num of the saved jobs
    state,          \* what the client's user was last told of a job
    from,           \* where the job was started or resumed last
    kept,           \* files that a decision said to leave as they are
    lost,           \* jobs whose question was replaced by another
    faulted         \* files whose digest, reading or writing failed

jobVars == <<rjob, wjob, reads>>
history == <<from, kept, lost, faulted>>
ftVars == <<sc, up, breaks, rjob, wjob, reads, disk, c2s, s2c, dialog, saved,
          state, from, kept, lost, faulted>>

Jobs == DOMAIN sc.files
Files == UNION {{j} \X DOMAIN sc.files[j] : j \in Jobs}
Size(j, k) == sc.files[j][k]
Whole(f) == [i \in 1 .. Size(f[1], f[2]) |-> i]
ReadSide(j) == IF sc.upload[j] THEN "client" ELSE "server"

Put(f, x, v) == [y \in DOMAIN f \cup {x} |-> IF y = x THEN v ELSE f[y]]
Del(f, x) == [y \in DOMAIN f \ {x} |-> f[y]]

Msg(t, j, k, v) == [t |-> t, j |-> j, k |-> k, v |-> v]

NoReads == [side \in {"client", "server"} |-> <<>>]

FTInit ==
    /\ sc \in Scenarios
    /\ up = TRUE /\ breaks = 0
    /\ rjob = [j \in {} |-> None] /\ wjob = [j \in {} |-> None]
    /\ reads = NoReads
    /\ disk = [f \in Files |-> [final |-> IF f \in sc.old THEN Old ELSE None,
                                part |-> IF f \in sc.stale THEN <<1>> ELSE None,
                                digest |-> f \in sc.stale, spoilt |-> FALSE]]
    /\ c2s = <<>> /\ s2c = <<>>
    /\ dialog = None /\ saved = [j \in {} |-> None]
    /\ state = [j \in Jobs |-> "new"]
    /\ from = [j \in Jobs |-> 1]
    /\ kept = {} /\ lost = {} /\ faulted = {}

-----------------------------------------------------------------------------
(* TransferJob. *)

NewRead(num) ==
    [file_num |-> num, pos |-> 0, confirmed |-> FALSE, waiting |-> FALSE,
     error |-> FALSE, skipped |-> FALSE, last |-> FALSE, resume |-> FALSE,
     strategy |-> Unset]

\* open: there is a data_stream; on: the file it was opened for.  files is
\* empty, for a download, until the list has come.
NewWrite(num, listed) ==
    [file_num |-> num, open |-> FALSE, on |-> 0, skipped |-> FALSE,
     last |-> FALSE, resume |-> FALSE, strategy |-> Unset, listed |-> listed]

\* modify_time: what was received for file k gets its name.
ModifyTime(d, j, k) ==
    IF k \in DOMAIN sc.files[j] /\ d[<<j, k>>].part # None
    THEN [d EXCEPT ![<<j, k>>] = [final |-> @.part, part |-> None,
                                  digest |-> FALSE, spoilt |-> @.spoilt]]
    ELSE IF k \in DOMAIN sc.files[j] THEN [d EXCEPT ![<<j, k>>].digest = FALSE]
    ELSE d

\* Mutant: the .digest is left.
RemoveDownloadFile_Digest(d, j, k) ==
    IF k \in DOMAIN sc.files[j] THEN [d EXCEPT ![<<j, k>>].part = None] ELSE d

RemoveDownloadFile(d, j, k) ==
    IF k \in DOMAIN sc.files[j]
    THEN [d EXCEPT ![<<j, k>>].part = None, ![<<j, k>>].digest = FALSE]
    ELSE d

\* Mutant: a file is sent whatever the answer.
ConfirmRead_Always(r, k, v) ==
    IF r.file_num # k THEN r
    ELSE [r EXCEPT !.confirmed = TRUE, !.skipped = FALSE,
                   !.pos = IF v > 0 THEN v + 1 ELSE @]

\* confirm of a job that reads: r.file_num must be the current file.
ConfirmRead(r, k, v) ==
    IF r.file_num # k THEN r
    ELSE IF v = Skip
    THEN [r EXCEPT !.pos = 0, !.confirmed = FALSE, !.waiting = FALSE,
                   !.file_num = k + 1, !.skipped = TRUE]
    ELSE [r EXCEPT !.confirmed = TRUE, !.skipped = FALSE,
                   !.pos = IF v > 0 THEN v + 1 ELSE @]

\* Mutant: the side that writes does not go to the offset.
ConfirmWrite_NoSeek(w, k, v) ==
    IF w.file_num # k THEN w
    ELSE IF v = Skip
    THEN [w EXCEPT !.open = FALSE, !.file_num = k + 1, !.skipped = TRUE]
    ELSE [w EXCEPT !.skipped = FALSE]

\* The same for a job that writes; an offset opens the .download there.
ConfirmWrite(w, k, v) ==
    IF w.file_num # k THEN w
    ELSE IF v = Skip
    THEN [w EXCEPT !.open = FALSE, !.file_num = k + 1, !.skipped = TRUE]
    ELSE [w EXCEPT !.skipped = FALSE, !.open = IF v > 0 THEN TRUE ELSE @,
                   !.on = IF v > 0 THEN k ELSE @]

\* set_stream_offset: an offset that cannot be gone to is passed over.
Seeks(job, k, v) ==
    {v} \cup (IF sc.faults /\ v > 0 /\ job.file_num = k THEN {0} ELSE {})
Sought(j, k, v, o) ==
    faulted' = IF o = v THEN faulted ELSE faulted \cup {<<j, k>>}

\* is_write_need_confirmation: how much of the file an earlier transfer has
\* left, when it is to be resumed; whether somebody must be asked at all.
Transferred(j, k, resume) ==
    LET d == disk[<<j, k>>]
    IN IF resume /\ d.digest /\ d.part # None THEN Len(d.part) ELSE 0

NeedConfirm(j, k, resume) ==
    Transferred(j, k, resume) > 0 \/ disk[<<j, k>>].final # None

\* is_write_need_confirmation looks at the file that is there, and may fail.
LookFails(j, k, resume) ==
    sc.faults /\ Transferred(j, k, resume) = 0 /\ disk[<<j, k>>].final # None

\* write: file k is opened by the first block of it, and what was written before
\* gets its name.
Reopens(w, k) == k # w.file_num \/ ~w.open

Created(d, j, k) ==
    [d EXCEPT ![<<j, k>>].part = <<>>, ![<<j, k>>].digest = TRUE]

\* A block goes to what the stream was opened for: another file, which is
\* finished, after the opening of this one has failed.
WriteAll(d, j, k, on, v) ==
    IF v = 0 THEN d
    ELSE IF on = k /\ d[<<j, k>>].part # None
    THEN [d EXCEPT ![<<j, k>>].part = Append(@, v)]
    ELSE [d EXCEPT ![<<j, on>>].spoilt = TRUE]

Written(j, k, v) ==
    LET w == wjob[j]
    IN IF Reopens(w, k)
       THEN WriteAll(Created(ModifyTime(disk, j, w.file_num), j, k), j, k, k, v)
       ELSE WriteAll(disk, j, k, w.on, v)

-----------------------------------------------------------------------------
(* Sending.  Messages of the connection manager go through the connection. *)

ToPeer(side, msgs) ==
    IF side = "client" THEN c2s' = c2s \o msgs /\ UNCHANGED s2c
    ELSE s2c' = s2c \o msgs /\ UNCHANGED c2s

\* The head of the queue is taken; msgs is the answer.
ServerTakes(msgs) == up /\ c2s' = Tail(c2s) /\ s2c' = s2c \o msgs
ClientTakes(msgs) == up /\ s2c' = Tail(s2c) /\ c2s' = c2s \o msgs

ServerGets(t) == c2s # <<>> /\ Head(c2s).t = t
ClientGets(t) == s2c # <<>> /\ Head(s2c).t = t

\* A job is at most once in the list.
Without(s, j) ==
    LET i == CHOOSE i \in DOMAIN s : s[i] = j
    IN  IF \E x \in DOMAIN s : s[x] = j
        THEN [x \in 1 .. Len(s) - 1 |-> IF x < i THEN s[x] ELSE s[x + 1]]
        ELSE s

DropRead(j, side) == /\ rjob' = Del(rjob, j)
                     /\ reads' = [reads EXCEPT ![side] = Without(@, j)]

-----------------------------------------------------------------------------
(* The client's user starts a job. *)

\* Data::SendFiles.
SendFiles(j) ==
    /\ up /\ state[j] = "new"
    /\ state' = [state EXCEPT ![j] = "running"]
    /\ IF sc.upload[j]
       THEN /\ rjob' = Put(rjob, j, NewRead(1))
            /\ reads' = [reads EXCEPT !.client = Append(@, j)]
            /\ c2s' = Append(c2s, Msg("receive", j, 1, 0))
            /\ UNCHANGED wjob
       ELSE /\ wjob' = Put(wjob, j, NewWrite(1, FALSE))
            /\ c2s' = Append(c2s, Msg("send", j, 1, 0))
            /\ UNCHANGED <<rjob, reads>>
    /\ UNCHANGED <<sc, up, breaks, disk, s2c, dialog, saved, history>>

\* FileAction::Send, on the server: the list of the files, and a job to read
\* them; or an error, when they cannot be listed or the option
\* one-way-file-transfer is on.
OnSend ==
    /\ ServerGets("send")
    /\ LET m == Head(c2s) IN
       \/ /\ rjob' = Put(rjob, m.j, NewRead(m.k))
          /\ reads' = [reads EXCEPT !.server = Append(@, m.j)]
          /\ ServerTakes(<<Msg("dir", m.j, 0, 0)>>)
       \/ /\ sc.faults
          /\ ServerTakes(<<Msg("error", m.j, 0, 0)>>)
          /\ UNCHANGED <<rjob, reads>>
    /\ UNCHANGED <<sc, up, breaks, wjob, disk, dialog, saved, state, history>>

\* FileResponse::Dir, on the client: set_files.
OnDir ==
    /\ ClientGets("dir")
    /\ LET j == Head(s2c).j IN
       wjob' = IF j \in DOMAIN wjob THEN [wjob EXCEPT ![j].listed = TRUE]
               ELSE wjob
    /\ ClientTakes(<<>>)
    /\ UNCHANGED <<sc, up, breaks, rjob, reads, disk, dialog, saved, state,
                   history>>

\* FileAction::Receive: FS::NewWrite.
OnReceive ==
    /\ ServerGets("receive")
    /\ LET m == Head(c2s) IN wjob' = Put(wjob, m.j, NewWrite(m.k, TRUE))
    /\ ServerTakes(<<>>)
    /\ UNCHANGED <<sc, up, breaks, rjob, reads, disk, dialog, saved, state,
                   history>>

-----------------------------------------------------------------------------
(* handle_read_jobs: the first job that is not waiting to be resumed. *)

Current(side, j) ==
    /\ up
    /\ \E i \in DOMAIN reads[side] :
          /\ reads[side][i] = j /\ ~rjob[j].last
          /\ \A x \in 1 .. i - 1 : rjob[reads[side][x]].last

NextFile(r) == [r EXCEPT !.file_num = @ + 1, !.pos = 0, !.confirmed = FALSE,
                         !.waiting = FALSE]

\* The file is opened by the first read of it, which also sends its digest.
Opened(r) == IF r.pos # 0 THEN r
             ELSE [r EXCEPT !.pos = 1, !.confirmed = FALSE, !.waiting = FALSE]

ReadJob(side, j) ==
    /\ Current(side, j)
    /\ LET r == rjob[j]
           k == r.file_num
           o == Opened(r)
       IN
       /\ k \in DOMAIN sc.files[j]
       /\ IF Size(j, k) = Dir
          THEN /\ rjob' = [rjob EXCEPT ![j] = NextFile(r)]
               /\ ToPeer(side, <<Msg("block", j, k, 0)>>)
          ELSE IF sc.od /\ ~o.confirmed
          THEN /\ ~o.waiting /\ <<j, k>> \notin sc.undated
               /\ rjob' = [rjob EXCEPT ![j] = [o EXCEPT !.waiting = TRUE]]
               /\ ToPeer(side, <<Msg("digest", j, k,
                                     IF r.resume THEN 1 ELSE 0)>>)
          ELSE IF o.pos > Size(j, k)
          THEN /\ rjob' = [rjob EXCEPT ![j] = NextFile(o)]
               /\ ToPeer(side, <<Msg("block", j, k, 0)>>)
          ELSE /\ rjob' = [rjob EXCEPT ![j] = [o EXCEPT !.pos = @ + 1]]
               /\ ToPeer(side, <<Msg("block", j, k, o.pos)>>)
    /\ UNCHANGED <<sc, up, breaks, wjob, reads, disk, dialog, saved, state,
                   history>>

\* The file cannot be opened, or a read fails.
ReadFails(side, j) ==
    /\ sc.faults /\ Current(side, j)
    /\ LET r == rjob[j] IN
       /\ r.file_num \in DOMAIN sc.files[j] /\ Size(j, r.file_num) # Dir
       /\ r.waiting => r.confirmed
       /\ sc.od /\ r.pos > 0 => r.confirmed
       /\ rjob' = [rjob EXCEPT ![j] = [NextFile(r) EXCEPT !.error = TRUE]]
       /\ faulted' = faulted \cup {<<j, r.file_num>>}
    /\ ToPeer(side, <<Msg("error", j, rjob[j].file_num + 1, 0)>>)
    /\ UNCHANGED <<sc, up, breaks, wjob, reads, disk, dialog, saved, state,
                   from, kept, lost>>

\* send_current_digest fails: the file stays the current one, and the next tick
\* tries again.  Bound: one such error is on the way at a time.
DigestFails(side, j) ==
    /\ Current(side, j)
    /\ LET r == rjob[j]
           k == r.file_num
       IN
       /\ k \in DOMAIN sc.files[j] /\ Size(j, k) # Dir
       /\ <<j, k>> \in sc.undated /\ sc.od /\ ~Opened(r).confirmed
       /\ \A q \in {c2s, s2c} : \A i \in DOMAIN q :
             ~(q[i].j = j /\ q[i].t = "error")
       /\ rjob' = [rjob EXCEPT ![j] = Opened(r)]
       /\ ToPeer(side, <<Msg("error", j, k, 0)>>)
       /\ faulted' = faulted \cup {<<j, k>>}
    /\ UNCHANGED <<sc, up, breaks, wjob, reads, disk, dialog, saved, state,
                   from, kept, lost>>

\* All files are read: job_completed, job_error.
ReadEnds(side, j) ==
    /\ Current(side, j)
    /\ LET r == rjob[j]
           n == Len(sc.files[j])
       IN
       /\ r.file_num > n
       /\ ~sc.od \/ (~r.confirmed /\ ~r.waiting)
       /\ LET t == IF (r.skipped /\ n = 1) \/ r.error THEN "error" ELSE "done"
          IN ToPeer(side, <<Msg(t, j, r.file_num, 0)>>)
    /\ DropRead(j, side)
    /\ UNCHANGED <<sc, up, breaks, wjob, disk, dialog, saved, state, history>>

-----------------------------------------------------------------------------
(* The digest of a file, at the side that writes it. *)

\* What a decision does to the histories.
Decide(j, k, v) == kept' = IF v = Skip THEN kept \cup {<<j, k>>}
                           ELSE kept \ {<<j, k>>}

Ask(j, k) ==
    /\ dialog' = <<j, k>>
    /\ lost' = IF dialog # None /\ dialog[1] # j THEN lost \cup {dialog[1]}
               ELSE lost

\* A download, on the client: the client decides, and does not answer when it
\* cannot look at the file that is there.
OnDigest ==
    /\ ClientGets("digest")
    /\ LET m == Head(s2c)
           j == m.j
           known == j \in DOMAIN wjob /\ wjob[j].listed
           offset == Transferred(j, m.k, wjob[j].resume)
           v == IF ~NeedConfirm(j, m.k, wjob[j].resume) THEN 0
                ELSE IF offset > 0 THEN offset ELSE wjob[j].strategy
       IN
       \/ /\ ~known
          /\ ClientTakes(<<>>)
          /\ UNCHANGED <<wjob, dialog, kept, lost, faulted>>
       \/ /\ known /\ v # Unset
          /\ \E o \in Seeks(wjob[j], m.k, v) :
                /\ wjob' = [wjob EXCEPT ![j] = ConfirmWrite(@, m.k, o)]
                /\ Sought(j, m.k, v, o)
          /\ ClientTakes(<<Msg("confirm", j, m.k, v)>>)
          /\ Decide(j, m.k, v) /\ UNCHANGED <<dialog, lost>>
       \/ /\ known /\ v = Unset
          /\ Ask(j, m.k)
          /\ ClientTakes(<<>>) /\ UNCHANGED <<wjob, kept, faulted>>
       \/ /\ known /\ LookFails(j, m.k, wjob[j].resume)
          /\ faulted' = faulted \cup {<<j, m.k>>}
          /\ ClientTakes(<<>>) /\ UNCHANGED <<wjob, dialog, kept, lost>>
    /\ UNCHANGED <<sc, up, breaks, rjob, reads, disk, saved, state, from>>

\* Mutant: only a file that is there is answered for.
OnCheckDigest_Silent ==
    /\ ServerGets("digest")
    /\ LET m == Head(c2s)
           t == Transferred(m.j, m.k, m.v = 1)
       IN ServerTakes(IF m.j \in DOMAIN wjob /\ NeedConfirm(m.j, m.k, m.v = 1)
                      THEN <<Msg("ask", m.j, m.k, t)>> ELSE <<>>)
    /\ UNCHANGED <<sc, up, breaks, jobVars, disk, dialog, saved, state,
                   history>>

\* An upload, in the connection manager (FS::CheckDigest): a file that is not
\* there is confirmed, else the client is asked, or told that it failed.
OnCheckDigest ==
    /\ ServerGets("digest")
    /\ LET m == Head(c2s)
           t == Transferred(m.j, m.k, m.v = 1)
       IN
       \/ /\ ServerTakes(IF m.j \notin DOMAIN wjob THEN <<>>
                         ELSE IF NeedConfirm(m.j, m.k, m.v = 1)
                         THEN <<Msg("ask", m.j, m.k, t)>>
                         ELSE <<Msg("confirm", m.j, m.k, 0)>>)
          /\ UNCHANGED faulted
       \/ /\ m.j \in DOMAIN wjob /\ LookFails(m.j, m.k, m.v = 1)
          /\ ServerTakes(<<Msg("error", m.j, m.k, 0)>>)
          /\ faulted' = faulted \cup {<<m.j, m.k>>}
    /\ UNCHANGED <<sc, up, breaks, jobVars, disk, dialog, saved, state, from,
                   kept, lost>>

\* FileResponse::Digest with is_upload, on the client.
OnAsk ==
    /\ ClientGets("ask")
    /\ LET m == Head(s2c)
           j == m.j
           v == IF rjob[j].resume /\ m.v > 0 THEN m.v ELSE rjob[j].strategy
       IN
       \/ /\ j \notin DOMAIN rjob
          /\ ClientTakes(<<>>)
          /\ UNCHANGED <<rjob, dialog, kept, lost, faulted>>
       \/ /\ j \in DOMAIN rjob /\ v # Unset
          /\ \E o \in Seeks(rjob[j], m.k, v) :
                /\ rjob' = [rjob EXCEPT ![j] = ConfirmRead(@, m.k, o)]
                /\ Sought(j, m.k, v, o)
          /\ ClientTakes(<<Msg("confirm", j, m.k, v)>>)
          /\ Decide(j, m.k, v) /\ UNCHANGED <<dialog, lost>>
       \/ /\ j \in DOMAIN rjob /\ v = Unset
          /\ Ask(j, m.k)
          /\ ClientTakes(<<>>) /\ UNCHANGED <<rjob, kept, faulted>>
    /\ UNCHANGED <<sc, up, breaks, wjob, reads, disk, saved, state, from>>

\* Data::SetConfirmOverrideFile: the user's answer.  The side that writes an
\* upload is not told.
SetConfirmOverrideFile(v, remember) ==
    /\ up /\ dialog # None /\ dialog' = None
    /\ LET j == dialog[1]
           k == dialog[2]
           jobs == IF sc.upload[j] THEN rjob ELSE wjob
           job == IF remember THEN [jobs[j] EXCEPT !.strategy = v] ELSE jobs[j]
       IN
       \/ /\ j \notin DOMAIN jobs /\ UNCHANGED <<rjob, wjob, c2s, kept>>
       \/ /\ j \in DOMAIN jobs /\ sc.upload[j]
          /\ rjob' = [rjob EXCEPT ![j] = ConfirmRead(job, k, v)]
          /\ Decide(j, k, v) /\ UNCHANGED <<wjob, c2s>>
       \/ /\ j \in DOMAIN jobs /\ ~sc.upload[j]
          /\ wjob' = [wjob EXCEPT ![j] = ConfirmWrite(job, k, v)]
          /\ c2s' = Append(c2s, Msg("confirm", j, k, v))
          /\ Decide(j, k, v) /\ UNCHANGED rjob
    /\ UNCHANGED <<sc, up, breaks, reads, disk, s2c, saved, state, from, lost,
                   faulted>>

\* FileAction::SendConfirm, on the server: for its own job, or passed on.
OnConfirmServer ==
    /\ ServerGets("confirm")
    /\ LET m == Head(c2s)
           j == m.j
       IN
       \/ /\ j \notin DOMAIN (IF sc.upload[j] THEN wjob ELSE rjob)
          /\ UNCHANGED <<rjob, wjob, faulted>>
       \/ /\ ~sc.upload[j] /\ j \in DOMAIN rjob
          /\ \E o \in Seeks(rjob[j], m.k, m.v) :
                /\ rjob' = [rjob EXCEPT ![j] = ConfirmRead(@, m.k, o)]
                /\ Sought(j, m.k, m.v, o)
          /\ UNCHANGED wjob
       \/ /\ sc.upload[j] /\ j \in DOMAIN wjob
          /\ \E o \in Seeks(wjob[j], m.k, m.v) :
                /\ wjob' = [wjob EXCEPT ![j] = ConfirmWrite(@, m.k, o)]
                /\ Sought(j, m.k, m.v, o)
          /\ UNCHANGED rjob
    /\ ServerTakes(<<>>)
    /\ UNCHANGED <<sc, up, breaks, reads, disk, dialog, saved, state, from,
                   kept, lost>>

OnConfirmClient ==
    /\ ClientGets("confirm")
    /\ LET m == Head(s2c) IN
       rjob' = IF m.j \in DOMAIN rjob
               THEN [rjob EXCEPT ![m.j] = ConfirmRead(@, m.k, m.v)] ELSE rjob
    /\ ClientTakes(<<>>)
    /\ UNCHANGED <<sc, up, breaks, wjob, reads, disk, dialog, saved, state,
                   history>>

-----------------------------------------------------------------------------
(* The data, and the end of a job, at the side that writes. *)

\* job_done and job_error: a job the user has cancelled is no longer listed.
Report(j, what) ==
    state' = [state EXCEPT ![j] = IF @ \in {"cancelled", "done"} THEN @
                                  ELSE what]

\* The marker of an empty directory only moves file_num: what is open stays
\* open.
Block(m) ==
    IF Size(m.j, m.k) = Dir
    THEN /\ wjob' = [wjob EXCEPT ![m.j].file_num = m.k]
         /\ UNCHANGED disk
    ELSE /\ disk' = Written(m.j, m.k, m.v)
         /\ wjob' = [wjob EXCEPT ![m.j].file_num = m.k, ![m.j].open = TRUE,
                                 ![m.j].on = IF Reopens(wjob[m.j], m.k) THEN m.k
                                             ELSE @]

\* What was written before has its name and cannot be synced: file_num is not
\* moved.
SyncFails(m) ==
    LET w == wjob[m.j] IN
    /\ Reopens(w, m.k) /\ w.open
    /\ disk' = ModifyTime(disk, m.j, w.file_num)
    /\ faulted' = faulted \cup {<<m.j, m.k>>, <<m.j, w.on>>}
    /\ UNCHANGED wjob

\* The .digest cannot be removed, or the file not be created: file_num is moved,
\* and the stream, if there is one, is still that of the file before.
OpenFails(m) ==
    LET w == wjob[m.j]
        named == ModifyTime(disk, m.j, w.file_num)
    IN
    /\ Reopens(w, m.k)
    /\ \/ named[<<m.j, m.k>>].digest /\ disk' = named
       \/ disk' = [named EXCEPT ![<<m.j, m.k>>].digest = FALSE]
    /\ wjob' = [wjob EXCEPT ![m.j].file_num = m.k]
    /\ faulted' = faulted \cup {<<m.j, m.k>>}

\* The file is open, and the data are not in it.
WriteFails(m) ==
    LET w == wjob[m.j] IN
    /\ m.v > 0
    /\ IF Reopens(w, m.k)
       THEN disk' = Created(ModifyTime(disk, m.j, w.file_num), m.j, m.k)
       ELSE UNCHANGED disk
    /\ wjob' = [wjob EXCEPT ![m.j].file_num = m.k, ![m.j].open = TRUE,
                            ![m.j].on = IF Reopens(w, m.k) THEN m.k ELSE @]
    /\ faulted' = faulted \cup {<<m.j, m.k>>}

BlockFails(m) ==
    /\ sc.faults /\ Size(m.j, m.k) # Dir
    /\ SyncFails(m) \/ OpenFails(m) \/ WriteFails(m)

\* A block that cannot be written is given up, and the job is kept; only the
\* connection manager sends an error.
OnBlockClient ==
    /\ ClientGets("block")
    /\ LET m == Head(s2c)
           known == m.j \in DOMAIN wjob /\ wjob[m.j].listed
       IN
       \/ /\ ~known /\ UNCHANGED <<wjob, disk, faulted>>
       \/ /\ known /\ Block(m) /\ UNCHANGED faulted
       \/ /\ known /\ BlockFails(m)
    /\ ClientTakes(<<>>)
    /\ UNCHANGED <<sc, up, breaks, rjob, reads, dialog, saved, state, from,
                   kept, lost>>

OnBlockServer ==
    /\ ServerGets("block")
    /\ LET m == Head(c2s)
           known == m.j \in DOMAIN wjob
       IN
       \/ /\ ~known /\ ServerTakes(<<>>) /\ UNCHANGED <<wjob, disk, faulted>>
       \/ /\ known /\ Block(m) /\ ServerTakes(<<>>) /\ UNCHANGED faulted
       \/ /\ known /\ BlockFails(m)
          /\ ServerTakes(<<Msg("error", m.j, m.k, 0)>>)
    /\ UNCHANGED <<sc, up, breaks, rjob, reads, dialog, saved, state, from,
                   kept, lost>>

\* FileResponse::Done, on the client: of its own job, or of the connection
\* manager's.
OnDoneClient ==
    /\ ClientGets("done")
    /\ LET j == Head(s2c).j IN
       \/ /\ j \in DOMAIN wjob /\ ~sc.upload[j]
          /\ disk' = ModifyTime(disk, j, wjob[j].file_num)
          /\ Report(j, IF wjob[j].skipped /\ Len(sc.files[j]) = 1 THEN "error"
                       ELSE "done")
          /\ wjob' = Del(wjob, j)
       \/ /\ j \notin DOMAIN wjob \/ sc.upload[j]
          /\ Report(j, "done") /\ UNCHANGED <<wjob, disk>>
    /\ ClientTakes(<<>>)
    /\ UNCHANGED <<sc, up, breaks, rjob, reads, dialog, saved, history>>

\* Mutant: the last file keeps its temporary name.
OnDoneServer_NoRename ==
    /\ ServerGets("done")
    /\ LET m == Head(c2s) IN
       /\ wjob' = Del(wjob, m.j)
       /\ ServerTakes(IF m.j \in DOMAIN wjob THEN <<Msg("done", m.j, m.k, 0)>>
                      ELSE <<>>)
    /\ UNCHANGED <<sc, up, breaks, rjob, reads, disk, dialog, saved, state,
                   history>>

\* FS::WriteDone.
OnDoneServer ==
    /\ ServerGets("done")
    /\ LET m == Head(c2s) IN
       IF m.j \in DOMAIN wjob
       THEN /\ disk' = ModifyTime(disk, m.j, wjob[m.j].file_num)
            /\ wjob' = Del(wjob, m.j)
            /\ ServerTakes(<<Msg("done", m.j, m.k, 0)>>)
       ELSE ServerTakes(<<>>) /\ UNCHANGED <<wjob, disk>>
    /\ UNCHANGED <<sc, up, breaks, rjob, reads, dialog, saved, state, history>>

\* FileResponse::Error: the job that writes is removed, the one that reads goes
\* on with its next file.
OnErrorClient ==
    /\ ClientGets("error")
    /\ LET j == Head(s2c).j IN
       /\ wjob' = IF sc.upload[j] THEN wjob ELSE Del(wjob, j)
       /\ Report(j, "error")
    /\ ClientTakes(<<>>)
    /\ UNCHANGED <<sc, up, breaks, rjob, reads, disk, dialog, saved, history>>

\* FS::WriteError.
OnErrorServer ==
    /\ ServerGets("error")
    /\ LET m == Head(c2s) IN
       /\ wjob' = Del(wjob, m.j)
       /\ ServerTakes(IF m.j \in DOMAIN wjob THEN <<Msg("error", m.j, m.k, 0)>>
                      ELSE <<>>)
    /\ UNCHANGED <<sc, up, breaks, rjob, reads, disk, dialog, saved, state,
                   history>>

-----------------------------------------------------------------------------
(* Cancelling, and the loss of the connection. *)

\* Data::CancelJob.
CancelJob(j) ==
    /\ sc.cancel /\ up /\ state[j] \in {"running", "error"}
    /\ c2s' = Append(c2s, Msg("cancel", j, 0, 0))
    /\ state' = [state EXCEPT ![j] = "cancelled"]
    /\ IF sc.upload[j]
       THEN DropRead(j, "client") /\ UNCHANGED <<wjob, disk>>
       ELSE /\ disk' = IF j \in DOMAIN wjob
                       THEN RemoveDownloadFile(disk, j, wjob[j].file_num)
                       ELSE disk
            /\ wjob' = Del(wjob, j)
            /\ UNCHANGED <<rjob, reads>>
    /\ UNCHANGED <<sc, up, breaks, s2c, dialog, saved, history>>

\* FileAction::Cancel: FS::CancelWrite, and the server's own job.
OnCancel ==
    /\ ServerGets("cancel")
    /\ LET j == Head(c2s).j IN
       IF sc.upload[j]
       THEN /\ disk' = IF j \in DOMAIN wjob
                       THEN RemoveDownloadFile(disk, j, wjob[j].file_num)
                       ELSE disk
            /\ wjob' = Del(wjob, j)
            /\ UNCHANGED <<rjob, reads>>
       ELSE DropRead(j, "server") /\ UNCHANGED <<wjob, disk>>
    /\ ServerTakes(<<>>)
    /\ UNCHANGED <<sc, up, breaks, dialog, saved, state, history>>

\* Both sides drop their jobs; the client saves its own first
\* (sync_jobs_status_to_local).
ClientJobs == {j \in DOMAIN rjob : sc.upload[j]}
              \cup {j \in DOMAIN wjob : ~sc.upload[j]}
FileNum(j) == IF sc.upload[j] THEN rjob[j].file_num ELSE wjob[j].file_num

ConnectionLost ==
    /\ up /\ breaks < sc.breaks
    /\ \E j \in Jobs : state[j] = "running"
    /\ up' = FALSE /\ breaks' = breaks + 1
    /\ saved' = [j \in ClientJobs |-> FileNum(j)]
    /\ state' = [j \in Jobs |-> IF j \in ClientJobs THEN "saved"
                                ELSE IF state[j] = "running" THEN "gone"
                                ELSE state[j]]
    /\ rjob' = [j \in {} |-> None] /\ wjob' = [j \in {} |-> None]
    /\ reads' = NoReads
    /\ c2s' = <<>> /\ s2c' = <<>> /\ dialog' = None
    /\ UNCHANGED <<sc, disk, history>>

\* load_last_jobs, and Data::AddJob for each of them.
Reconnect ==
    /\ ~up /\ up' = TRUE
    /\ LET ups == {j \in DOMAIN saved : sc.upload[j]}
           Waits(job) == [job EXCEPT !.last = TRUE]
       IN
       /\ rjob' = [j \in ups |-> Waits(NewRead(saved[j]))]
       /\ wjob' = [j \in DOMAIN saved \ ups |->
                      Waits(NewWrite(saved[j], FALSE))]
       /\ \E order \in [1 .. Cardinality(ups) -> ups] :
             /\ \A i, k \in DOMAIN order : order[i] = order[k] => i = k
             /\ reads' = [reads EXCEPT !.client = order]
    /\ state' = [j \in Jobs |-> IF j \in DOMAIN saved THEN "added"
                                ELSE state[j]]
    /\ UNCHANGED <<sc, breaks, disk, c2s, s2c, dialog, saved, history>>

\* Data::ResumeJob.
ResumeJob(j) ==
    /\ up /\ state[j] = "added"
    /\ LET Again(job) == [job EXCEPT !.last = FALSE, !.resume = TRUE] IN
       IF sc.upload[j]
       THEN /\ rjob' = [rjob EXCEPT ![j] = Again(@)] /\ UNCHANGED wjob
       ELSE /\ wjob' = [wjob EXCEPT ![j] = Again(@)] /\ UNCHANGED rjob
    /\ c2s' = Append(c2s, Msg(IF sc.upload[j] THEN "receive" ELSE "send", j,
                              FileNum(j), 0))
    /\ state' = [state EXCEPT ![j] = "running"]
    /\ from' = [from EXCEPT ![j] = FileNum(j)]
    /\ UNCHANGED <<sc, up, breaks, reads, disk, s2c, dialog, saved, kept, lost,
                   faulted>>

-----------------------------------------------------------------------------
Server ==
    \/ OnSend \/ OnReceive \/ OnCheckDigest \/ OnConfirmServer \/ OnBlockServer
    \/ OnDoneServer \/ OnErrorServer \/ OnCancel

Client ==
    \/ OnDir \/ OnDigest \/ OnAsk \/ OnConfirmClient \/ OnBlockClient
    \/ OnDoneClient \/ OnErrorClient

FileTimer(side) ==
    \E j \in Jobs : \/ ReadJob(side, j) \/ ReadFails(side, j)
                    \/ DigestFails(side, j) \/ ReadEnds(side, j)

Answer == \E v \in {0, Skip}, remember \in BOOLEAN :
             SetConfirmOverrideFile(v, remember)

User == \/ \E j \in Jobs : SendFiles(j) \/ CancelJob(j) \/ ResumeJob(j)
        \/ Reconnect \/ ConnectionLost

FTNext == Server \/ Client \/ Answer \/ User
        \/ \E side \in {"client", "server"} : FileTimer(side)

FTSpec == FTInit /\ [][FTNext]_ftVars

\* Both sides go on with their messages and their timers, and a question the
\* user sees is answered at last.
FTFairSpec ==
    /\ FTSpec
    /\ WF_ftVars(Server) /\ WF_ftVars(Client) /\ WF_ftVars(Answer)
    /\ \A side \in {"client", "server"} : WF_ftVars(FileTimer(side))

-----------------------------------------------------------------------------
(* Types. *)

IsFile(j, k) == k \in DOMAIN sc.files[j] /\ Size(j, k) # Dir

ReadJobs == [file_num : Nat, pos : Nat, confirmed : BOOLEAN, waiting : BOOLEAN,
             error : BOOLEAN, skipped : BOOLEAN, last : BOOLEAN,
             resume : BOOLEAN, strategy : {0, Skip, Unset}]
WriteJobs == [file_num : Nat, open : BOOLEAN, on : Nat, skipped : BOOLEAN,
              last : BOOLEAN, resume : BOOLEAN, strategy : {0, Skip, Unset},
              listed : BOOLEAN]
Kinds == {"send", "receive", "dir", "digest", "ask", "confirm", "block", "done",
          "error", "cancel"}
Messages == [t : Kinds, j : Jobs, k : Nat, v : Int]
States == {"new", "running", "error", "cancelled", "done", "saved", "added",
           "gone"}
Contents == {None} \cup Seq(Nat)
Entries == [final : Contents, part : Contents, digest : BOOLEAN,
            spoilt : BOOLEAN]

\* The data of a job go one way, most of the answers the other.
Data(j) == IF sc.upload[j] THEN c2s ELSE s2c
Back(j) == IF sc.upload[j] THEN s2c ELSE c2s

\* The messages of a job in a queue.
Sent(q, j) == {q[i] : i \in {x \in DOMAIN q : q[x].j = j}}

\* What may be sent with the data of job j, and against them.
DataOK(j, m) ==
    /\ m.t \in {"receive", "dir", "digest", "block", "confirm", "done", "error",
                "cancel"}
    /\ m.t \in {"receive", "confirm", "cancel"} => sc.upload[j]
    /\ m.t = "dir" => ~sc.upload[j]
    /\ m.t \in {"digest", "confirm"} => sc.od /\ IsFile(j, m.k)
    /\ m.t = "confirm" => m.v \in Nat \cup {Skip}
    /\ m.t = "block" => /\ m.k \in DOMAIN sc.files[j] /\ m.v \in Nat
                        /\ m.v > 0 => m.v <= Size(j, m.k)
    /\ m.t = "done" => m.k > Len(sc.files[j])
BackOK(j, m) ==
    /\ m.t \in {"send", "ask", "confirm", "done", "error", "cancel"}
    /\ m.t \in {"send", "cancel"} => ~sc.upload[j]
    /\ m.t \in {"ask", "done", "error"} => sc.upload[j]
    /\ m.t \in {"ask", "confirm"} => sc.od /\ IsFile(j, m.k)
    /\ m.t = "ask" => m.v \in Nat
    /\ m.t = "confirm" => m.v \in Nat \cup {Skip} /\ (sc.upload[j] => m.v = 0)

TypeJobs ==
    /\ DOMAIN rjob \subseteq Jobs /\ \A j \in DOMAIN rjob : rjob[j] \in ReadJobs
    /\ DOMAIN wjob \subseteq Jobs
    /\ \A j \in DOMAIN wjob : wjob[j] \in WriteJobs

DiskOK(d) ==
    /\ d \in [Files -> Entries]
    /\ \A f \in Files : d[f].digest => d[f].part # None

TypeQueues ==
    /\ c2s \in Seq(Messages) /\ s2c \in Seq(Messages)
    /\ \A j \in Jobs : /\ \A m \in Sent(Data(j), j) : DataOK(j, m)
                       /\ \A m \in Sent(Back(j), j) : BackOK(j, m)

TypeReads ==
    /\ reads \in [{"client", "server"} -> Seq(Jobs)]
    /\ \A side \in {"client", "server"} :
          /\ \A i \in DOMAIN reads[side] :
                reads[side][i] \in DOMAIN rjob /\ ReadSide(reads[side][i]) = side
          /\ \A i, k \in DOMAIN reads[side] :
                reads[side][i] = reads[side][k] => i = k

TypeUser ==
    /\ sc \in Scenarios /\ up \in BOOLEAN /\ breaks \in 0 .. sc.breaks
    /\ DOMAIN saved \subseteq Jobs /\ \A j \in DOMAIN saved : saved[j] \in Nat
    /\ state \in [Jobs -> States] /\ from \in [Jobs -> Nat]
    /\ dialog # None =>
          dialog \in Files /\ IsFile(dialog[1], dialog[2]) /\ sc.od

TypeHistory ==
    /\ kept \subseteq Files /\ faulted \subseteq Files /\ lost \subseteq Jobs
    /\ \A f \in kept : IsFile(f[1], f[2]) /\ sc.od

FTTypeOK == /\ TypeUser /\ TypeHistory /\ TypeJobs /\ DiskOK(disk)
            /\ TypeQueues /\ TypeReads

-----------------------------------------------------------------------------
(* The life of a job between two losses of the connection. *)

Shown(j) == dialog # None /\ dialog[1] = j
Has(q, j, T) == \E m \in Sent(q, j) : m.t \in T

\* The first message of job j in q is that of a kind in T, if there is one.
Leads(q, j, T) ==
    \A i, x \in DOMAIN q :
        q[i].j = j /\ q[i].t \in T /\ q[x].j = j => i <= x

\* There is at most one of these kinds.
Once(q, j, T) ==
    \A i, x \in DOMAIN q :
        q[i].j = j /\ q[i].t \in T /\ q[x].j = j /\ q[x].t \in T => i = x

\* The side that writes is there, or will be.
Live(j) == j \in DOMAIN wjob \/ Has(c2s, j, {"receive"})

LifeDown == ~up => /\ breaks > 0 /\ c2s = <<>> /\ s2c = <<>> /\ dialog = None
                   /\ DOMAIN rjob = {} /\ DOMAIN wjob = {}
                   /\ reads = NoReads
                   /\ \A j \in Jobs : /\ state[j] \notin {"running", "added"}
                                      /\ state[j] = "saved" <=> j \in DOMAIN saved

\* A job that was not started, or not yet resumed.
LifeIdle(j) ==
    /\ up => state[j] # "saved"
    /\ state[j] = "new" => from[j] = 1
    /\ state[j] \in {"new", "saved", "gone", "added"} =>
          /\ Sent(c2s, j) = {} /\ Sent(s2c, j) = {} /\ ~Shown(j)
          /\ j \in DOMAIN rjob => state[j] = "added" /\ sc.upload[j]
          /\ j \in DOMAIN wjob => state[j] = "added" /\ ~sc.upload[j]
    /\ state[j] = "added" =>
          IF sc.upload[j]
          THEN /\ j \in DOMAIN rjob /\ rjob[j].last /\ rjob[j].pos = 0
               /\ ~rjob[j].confirmed /\ ~rjob[j].waiting /\ ~rjob[j].skipped
          ELSE j \in DOMAIN wjob /\ ~wjob[j].open /\ ~wjob[j].listed

\* A job that is about to start on the server.
LifeStart(j) ==
    /\ Leads(c2s, j, {"send", "receive"}) /\ Leads(s2c, j, {"dir"})
    /\ \A m \in Sent(c2s, j) :
          m.t \in {"send", "receive"} =>
              /\ m.k = from[j] /\ Sent(s2c, j) = {} /\ ~Shown(j)
              /\ m.t = "send" => /\ j \notin DOMAIN rjob
                                 /\ \A x \in Sent(c2s, j) :
                                       x = m \/ x.t = "cancel"
                                 /\ j \in DOMAIN wjob \/ state[j] = "cancelled"
                                 /\ j \in DOMAIN wjob => /\ wjob[j].file_num = m.k
                                                         /\ ~wjob[j].open
                                                         /\ ~wjob[j].listed
              /\ m.t = "receive" => j \notin DOMAIN wjob
    /\ j \in DOMAIN wjob /\ ~wjob[j].listed =>
          /\ ~sc.upload[j] /\ ~wjob[j].open
          /\ j \in DOMAIN rjob => Has(s2c, j, {"dir"})
          /\ \A m \in Sent(s2c, j) : m.t # "error" => Has(s2c, j, {"dir"})

\* A job that ends.
LifeEnd(j) ==
    /\ Has(c2s, j, {"cancel"}) => state[j] = "cancelled"
    /\ state[j] = "cancelled" =>
          j \notin DOMAIN (IF sc.upload[j] THEN rjob ELSE wjob)
    /\ state[j] = "done" => j \notin DOMAIN rjob /\ ~Live(j)
    /\ Once(Data(j), j, {"done"})
    /\ j \in DOMAIN rjob => ~Has(Data(j), j, {"done"})
    /\ sc.upload[j] /\ Has(s2c, j, {"done"}) => j \notin DOMAIN rjob /\ ~Live(j)
    /\ ~sc.upload[j] /\ j \in DOMAIN wjob /\ (Has(s2c, j, {"digest"}) \/ Shown(j))
          => j \in DOMAIN rjob

Life(j) == LifeIdle(j) /\ LifeStart(j) /\ LifeEnd(j)

-----------------------------------------------------------------------------
(* Questions: the digest of a file, the question to the client or its user, and
   the answer are one token, and the side that reads waits for it. *)

\* An item moves the side that writes: a block, the end, an offset.
Item(m, j) ==
    m.j = j /\ (m.t \in {"block", "done"} \/ (m.t = "confirm" /\ m.v > 0))

\* No item comes after the digest.
Trails(q, j) ==
    \A i, x \in DOMAIN q : q[i].j = j /\ q[i].t = "digest" /\ Item(q[x], j) => x < i

\* An offset comes before all other items.
OffsetFirst(q, j) ==
    \A i, x \in DOMAIN q :
        Item(q[i], j) /\ q[i].t = "confirm" /\ Item(q[x], j) => i <= x

NoItem(q, j, a, b) == \A i \in a .. b : ~Item(q[i], j)
Clear(q, j) == NoItem(q, j, 1, Len(q))

\* m is the first item of job j in q, or the last; n is the next one after m.
Opens(q, j, m) ==
    \E i \in DOMAIN q : q[i] = m /\ Item(m, j) /\ NoItem(q, j, 1, i - 1)
Closes(q, j, m) ==
    \E i \in DOMAIN q : q[i] = m /\ Item(m, j) /\ NoItem(q, j, i + 1, Len(q))
Follows(q, j, m, n) ==
    \E i, x \in DOMAIN q : /\ q[i] = m /\ q[x] = n /\ Item(m, j) /\ Item(n, j)
                           /\ i < x /\ NoItem(q, j, i + 1, x - 1)

\* The side that reads may send blocks of its file.
Go(j) == ~sc.od \/ rjob[j].confirmed

WaitsFor(j, k) ==
    /\ rjob[j].file_num = k /\ rjob[j].waiting /\ ~rjob[j].confirmed
    /\ rjob[j].pos = 1

Tokens(j) ==
    j \in DOMAIN rjob =>
        /\ ~Go(j) => rjob[j].pos <= 1
        /\ Once(Data(j), j, {"digest"}) /\ Once(Back(j), j, {"ask", "confirm"})
        /\ Trails(Data(j), j)
        /\ ~(Has(Data(j), j, {"digest"}) /\ Has(Back(j), j, {"ask", "confirm"}))
        /\ Has(Data(j), j, {"digest"}) => ~Shown(j)
        /\ Has(Back(j), j, {"ask", "confirm"}) => ~Shown(j)
        /\ \A m \in Sent(Data(j), j) :
              m.t = "digest" => /\ WaitsFor(j, m.k)
                                /\ m.v = IF rjob[j].resume THEN 1 ELSE 0
        /\ \A m \in Sent(Back(j), j) :
              m.t \in {"ask", "confirm"} => WaitsFor(j, m.k) /\ Clear(Data(j), j)
        /\ Shown(j) => WaitsFor(j, dialog[2]) /\ Clear(Data(j), j)

\* Where the side that writes is.
At(j) == IF j \in DOMAIN wjob THEN wjob[j].file_num ELSE from[j]
Open(j) == j \in DOMAIN wjob /\ wjob[j].open

\* A file is open, and it is the current one if that could be opened.  There is
\* a .download where an offset is on the way.  The digest of a file that has
\* none is never sent.  A .download has its .digest, unless the file failed.
Parts(j) ==
    /\ Open(j) => /\ IsFile(j, wjob[j].on)
                  /\ IsFile(j, At(j)) /\ <<j, At(j)>> \notin faulted =>
                        wjob[j].on = At(j) /\ disk[<<j, At(j)>>].part # None
    /\ j \in DOMAIN rjob =>
          \A m \in Sent(Back(j), j) :
              m.t = "ask" /\ m.v > 0 => disk[<<j, m.k>>].digest
    /\ OffsetFirst(Data(j), j)
    /\ Live(j) =>
          \A m \in Sent(Data(j), j) :
              m.t = "confirm" /\ m.v > 0 => disk[<<j, m.k>>].digest
    /\ j \in DOMAIN rjob /\ sc.od /\ <<j, rjob[j].file_num>> \in sc.undated =>
          ~rjob[j].confirmed /\ ~rjob[j].waiting
    /\ \A k \in DOMAIN sc.files[j] :
          disk[<<j, k>>].part # None =>
              disk[<<j, k>>].digest \/ <<j, k>> \in faulted

-----------------------------------------------------------------------------
(* The disk. *)

\* Nothing is left of an earlier transfer, and one that was interrupted is
\* resumed with overwrite detection.
Sane == sc.stale = {} /\ (sc.od \/ breaks = 0)

Orig(f) == /\ \/ disk[f].final = IF f \in sc.old THEN Old ELSE None
              \/ Size(f[1], f[2]) = 0 /\ disk[f].final = Whole(f)
           /\ ~disk[f].spoilt

\* Nothing of job j was written after file b, nor was b finished.
Untouched(j, b) ==
    \A k \in DOMAIN sc.files[j] :
        /\ k > b => disk[<<j, k>>].part = None
        /\ k >= b /\ <<j, k>> \notin faulted => Orig(<<j, k>>)

\* A file that was not sent to the end leaves nothing if it is empty, and a
\* decision about it is still to come.
UnsentAt(j, b) ==
    \A k \in DOMAIN sc.files[j] :
        /\ k = b /\ Size(j, k) = 0 /\ <<j, k>> \notin faulted
           => disk[<<j, k>>].part = None
        /\ k >= b => <<j, k>> \notin kept

\* The files between a and b were not sent.
Gap(j, a, b) ==
    \A x \in DOMAIN sc.files[j] :
        a < x /\ x < b => <<j, x>> \in kept \cup faulted

\* The marker of an empty directory, up to b, has come instead of the block that
\* makes a file get its name.
Shadowed(j, k, b) ==
    \E x \in DOMAIN sc.files[j] :
        k < x /\ x <= b /\ Size(j, x) = Dir /\ Gap(j, k, x)

\* The files of job j before b are all there.
WholeBefore(j, b) ==
    \A k \in DOMAIN sc.files[j] :
        /\ k < b /\ Size(j, k) # Dir /\ <<j, k>> \notin kept \cup faulted
        /\ sc.upload[j] => k >= from[j]
        => disk[<<j, k>>].final = Whole(<<j, k>>) \/ Shadowed(j, k, b)

Touch(j) ==
    /\ state[j] = "new" => Untouched(j, 0) /\ UnsentAt(j, 0)
    /\ Live(j) => Untouched(j, At(j)) /\ WholeBefore(j, At(j))
    /\ sc.upload[j] /\ j \in DOMAIN rjob =>
          Untouched(j, rjob[j].file_num) /\ UnsentAt(j, rjob[j].file_num)
    /\ ~up /\ j \in DOMAIN saved =>
          /\ Untouched(j, saved[j])
          /\ sc.upload[j] => UnsentAt(j, saved[j])
          /\ ~sc.upload[j] => WholeBefore(j, saved[j])

\* Only a resumed job finds a part of the file it begins with.
Resumed(j) ==
    /\ Live(j) /\ ~Open(j) /\ At(j) \in DOMAIN sc.files[j] =>
          \/ disk[<<j, At(j)>>].part = None \/ state[j] = "added"
          \/ sc.upload[j] /\ (j \in DOMAIN rjob => rjob[j].resume)
          \/ ~sc.upload[j] /\ (j \in DOMAIN wjob => wjob[j].resume)
    /\ breaks = 0 => /\ j \in DOMAIN rjob => ~rjob[j].resume
                     /\ j \in DOMAIN wjob => ~wjob[j].resume
                     /\ state[j] # "added"

\* A file after f, of the same job, failed.
LaterFails(f) ==
    \E k \in DOMAIN sc.files[f[1]] : k > f[2] /\ <<f[1], k>> \in faulted

\* A .download is at every time a first part of the file, and what bears the
\* file's name is what was there before or all of the file; blocks of another
\* file may follow if that could not be opened.
IsPrefixOf(s, f) == Len(s) <= Size(f[1], f[2]) /\ \A i \in DOMAIN s : s[i] = i

Torn(j) ==
    \A k \in DOMAIN sc.files[j] :
        /\ Size(j, k) = Dir => disk[<<j, k>>].part = None
        /\ <<j, k>> \notin faulted =>
              /\ disk[<<j, k>>].part # None =>
                    /\ IsPrefixOf(disk[<<j, k>>].part, <<j, k>>)
                    /\ disk[<<j, k>>].part = <<>> => Size(j, k) = 0
              /\ \/ disk[<<j, k>>].final \in {None, Whole(<<j, k>>)}
                 \/ disk[<<j, k>>].final = Old
              /\ disk[<<j, k>>].spoilt => LaterFails(<<j, k>>)

-----------------------------------------------------------------------------
(* The chain of items from the side that writes to the side that reads. *)

\* The .download of file k is empty, if there is one.
Empty(j, k) ==
    k \in DOMAIN sc.files[j] =>
        \/ disk[<<j, k>>].part = None \/ <<j, k>> \in faulted
        \/ disk[<<j, k>>].part = <<>>

\* It is, and the file is to be sent.
Blank(j, k) == Empty(j, k) /\ <<j, k>> \notin kept

\* File k can get its name: it was received to the end, or not at all.
Passed(j, k) ==
    k \in DOMAIN sc.files[j] /\ Size(j, k) # Dir /\ <<j, k>> \notin faulted =>
        IF <<j, k>> \in kept THEN disk[<<j, k>>].part = None
        ELSE disk[<<j, k>>].part # None /\ Len(disk[<<j, k>>].part) = Size(j, k)

\* There are n blocks in the .download of file k.
Holds(j, k, n) ==
    /\ k \in DOMAIN sc.files[j] /\ disk[<<j, k>>].part # None
    /\ Len(disk[<<j, k>>].part) = n

\* The same, but for those that could not be written.
Received(j, k, n) ==
    /\ IsFile(j, k)
    /\ \/ <<j, k>> \in faulted
       \/ disk[<<j, k>>].part # None /\ Len(disk[<<j, k>>].part) = n

Begins(j, m) ==
    \/ m.t = "done"
    \/ /\ m.t = "block"
       /\ \/ m.v = 1 \/ (m.v = 0 /\ Size(j, m.k) \in {0, Dir})
          \/ <<j, m.k>> \in faulted

\* The first item in the queue continues what was received.
StartOK(j, m) ==
    \/ m.k > At(j) /\ Begins(j, m) /\ Passed(j, At(j)) /\ Gap(j, At(j), m.k)
    \/ m.k = At(j) /\ ~Open(j) /\ Begins(j, m) /\ Blank(j, m.k)
    \/ /\ m.k = At(j) /\ Open(j) /\ m.t = "block" /\ Size(j, m.k) # Dir
       /\ Received(j, m.k, IF m.v = 0 THEN Size(j, m.k) ELSE m.v - 1)
    \/ m.k = At(j) /\ ~Open(j) /\ m.t = "confirm" /\ Holds(j, m.k, m.v)

\* Each continues the one before it.
FollowOK(j, a, b) ==
    \/ /\ b.k > a.k /\ Begins(j, b) /\ Gap(j, a.k, b.k)
       /\ (a.t = "block" /\ a.v = 0) \/ <<j, a.k>> \in faulted
    \/ /\ b.k = a.k /\ a.v > 0 /\ b.t = "block" /\ a.t # "done"
       /\ \/ b.v = a.v + 1 \/ (b.v = 0 /\ a.v >= Size(j, a.k))
          \/ <<j, a.k>> \in faulted

\* The side that reads continues the last item,
LastOK(j, a) ==
    LET r == rjob[j] IN
    \/ /\ r.file_num > a.k /\ r.pos <= 1 /\ Gap(j, a.k, r.file_num)
       /\ (a.t = "block" /\ a.v = 0) \/ <<j, a.k>> \in faulted
    \/ /\ r.file_num = a.k /\ a.v > 0 /\ Go(j) /\ r.pos > 0
       /\ r.pos = a.v + 1 \/ <<j, a.k>> \in faulted

\* or what was received, if there is none.
NoneOK(j) ==
    LET r == rjob[j]
        k == r.file_num
    IN
    \/ /\ k > At(j) /\ Passed(j, At(j)) /\ Gap(j, At(j), k)
       /\ r.pos <= 1 \/ <<j, k>> \in faulted
    \/ /\ k = At(j) /\ ~Open(j) /\ (Go(j) => Blank(j, k))
       /\ r.pos <= 1 \/ <<j, k>> \in faulted
    \/ /\ k = At(j) /\ Open(j) /\ Go(j) /\ Received(j, k, r.pos - 1)
       /\ r.pos > 1 \/ (r.pos > 0 /\ <<j, k>> \in faulted)
    \/ /\ k = At(j) /\ Open(j) /\ ~Go(j) /\ r.waiting
       /\ Has(Back(j), j, {"confirm"})
    \/ /\ k + 1 = At(j) /\ ~Open(j) /\ ~Go(j) /\ r.waiting
       /\ Has(Back(j), j, {"confirm"})

Chain(j) ==
    LET q == Data(j) IN
    /\ \A m \in Sent(q, j) :
          /\ Live(j) /\ Opens(q, j, m) => StartOK(j, m)
          /\ \A n \in Sent(q, j) : Follows(q, j, m, n) => FollowOK(j, m, n)
          /\ j \in DOMAIN rjob /\ Closes(q, j, m) => LastOK(j, m)
    /\ Live(j) /\ j \in DOMAIN rjob /\ Clear(q, j) => NoneOK(j)

\* What was sent belongs to files the side that reads has reached.
Reached(j) ==
    /\ j \in DOMAIN rjob =>
          \A m \in Sent(Data(j), j) :
              /\ m.t = "block" => \/ m.k < rjob[j].file_num
                                  \/ m.k = rjob[j].file_num /\ m.v > 0
              /\ m.t = "confirm" => \/ m.k < rjob[j].file_num
                                    \/ /\ m.k = rjob[j].file_num /\ m.v >= 0
                                       /\ rjob[j].confirmed /\ rjob[j].pos > 0
    /\ sc.upload[j] /\ j \in DOMAIN rjob /\ Live(j) => At(j) <= rjob[j].file_num

\* The side that writes has not begun with the file that is asked for.
DigestOK(j, m) == m.k > At(j) \/ (m.k = At(j) /\ ~Open(j))

\* A question or an answer on the way is right when it comes.
AskOK(j, m) ==
    \/ m.k > At(j) /\ m.v = 0
    \/ /\ m.k = At(j) /\ ~Open(j)
       /\ IF m.v = 0 THEN Blank(j, m.k)
          ELSE rjob[j].resume /\ Holds(j, m.k, m.v)

ConfirmOK(j, m) ==
    IF m.v = Skip THEN m.k # At(j) /\ m.k + 1 >= At(j)
    ELSE \/ m.k > At(j) /\ m.v = 0
         \/ /\ m.k = At(j)
            /\ IF m.v = 0 THEN ~Open(j) /\ Blank(j, m.k)
               ELSE \/ Open(j) /\ Holds(j, m.k, m.v)
                    \/ <<j, m.k>> \in faulted

ShownOK(j) ==
    \/ dialog[2] > At(j)
    \/ dialog[2] = At(j) /\ ~Open(j) /\ Empty(j, dialog[2])

Answers(j) ==
    /\ j \in DOMAIN rjob =>
          \A m \in Sent(Back(j), j) :
              m.t = "confirm" => (m.v = Skip <=> <<j, m.k>> \in kept)
    /\ Live(j) /\ j \in DOMAIN rjob =>
          /\ \A m \in Sent(Data(j), j) :
                m.t = "digest" /\ Clear(Data(j), j) => DigestOK(j, m)
          /\ \A m \in Sent(Back(j), j) : /\ m.t = "ask" => AskOK(j, m)
                                         /\ m.t = "confirm" => ConfirmOK(j, m)
          /\ Shown(j) => ShownOK(j)

\* A file that is to be kept is neither sent nor written.
Keeps(j) ==
    /\ \A m \in Sent(Data(j), j) :
          /\ m.t = "block" \/ (m.t = "confirm" /\ m.v >= 0)
             => <<j, m.k>> \notin kept
          /\ m.t = "confirm" /\ m.v = Skip => <<j, m.k>> \in kept
    /\ j \in DOMAIN rjob /\ rjob[j].confirmed =>
          <<j, rjob[j].file_num>> \notin kept
    /\ Open(j) => /\ <<j, At(j)>> \notin kept
                  /\ <<j, wjob[j].on>> \notin kept /\ wjob[j].on <= At(j)
    /\ \A k \in DOMAIN sc.files[j] :
          <<j, k>> \in kept \ faulted =>
              /\ Orig(<<j, k>>)
              /\ Live(j) /\ k >= At(j) /\ (sc.upload[j] \/ breaks = 0)
                    => disk[<<j, k>>].part = None

-----------------------------------------------------------------------------
(* The end. *)

\* The side that reads is at a file whose digest cannot be told.
Undated(j) == sc.od /\ <<j, rjob[j].file_num>> \in sc.undated

AllWhole(j) == WholeBefore(j, Len(sc.files[j]) + 1)

Ending(j) ==
    /\ state[j] = "done" => AllWhole(j)
    /\ sc.upload[j] /\ Has(s2c, j, {"done"}) => AllWhole(j)
    /\ ~sc.upload[j] /\ j \notin DOMAIN wjob /\ state[j] # "cancelled" =>
          /\ j \in DOMAIN rjob => rjob[j].error \/ Undated(j)
          /\ ~Has(s2c, j, {"done"})
    /\ ~sc.upload[j] /\ Has(s2c, j, {"error"}) =>
          /\ j \in DOMAIN rjob => rjob[j].error \/ Undated(j)
          /\ ~Has(s2c, j, {"done"})
    /\ state[j] = "cancelled" /\ Live(j) =>
          sc.upload[j] /\ Has(c2s, j, {"cancel"})

\* Before the first interruption or failure, only the file that is written has a
\* .download.
Leftover(j) ==
    breaks = 0 /\ faulted = {} =>
        /\ j \in DOMAIN rjob => ~rjob[j].error /\ ~Has(Data(j), j, {"error"})
        /\ j \in DOMAIN rjob /\ rjob[j].skipped /\ Len(sc.files[j]) = 1 =>
              <<j, 1>> \in kept /\ rjob[j].file_num > 1
        /\ Has(Data(j), j, {"error"}) \/ Has(c2s, j, {"send"}) =>
              /\ Clear(Data(j), j)
              /\ \A k \in DOMAIN sc.files[j] : disk[<<j, k>>].part = None
        /\ \A k \in DOMAIN sc.files[j] :
              disk[<<j, k>>].part # None =>
                  IF Live(j) THEN k = At(j) \/ Shadowed(j, k, At(j))
                  ELSE Shadowed(j, k, Len(sc.files[j]))

JobInv(j) == /\ Touch(j) /\ Resumed(j) /\ Torn(j) /\ Chain(j) /\ Reached(j)
             /\ Answers(j) /\ Keeps(j) /\ Ending(j) /\ Leftover(j)

\* Both sides' jobs are well formed and no file is torn, whatever is in flight.
Inv == /\ FTTypeOK /\ LifeDown
       /\ \A j \in Jobs : Life(j) /\ Tokens(j) /\ Parts(j)
       /\ Sane => \A j \in Jobs : JobInv(j)

-----------------------------------------------------------------------------
(* Properties. *)

\* A file is received in the order it is sent, from the beginning or from where
\* an interrupted transfer of it ended: the .download is at every time a first
\* part of the file, and what bears the file's name is what was there before or
\* all of the file.  Only when a later file of the job failed (it could not be
\* opened) may blocks of that follow.
NothingTorn ==
    Sane => \A f \in Files \ faulted :
        /\ disk[f].part # None => IsPrefixOf(disk[f].part, f)
        /\ disk[f].final \in {None, Whole(f)} \/ disk[f].final = Old
        /\ disk[f].spoilt => LaterFails(f)

\* A job that is reported as done has copied every file from the one it was
\* started or resumed at, and a download every file, but for those that a
\* decision left as they were and those that a marker has shadowed.  A file has
\* its blocks and no others, unless a later one failed.
DoneIsWhole ==
    Sane => \A f \in Files \ (faulted \cup kept) :
        /\ state[f[1]] = "done" /\ Size(f[1], f[2]) # Dir
        /\ sc.upload[f[1]] => f[2] >= from[f[1]]
        /\ ~Shadowed(f[1], f[2], Len(sc.files[f[1]]))
        => disk[f].final = Whole(f) /\ (disk[f].spoilt => LaterFails(f))

\* "We decide to give the decision whether to override the existing file to
\* users": a file that the user said to keep is what it was, or empty as the one
\* to be copied is.
KeptAsItWas == Sane => \A f \in kept \ faulted : Orig(f)

\* A job that was cancelled, or done without interruption, leaves no .download
\* and no .digest behind once the messages on the way are taken.
NothingLeft ==
    Sane => \A f \in Files :
        /\ state[f[1]] \in {"cancelled", "done"} /\ c2s = <<>> /\ s2c = <<>>
        /\ breaks = 0 /\ faulted = {}
        /\ ~Shadowed(f[1], f[2], Len(sc.files[f[1]]))
        => disk[f].part = None /\ ~disk[f].digest

\* A job that reads comes to an end, unless the connection is lost, a file could
\* not be read, looked at or written, or a question was replaced by one about
\* another job.
JobEnds ==
    \A j \in UNION {DOMAIN s.files : s \in Scenarios} :
        (j \in DOMAIN rjob /\ ~rjob[j].last)
            ~> (j \notin DOMAIN rjob \/ lost # {} \/ faulted # {})

=============================================================================
