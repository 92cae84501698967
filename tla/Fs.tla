---------------------------------- MODULE Fs ----------------------------------
(***************************************************************************)
(* Requests to the file system: src/src/modules/iotjs_module_fs.c, and the *)
(* operations of src/src/js/fs.js that are made of several of them,        *)
(* readFile and writeFile.  A request is carried out by the thread pool,   *)
(* in any order with the others, and its callback runs on the loop.  The   *)
(* kernel is here as far as the callers see it: descriptors are the lowest *)
(* free numbers, a number closed twice may meanwhile name another file.    *)
(* A unit of data stands for the 1023 bytes of one read or write.          *)
(***************************************************************************)
EXTENDS Integers, Sequences, FiniteSets, FiniteSetsExt

CONSTANTS MaxFds,        \* bound: descriptors of the process
          MaxJobs        \* bound: operations of the application

ASSUME FsAssumption == MaxFds \in Nat \ {0} /\ MaxJobs \in Nat

VARIABLE fs

Fds == 1 .. MaxFds
Jobs == 1 .. MaxJobs
NoFile == [name |-> "none", pos |-> 0, owner |-> 0]
Idle == [op |-> "none", name |-> "none", len |-> 0, fd |-> 0, data |-> << >>,
         written |-> 0, answers |-> << >>]
\* The requests that are one operation of fs.js each, and the name they are for
PathCalls == [stat |-> "a", lstat |-> "a", fstat |-> "a", mkdir |-> "d", rmdir |-> "d",
              unlink |-> "u", rename |-> "u", readdir |-> "d"]

FsInit ==
    fs = [content |-> [n \in {"a", "b"} |-> IF n = "a" THEN <<"a1", "a2">> ELSE << >>],
          names   |-> {"a", "u"},             \* the names that exist
          fds     |-> [fd \in Fds |-> NoFile],
          jobs    |-> [j \in Jobs |-> Idle],
          reqs    |-> {},                     \* iotjs_fs_reqwrap_t of the requests
          thrown  |-> FALSE,                  \* an exception nobody catches
          fault   |-> FALSE,                  \* history: a read or write failed or fell short
          stray   |-> FALSE]                  \* history: a descriptor was closed by another

-----------------------------------------------------------------------------
(* The kernel: the result of a system call, and the file system after it *)

Ok(value) == [ok |-> TRUE, value |-> value]
Failed == [ok |-> FALSE, value |-> 0]
FreeFds(f) == {fd \in Fds : f.fds[fd] = NoFile}

\* open(2): for reading, or for writing a file that is made or emptied
KernelOpen(f, r) ==
    LET fd == Min(FreeFds(f))
        g == [f EXCEPT !.fds[fd] = [name |-> r.name, pos |-> 0, owner |-> r.job]]
    IN  IF FreeFds(f) = {} \/ (r.call = "openR" /\ r.name \notin f.names) THEN <<Failed, f>>
        ELSE IF r.call = "openR" THEN <<Ok(fd), g>>
        ELSE <<Ok(fd), [g EXCEPT !.content[r.name] = << >>, !.names = @ \cup {r.name}]>>

\* read(2) at the file's position: a unit, the end of the file, or an error
KernelRead(f, r, faulty) ==
    LET file == f.fds[r.fd]
        data == f.content[file.name]
    IN  IF file = NoFile \/ faulty
        THEN <<Failed, [f EXCEPT !.fault = TRUE]>>
        ELSE IF file.pos < Len(data)
        THEN <<Ok(<<data[file.pos + 1]>>), [f EXCEPT !.fds[r.fd].pos = @ + 1]>>
        ELSE <<Ok(<< >>), f>>

\* pwrite(2) of a unit; nothing may be written when the device is full
KernelWrite(f, r, faulty, n) ==
    LET file == f.fds[r.fd]
        old == f.content[file.name]
    IN  IF file = NoFile \/ faulty
        THEN <<Failed, [f EXCEPT !.fault = TRUE]>>
        ELSE IF n = 0 THEN <<Ok(0), [f EXCEPT !.fault = TRUE]>>
        ELSE <<Ok(1), [f EXCEPT !.content[file.name] =
                           SubSeq(old, 1, r.pos) \o <<r.unit>>
                           \o SubSeq(old, r.pos + 2, Len(old))]>>

\* close(2)
KernelClose(f, r) ==
    IF f.fds[r.fd] = NoFile THEN <<Failed, f>>
    ELSE <<Ok(0), [f EXCEPT !.fds[r.fd] = NoFile,
                            !.stray = @ \/ f.fds[r.fd].owner # r.job]>>

\* The calls on a path: stat, mkdir, rmdir, unlink, rename, scandir
KernelPath(f, r) ==
    LET here == r.name \in f.names
    IN  CASE r.call \in {"stat", "lstat", "fstat", "readdir"} ->
                 <<IF here THEN Ok(0) ELSE Failed, f>>
          [] r.call = "mkdir" -> <<IF here THEN Failed ELSE Ok(0),
                                   [f EXCEPT !.names = @ \cup {r.name}]>>
          [] r.call \in {"rmdir", "unlink"} -> <<IF here THEN Ok(0) ELSE Failed,
                                   [f EXCEPT !.names = @ \ {r.name}]>>
          [] r.call = "rename" -> <<IF here THEN Ok(0) ELSE Failed,
                                   IF here THEN [f EXCEPT !.names = (@ \ {r.name}) \cup {"v"}]
                                   ELSE f>>

Kernel(f, r, faulty, n) ==
    CASE r.call \in {"openR", "openW"} -> KernelOpen(f, r)
      [] r.call = "read"  -> KernelRead(f, r, faulty)
      [] r.call = "write" -> KernelWrite(f, r, faulty, n)
      [] r.call = "close" -> KernelClose(f, r)
      [] OTHER            -> KernelPath(f, r)

-----------------------------------------------------------------------------
(* The binding's calls: FS_ASYNC makes a request, whose callback is `then` *)

Request(f, j, call, then) ==
    LET job == f.jobs[j]
    IN  [f EXCEPT !.reqs = @ \cup
            {[job |-> j, call |-> call, then |-> then, fd |-> job.fd, name |-> job.name,
              pos |-> job.written, unit |-> <<j, job.written + 1>>,
              state |-> "queued", result |-> Failed]}]

\* Read and Write refuse a buffer without bytes, and the exception leaves the
\* callback that called them
WriteUnit(f, j) ==
    IF f.jobs[j].len = 0 THEN [f EXCEPT !.thrown = TRUE]
    ELSE Request(f, j, "write", "write")

Answer_fs(f, j, ok, data) ==
    [f EXCEPT !.jobs[j].answers = Append(@, [ok |-> ok, data |-> data])]

-----------------------------------------------------------------------------
(* The callbacks of readFile and writeFile *)

\* The callback of open in readFile and writeFile
AfterOpen(f, r) ==
    LET g == [f EXCEPT !.jobs[r.job].fd = r.result.value]
    IN  IF ~r.result.ok THEN Answer_fs(f, r.job, FALSE, << >>)
        ELSE IF f.jobs[r.job].op = "readFile" THEN Request(g, r.job, "read", "read")
        ELSE WriteUnit(g, r.job)

\* Mutant: the end of the file closes the descriptor and reads on
AtEnd_ReadsOn(f, j) == Request(Request(f, j, "close", "close"), j, "read", "read")

\* afterRead at the end of the file: close
AtEnd(f, j) == Request(f, j, "close", "close")

\* afterRead: an error closes the descriptor and, as nothing returns there, the end
\* of the file that follows from `bytesRead || 0` closes it a second time
AfterRead(f, r) ==
    LET g == [f EXCEPT !.jobs[r.job].data = @ \o r.result.value]
    IN  IF ~r.result.ok
        THEN AtEnd(Request(f, r.job, "close", "failed"), r.job)
        ELSE IF r.result.value = << >> THEN AtEnd(g, r.job)
        ELSE Request(g, r.job, "read", "read")

\* afterWrite: an error closes the descriptor and goes on with a count that is not a
\* number, which Write refuses
AfterWrite_fs(f, r) ==
    LET g == [f EXCEPT !.jobs[r.job].written = @ + r.result.value]
        all == g.jobs[r.job].written = g.jobs[r.job].len
    IN  IF ~r.result.ok THEN [Request(f, r.job, "close", "failed") EXCEPT !.thrown = TRUE]
        ELSE IF r.result.value = 0 \/ all THEN Request(f, r.job, "close", "close")
        ELSE WriteUnit(g, r.job)

\* The callbacks of close: after an error the error is that of close, and no data
AfterClose_fs(f, r) ==
    Answer_fs(f, r.job, r.result.ok,
              IF r.then = "failed" THEN << >> ELSE f.jobs[r.job].data)

\* AfterAsync: the callback runs and the request is gone
AfterAsync(f, r) ==
    LET g == [f EXCEPT !.reqs = @ \ {r}]
    IN  CASE r.then = "open"  -> AfterOpen(g, r)
          [] r.then = "read"  -> AfterRead(g, r)
          [] r.then = "write" -> AfterWrite_fs(g, r)
          [] r.then \in {"close", "failed"} -> AfterClose_fs(g, r)
          [] r.then = "answer" -> Answer_fs(g, r.job, r.result.ok, << >>)

-----------------------------------------------------------------------------
(* Actions *)

NewJob(j) ==
    /\ ~fs.thrown /\ fs.jobs[j] = Idle
    /\ \A k \in Jobs : k < j => fs.jobs[k] # Idle

\* FS_ASYNC when the loop cannot take the request: AfterAsync in the call
Submit(f, j, call, then, fails) ==
    LET g == Request(f, j, call, then)
        r == CHOOSE q \in g.reqs : q.job = j
    IN  IF fails THEN AfterAsync(g, r) ELSE g

ReadFile(j, name, fails) ==
    LET job == [Idle EXCEPT !.op = "readFile", !.name = name]
    IN  /\ NewJob(j)
        /\ fs' = Submit([fs EXCEPT !.jobs[j] = job], j, "openR", "open", fails)

WriteFile(j, name, len, fails) ==
    LET job == [Idle EXCEPT !.op = "writeFile", !.name = name, !.len = len]
    IN  /\ NewJob(j)
        /\ \A k \in Jobs : fs.jobs[k].name # name
        /\ fs' = Submit([fs EXCEPT !.jobs[j] = job], j, "openW", "open", fails)

\* Stat, Lstat, Fstat, MkDir, RmDir, Unlink, Rename and ReadDir with a callback
PathCall(j, call, fails) ==
    LET job == [Idle EXCEPT !.op = call, !.name = PathCalls[call]]
    IN  /\ NewJob(j)
        /\ fs' = Submit([fs EXCEPT !.jobs[j] = job], j, call, "answer", fails)

\* FS_SYNC and AfterSync: the same calls without a callback
PathCallSync(j, call) ==
    LET job == [Idle EXCEPT !.op = call, !.name = PathCalls[call]]
        k == Kernel(fs, [call |-> call, name |-> job.name], FALSE, 1)
    IN  /\ NewJob(j)
        /\ fs' = Answer_fs([k[2] EXCEPT !.jobs[j] = job], j, k[1].ok, << >>)

\* The thread pool carries a request out
Works(r, faulty, n) ==
    /\ r.state = "queued"
    /\ faulty => r.call \in {"read", "write"}
    /\ n = 0 => r.call = "write"
    /\ LET k == Kernel(fs, r, faulty, n)
       IN  fs' = [k[2] EXCEPT !.reqs = (@ \ {r}) \cup
                     {[r EXCEPT !.state = "done", !.result = k[1]]}]

\* The loop runs its callback
Completes(r) ==
    /\ r.state = "done" /\ ~fs.thrown
    /\ fs' = AfterAsync(fs, r)

FsNext ==
    \/ \E j \in Jobs, name \in {"a", "b"}, fails \in BOOLEAN : ReadFile(j, name, fails)
    \/ \E j \in Jobs, len \in {0, 2}, fails \in BOOLEAN : WriteFile(j, "b", len, fails)
    \/ \E j \in Jobs, call \in DOMAIN PathCalls, fails \in BOOLEAN : PathCall(j, call, fails)
    \/ \E j \in Jobs, call \in DOMAIN PathCalls : PathCallSync(j, call)
    \/ \E r \in fs.reqs, faulty \in BOOLEAN, n \in {0, 1} : Works(r, faulty, n)
    \/ \E r \in fs.reqs : Completes(r)

-----------------------------------------------------------------------------
(* Properties *)

Served(j) == fs.jobs[j] # Idle /\ {r \in fs.reqs : r.job = j} = {}
Writers(name) == {j \in Jobs : fs.jobs[j].op = "writeFile" /\ fs.jobs[j].name = name}

\* As long as no read or write fails and no callback throws, however the requests of
\* concurrent operations interleave on the thread pool and their descriptors are taken
\* over by each other (a callback throws in two cases: after a failed read, and in a
\* writeFile of no data, whose write request is refused with an exception, after which
\* its descriptor stays open and it is never answered, iotjs_module_fs.c:291-292):
\* every operation is answered once, a readFile with the whole of its own file, a
\* writeFile that reports success has written all it was given (readFile, writeFile),
\* and each closes its own descriptor, once.
FilesWhole ==
    ~fs.fault /\ ~fs.thrown =>
        /\ ~fs.stray
        /\ \A j \in Jobs : Len(fs.jobs[j].answers) <= 1
        /\ \A j \in Jobs : Served(j) =>
            LET job == fs.jobs[j]
                a == job.answers[1]
            IN  /\ Len(job.answers) = 1
                /\ \A fd \in Fds : fs.fds[fd].owner # j
                /\ a.ok /\ job.op = "readFile" /\ Writers(job.name) = {} =>
                       a.data = fs.content[job.name]
                /\ a.ok /\ job.op = "writeFile" =>
                       fs.content[job.name] = [i \in 1 .. job.len |-> <<j, i>>]

=============================================================================
