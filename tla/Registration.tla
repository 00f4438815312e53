----------------------------- MODULE Registration -----------------------------
(***************************************************************************)
(* The broker's reception, main in mbroker.c and the first steps of every  *)
(* session: clients write their requests to the register pipe, the main    *)
(* thread reads them into its one buffer and enqueues the buffer's         *)
(* address, and a worker that dequeues the address copies the request.     *)
(*                                                                         *)
(* The unit of memory is the cell.  A request has three: its code, the     *)
(* path of the client's pipe (here the client itself) and the box's name.  *)
(* A request to list the boxes has no name.  read() asks for three cells.  *)
(* The queue is the atomic one that PCQueue was proved to implement; main  *)
(* is its producer and the workers are its consumers.                      *)
(* The module starts when the pipe exists and the workers run.             *)
(***************************************************************************)
EXTENDS Integers, FiniteSets, SequencesExt

CONSTANTS Clients, Workers, BoxNames,
          Unset,           \* what nobody wrote in memory; no code
          NULL

VARIABLES register,        \* the cells in the register pipe
          main,            \* where the main thread is
          buffer,          \* main's buffer
          incoming,        \* what read() has still to copy: <<index, cell>>
          end,             \* set by sigint_handler
          process,         \* "running", or how the broker ended
          sigpipe,         \* what SIGPIPE does: "default" or "caught"
          queue,           \* the elements of the producer-consumer queue
          request_buffer,  \* what each worker dequeued
          worker,          \* the workers' copies of their requests
          mishaps          \* history: what has gone wrong with requests

mainVars == <<main, buffer, incoming, end>>
queueVars == <<queue, request_buffer>>
processVars == <<process, sigpipe>>
registrationVars ==
    <<register, mainVars, processVars, queueVars, worker, mishaps>>

Queue == INSTANCE FifoQueue WITH
    Producers <- {"main"}, Consumers <- Workers, Elems <- {"buffer"}, NoElem <- NULL,
    Capacity <- 2 * Cardinality(Workers), got <- request_buffer,
    offered <- [p \in {"main"} |-> IF main = "enqueue" THEN "buffer" ELSE NULL],
    asking <- {w \in Workers : worker[w].pc = "dequeue"}

PUBLISH == 1
SUBSCRIBE == 2
CREATE == 3
REMOVE == 5
LIST == 7

BoxCodes == {PUBLISH, SUBSCRIBE, CREATE, REMOVE}
Codes == BoxCodes \cup {LIST}

\* A path begins with "../", and names are text.
ASSUME CellAssumption == \A cell \in Clients \cup BoxNames \cup {Unset} : cell \notin Codes

BufferCells == 1 .. 3

Request(code, path, name) ==
    IF code = LIST THEN <<code, path>> ELSE <<code, path, name>>

Requests ==
    {<<code, path, name>> : code \in BoxCodes, path \in Clients, name \in BoxNames}
    \cup {<<LIST, path>> : path \in Clients}

Init ==
    /\ register = << >>
    /\ main = "open"
    /\ buffer = [i \in BufferCells |-> Unset]
    /\ incoming = << >>
    /\ end = 0
    /\ process = "running"
    /\ sigpipe = "default"
    /\ queue = << >>
    /\ request_buffer = [w \in Workers |-> NULL]
    /\ worker = [w \in Workers |->
                   [pc |-> "dequeue", code |-> Unset, path |-> Unset, name |-> Unset]]
    /\ mishaps = {}

------------------------------------------------------------------------------
(* The register pipe *)

\* It can be found until it is unlinked, and it has a reader between main's
\* open and main's close.
RegisterExists == main \notin {"destroy", "return"}
RegisterRead == process = "running" /\ main \in {"test", "read", "copy", "enqueue"}

\* A client's write: at most PIPE_BUF bytes, so they stay together.
WriteRegister(cells) ==
    /\ register' = register \o cells
    /\ UNCHANGED <<mainVars, processVars, queueVars, worker, mishaps>>

------------------------------------------------------------------------------
(* The main thread *)

Main(from) == process = "running" /\ main = from

\* open() returns when a client opens the pipe too; main opens the other end.
BrokerOpen(clientOpens) ==
    /\ Main("open")
    /\ clientOpens
    /\ main' = "test"
    /\ UNCHANGED <<register, buffer, incoming, end, processVars, queueVars, worker, mishaps>>


\* The loop's condition, and the close() calls after the loop.
BrokerTest ==
    /\ Main("test")
    /\ main' = IF end = 0 THEN "read" ELSE "unlink"
    /\ UNCHANGED <<register, buffer, incoming, end, processVars, queueVars, worker, mishaps>>

\* A worker has taken the address of the buffer and has yet to copy from it.
Copying(w) == worker[w].pc \in {"code", "path", "name"}

\* read() takes at most three cells, whatever was written together.
Read(most) ==
    LET n == IF Len(register) < most THEN Len(register) ELSE most
        taken == SubSeq(register, 1, n)
    IN  /\ Main("read")
        /\ register # << >>
        /\ incoming' = [i \in 1 .. n |-> <<i, taken[i]>>]
        /\ register' = SubSeq(register, n + 1, Len(register))
        /\ main' = "copy"
        /\ mishaps' = IF taken \in Requests THEN mishaps ELSE mishaps \cup {"misread"}
        /\ UNCHANGED <<buffer, end, processVars, queueVars, worker>>

BrokerRead == Read(Cardinality(BufferCells))

\* A cell gets to the buffer, whether or not all have done with what was there.
BrokerCopy ==
    /\ Main("copy")
    /\ buffer' = [buffer EXCEPT ![Head(incoming)[1]] = Head(incoming)[2]]
    /\ incoming' = Tail(incoming)
    /\ main' = IF Tail(incoming) = << >> THEN "enqueue" ELSE "copy"
    /\ mishaps' = IF queue # << >> \/ \E w \in Workers : Copying(w)
                  THEN mishaps \cup {"overrun"} ELSE mishaps
    /\ UNCHANGED <<register, end, processVars, queueVars, worker>>

\* Mutation: the request is enqueued again when it was enqueued.
BrokerEnqueueTwice ==
    /\ Main("enqueue")
    /\ Len(queue) + 1 < 2 * Cardinality(Workers)
    /\ queue' = queue \o <<"buffer", "buffer">>
    /\ main' = "test"
    /\ UNCHANGED <<register, buffer, incoming, end, processVars, request_buffer, worker, mishaps>>

BrokerEnqueue ==
    /\ Main("enqueue")
    /\ Queue!Put("buffer")
    /\ main' = "test"
    /\ UNCHANGED <<register, buffer, incoming, end, processVars, worker, mishaps>>

BrokerUnlink ==
    /\ Main("unlink")
    /\ main' = "destroy"
    /\ UNCHANGED <<register, buffer, incoming, end, processVars, queueVars, worker, mishaps>>

\* tfs_destroy: the tables are freed and their addresses forgotten.
BrokerDestroy ==
    /\ Main("destroy")
    /\ main' = "return"
    /\ UNCHANGED <<register, buffer, incoming, end, processVars, queueVars, worker, mishaps>>

Destroyed == main = "return"

\* main returns, and that ends all the threads.
BrokerReturn ==
    /\ Main("return")
    /\ process' = "exited"
    /\ UNCHANGED <<register, mainVars, sigpipe, queueVars, worker, mishaps>>

BrokerStep ==
    \/ BrokerTest   \/ BrokerRead    \/ BrokerCopy \/ BrokerEnqueue
    \/ BrokerUnlink \/ BrokerDestroy

\* The first SIGINT.  If main is in open() or read() the call fails; main
\* enqueues its buffer whatever read() returns.  The signal may also come just
\* before the call.
BrokerSigint ==
    /\ process = "running"
    /\ end = 0
    /\ end' = 1
    /\ \/ UNCHANGED <<main, mishaps>>
       \/ main = "open" /\ main' = "unlink" /\ UNCHANGED mishaps
       \/ main = "read" /\ main' = "enqueue" /\ mishaps' = mishaps \cup {"repeated"}
    /\ UNCHANGED <<register, buffer, incoming, processVars, queueVars, worker>>

------------------------------------------------------------------------------
(* The workers *)

At(w, label) == process = "running" /\ worker[w].pc = label

WorkerDequeue(w) ==
    /\ At(w, "dequeue")
    /\ Queue!Take(w)
    /\ worker' = [worker EXCEPT ![w].pc = "code"]
    /\ UNCHANGED <<register, mainVars, processVars, mishaps>>

\* The copies are made one after the other, and main may write in between.  A
\* code that is unknown ends the matter; a subscription installs the handler.
CopyCode(w) ==
    /\ At(w, "code")
    /\ worker' = [worker EXCEPT ![w].pc = IF buffer[1] \in Codes THEN "path" ELSE "dequeue",
                                ![w].code = buffer[1]]
    /\ sigpipe' = IF buffer[1] = SUBSCRIBE THEN "caught" ELSE sigpipe
    /\ UNCHANGED <<register, mainVars, process, queueVars, mishaps>>

CopyPath(w) ==
    /\ At(w, "path")
    /\ worker' = [worker EXCEPT ![w].pc = IF worker[w].code = LIST THEN "open" ELSE "name",
                                ![w].path = buffer[2]]
    /\ UNCHANGED <<register, mainVars, processVars, queueVars, mishaps>>

CopyName(w) ==
    /\ At(w, "name")
    /\ worker' = [worker EXCEPT ![w].pc = "open", ![w].name = buffer[3]]
    /\ UNCHANGED <<register, mainVars, processVars, queueVars, mishaps>>

WorkerCopies(w) == WorkerDequeue(w) \/ CopyCode(w) \/ CopyPath(w) \/ CopyName(w)

\* A worker with its copy of a request, until its session ends.
InSession(w) == worker[w].pc \notin {"dequeue", "code", "path", "name"}
==============================================================================
