------------------------------- MODULE Clients -------------------------------
(***************************************************************************)
(* The client programs (publisher/pub.c, subscriber/sub.c,                 *)
(* manager/manager.c) and the other end of their sessions, from the        *)
(* request that they write to the register pipe to the last read of their  *)
(* own pipe.  A pipe holds cells: what is written together need not be     *)
(* read together, and read() returns what there is.                        *)
(*                                                                         *)
(* What boxes hold and whether a request is granted is up to Sessions;     *)
(* here it is a choice.  A message has one cell for its code and the rest  *)
(* for its text, which ends with a NUL; all responses have that size.      *)
(***************************************************************************)
EXTENDS Registration

CONSTANTS NUL,             \* the character '\0'
          MessageSize,     \* the cells of a Message
          Scenarios        \* for each client its code, box, texts and SIGINTs

INSTANCE CStrings

VARIABLES client,          \* where each client is, and what it works on
          pipe,            \* each client's pipe
          left,            \* the texts still to be written to it
          sigints,         \* who will get a SIGINT
          session          \* history: how each client was served

clientVars == <<client, pipe, left, sigints, session>>
vars == <<registrationVars, clientVars>>

ASSUME ClientAssumption == Clients \cap Workers = {}

\* Managers that create or remove a box have no texts.
ASSUME ScenarioAssumption ==
    \A s \in Scenarios :
        /\ DOMAIN s.texts = Clients
        /\ \A c \in Clients :
            /\ s.names[c] \in BoxNames
            /\ s.codes[c] \in {CREATE, REMOVE} => s.texts[c] = << >>

\* The test strings are shorter than a message.  A text leaves room for its code
\* and a NUL, and has none (fgets, publisher/pub.c:87).
ASSUME TextAssumption ==
    /\ MessageSize \in Nat /\ MessageSize >= 3
    /\ NUL \notin {"OK", "ERROR"}
    /\ \A s \in Scenarios : \A c \in Clients :
        /\ s.texts[c] \in Seq(Range(s.texts[c]))
        /\ \A text \in Range(s.texts[c]) :
            text \in Seq(Range(text) \ {NUL}) /\ Len(text) <= MessageSize - 2

\* The test strings have two cells.
PublisherTest == <<"0", NUL>>
SubscriberTest == <<"test", NUL>>

NoPipe == [made |-> FALSE, readers |-> {}, writers |-> {}, opened |-> {}, cells |-> << >>]

ClientsInit(s) ==
    /\ client = [c \in Clients |->
                   [pc |-> IF s.codes[c] \in Codes THEN "start" ELSE "done", code |-> s.codes[c], name |-> s.names[c],
                    end |-> 0, data |-> << >>]]
    /\ pipe = [c \in Clients |-> NoPipe]
    /\ left = s.texts
    /\ sigints = s.sigints
    /\ session = [c \in Clients |->
                    [served |-> 0, granted |-> "undecided", written |-> << >>,
                     received |-> << >>, joined |-> FALSE, early |-> FALSE]]

SystemInit == Init /\ \E s \in Scenarios : ClientsInit(s)

------------------------------------------------------------------------------
(* Pipes *)

\* open(): x is one of the readers, or writers, at once, and the call returns
\* when there are both; it has "opened" for all who are there then.
Opening(p, x, side) ==
    LET q == [p EXCEPT ![side] = @ \cup {x}]
    IN  IF q.readers = {} \/ q.writers = {} THEN q
        ELSE [q EXCEPT !.opened = q.readers \cup q.writers]

\* close(), or the end of the process: with the last end the data is gone.
Closing(p, xs) ==
    LET q == [p EXCEPT !.readers = @ \ xs, !.writers = @ \ xs, !.opened = @ \ xs]
    IN  [q EXCEPT !.cells = IF q.readers = {} /\ q.writers = {} THEN << >> ELSE @]

\* Mutation: only the text and its NUL are sent, not the whole field.
MessageUnpadded(code, text) == <<code>> \o Append(text, NUL)

Message(code, text) == <<code>> \o Stored(text, MessageSize - 1)
TextOf(data) == StringAt(data, 2)

\* What read() returns, when it returns: up to a message, or nothing at the end.
CanRead(c) == pipe[c].cells # << >> \/ pipe[c].writers = {}
Taken(c) ==
    SubSeq(pipe[c].cells, 1, IF Len(pipe[c].cells) < MessageSize
                             THEN Len(pipe[c].cells) ELSE MessageSize)
ReadPipe(c) ==
    /\ CanRead(c)
    /\ pipe' = [pipe EXCEPT ![c].cells = SubSeq(@, Len(Taken(c)) + 1, Len(@))]

\* write(): without a reader there is a SIGPIPE instead.
Writable(c) == pipe[c].readers # {}
WritePipe(c, cells) ==
    /\ Writable(c)
    /\ pipe' = [pipe EXCEPT ![c].cells = @ \o cells]

------------------------------------------------------------------------------
(* All clients *)

Client(c, label) == client[c].pc = label

GoOn(c, label) == client' = [client EXCEPT ![c].pc = label]

\* exit() or a signal: the pipe stays, as a file without this end.
Dies(c) ==
    /\ GoOn(c, "failed")
    /\ pipe' = [pipe EXCEPT ![c] = Closing(@, {c})]

\* open() of the register pipe for writing waits for the broker.
OpenRegister(c) ==
    /\ Client(c, "start")
    /\ \/ RegisterRead /\ GoOn(c, "send")
       \/ ~ RegisterExists /\ GoOn(c, "failed")
    /\ UNCHANGED <<registrationVars, pipe, left, sigints, session>>

\* Mutation: the request is written before mkfifo.
SendRequestFirst(c) ==
    /\ Client(c, "send")
    /\ RegisterRead
    /\ WriteRegister(Request(client[c].code, c, client[c].name))
    /\ GoOn(c, "open")
    /\ UNCHANGED <<pipe, left, sigints, session>>

\* mkfifo, and the request is written.
SendRequest(c) ==
    /\ Client(c, "send")
    /\ pipe' = [pipe EXCEPT ![c].made = TRUE]
    /\ \/ /\ RegisterRead
          /\ WriteRegister(Request(client[c].code, c, client[c].name))
          /\ GoOn(c, "open")
       \/ /\ ~ RegisterRead
          /\ GoOn(c, "failed")
          /\ UNCHANGED registrationVars
    /\ UNCHANGED <<left, sigints, session>>


Side(code) == IF code = PUBLISH THEN "writers" ELSE "readers"

OpenPipe(c) ==
    /\ Client(c, "open")
    /\ pipe' = [pipe EXCEPT ![c] = Opening(@, c, Side(client[c].code))]
    /\ GoOn(c, "opening")
    /\ UNCHANGED <<registrationVars, left, sigints, session>>

\* A subscriber sets "end" here: a SIGINT that came before is forgotten.
PipeOpened(c) ==
    /\ Client(c, "opening")
    /\ c \in pipe[c].opened
    /\ client' = [client EXCEPT
                    ![c].pc = CASE client[c].code = PUBLISH -> "sleep"
                                [] client[c].code = SUBSCRIBE -> "test"
                                [] client[c].code \in {CREATE, REMOVE} -> "response"
                                [] client[c].code = LIST -> "list",
                    ![c].end = IF client[c].code = SUBSCRIBE THEN 0 ELSE @]
    /\ UNCHANGED <<registrationVars, pipe, left, sigints, session>>

\* close and unlink.
CloseClient(c) ==
    /\ Client(c, "close")
    /\ GoOn(c, "done")
    /\ pipe' = [pipe EXCEPT ![c] = [Closing(@, {c}) EXCEPT !.made = FALSE]]
    /\ UNCHANGED <<registrationVars, left, sigints, session>>

Received(c, text) == session' = [session EXCEPT ![c].received = Append(@, text)]
WasWritten(c, text) == session' = [session EXCEPT ![c].written = Append(@, text)]

------------------------------------------------------------------------------
(* publisher/pub.c *)

\* A worker that has opened c's pipe and has not yet let c in nor shut it out.
Undecided(c) ==
    \E w \in Workers : worker[w].path = c /\ worker[w].pc \in {"opening", "decide", "close"}

\* The 10 ms are over, whatever the broker has done; and "end" is set here, so
\* that a SIGINT that came before is forgotten.
PublisherSleeps(c) ==
    /\ Client(c, "sleep")
    /\ client' = [client EXCEPT ![c].pc = "test", ![c].end = 0]
    /\ UNCHANGED <<registrationVars, pipe, left, sigints, session>>

\* Without a reader sigpipe_handler says so and sets "end".
PublisherTests(c) ==
    /\ Client(c, "test") /\ client[c].code = PUBLISH
    /\ \/ /\ WritePipe(c, PublisherTest)
          /\ GoOn(c, "loop")
       \/ /\ ~ Writable(c)
          /\ client' = [client EXCEPT ![c].pc = "loop", ![c].end = 1]
          /\ UNCHANGED pipe
    /\ session' = [session EXCEPT ![c].early = Undecided(c)]
    /\ UNCHANGED <<registrationVars, left, sigints>>

PublisherLoop(c) ==
    /\ Client(c, "loop")
    /\ GoOn(c, IF client[c].end = 0 THEN "fgets" ELSE "close")
    /\ UNCHANGED <<registrationVars, pipe, left, sigints, session>>

\* The user types a line, or ends the input.
PublisherReadsLine(c) ==
    /\ Client(c, "fgets")
    /\ \/ /\ left[c] # << >>
          /\ client' = [client EXCEPT ![c].pc = "write", ![c].data = Head(left[c])]
          /\ left' = [left EXCEPT ![c] = Tail(@)]
       \/ GoOn(c, "close") /\ UNCHANGED left
    /\ UNCHANGED <<registrationVars, pipe, sigints, session>>

PublisherWrites(c) ==
    /\ Client(c, "write")
    /\ \/ /\ WritePipe(c, Message("9", client[c].data))
          /\ WasWritten(c, client[c].data)
          /\ GoOn(c, "loop")
       \/ /\ ~ Writable(c)
          /\ Dies(c)
          /\ UNCHANGED session
    /\ UNCHANGED <<registrationVars, left, sigints>>

PublisherStep(c) ==
    \/ PublisherSleeps(c) \/ PublisherTests(c) \/ PublisherLoop(c) \/ PublisherWrites(c)

------------------------------------------------------------------------------
(* subscriber/sub.c *)

\* strcmp with "test" succeeds if messages follow the test string, too: they
\* are dropped with it.
SubscriberTests(c) ==
    /\ Client(c, "test") /\ client[c].code = SUBSCRIBE
    /\ ReadPipe(c)
    /\ IF IsPrefix(SubscriberTest, Taken(c))
         THEN /\ GoOn(c, "first")
              /\ session' = [session EXCEPT ![c].joined = Len(Taken(c)) > Len(SubscriberTest)]
         ELSE GoOn(c, "close") /\ UNCHANGED session
    /\ UNCHANGED <<registrationVars, left, sigints>>

\* The first read is not checked: at the end of the pipe the buffer still holds
\* the test string, which is no message.
SubscriberReads(c) ==
    /\ Client(c, "first") \/ Client(c, "read")
    /\ ReadPipe(c)
    /\ client' = [client EXCEPT ![c].pc = IF Taken(c) = << >> /\ @ = "read" THEN "close" ELSE "print",
                                ![c].data = Taken(c)]
    /\ UNCHANGED <<registrationVars, left, sigints, session>>

\* The loop's condition, and then what was read is printed if it is a message.
SubscriberPrints(c) ==
    /\ Client(c, "print")
    /\ GoOn(c, IF client[c].end = 0 THEN "read" ELSE "close")
    /\ IF client[c].end = 0 /\ IsPrefix(<<"10">>, client[c].data)
         THEN Received(c, TextOf(client[c].data))
         ELSE UNCHANGED session
    /\ UNCHANGED <<registrationVars, pipe, left, sigints>>

SubscriberStep(c) == SubscriberTests(c) \/ SubscriberReads(c) \/ SubscriberPrints(c)

------------------------------------------------------------------------------
(* manager/manager.c *)

\* The response to create and remove; nothing is printed for another code.
ManagerReads(c) ==
    /\ Client(c, "response")
    /\ ReadPipe(c)
    /\ GoOn(c, "close")
    /\ IF Taken(c) # << >> /\ Taken(c)[1] \in {"4", "6"}
         THEN Received(c, TextOf(Taken(c))) ELSE UNCHANGED session
    /\ UNCHANGED <<registrationVars, left, sigints>>

\* Mutation: one response is taken for the whole listing.
ManagerListsOne(c) ==
    /\ Client(c, "list")
    /\ ReadPipe(c)
    /\ GoOn(c, "close")
    /\ IF IsPrefix(<<"8">>, Taken(c))
         THEN Received(c, TextOf(Taken(c))) ELSE UNCHANGED session
    /\ UNCHANGED <<registrationVars, left, sigints>>

\* The responses to list, one per box, to the end of the pipe.
ManagerLists(c) ==
    /\ Client(c, "list")
    /\ ReadPipe(c)
    /\ GoOn(c, IF Taken(c) = << >> THEN "close" ELSE "list")
    /\ IF IsPrefix(<<"8">>, Taken(c))
         THEN Received(c, TextOf(Taken(c))) ELSE UNCHANGED session
    /\ UNCHANGED <<registrationVars, left, sigints>>

ClientStep(c) ==
    \/ OpenRegister(c)  \/ SendRequest(c)    \/ OpenPipe(c)     \/ PipeOpened(c)
    \/ PublisherStep(c) \/ SubscriberStep(c) \/ ManagerReads(c) \/ ManagerLists(c)
    \/ CloseClient(c)

\* SIGINT.  Managers do not handle it.  The others note it, and a call that they
\* are in fails: open, which is fatal; fgets; read, whose buffer keeps what it
\* had.  The signal may also come just before the call.
ClientSigint(c) ==
    /\ c \in sigints
    /\ sigints' = sigints \ {c}
    /\ client[c].pc \notin {"done", "failed"}
    /\ \/ /\ \/ client[c].code \in {CREATE, REMOVE, LIST}
             \/ client[c].pc \in {"start", "opening"}
          /\ Dies(c)
       \/ /\ client[c].code \in {PUBLISH, SUBSCRIBE}
          /\ \E pc \in {client[c].pc} \cup
                       (IF client[c].pc = "fgets" THEN {"close"} ELSE {}) \cup
                       (IF client[c].pc = "test" /\ client[c].code = SUBSCRIBE
                        THEN {"close"} ELSE {}) \cup
                       (IF client[c].pc \in {"first", "read"} THEN {"print"} ELSE {}) :
                client' = [client EXCEPT ![c].pc = pc, ![c].end = 1]
          /\ UNCHANGED pipe
    /\ UNCHANGED <<registrationVars, left, session>>

------------------------------------------------------------------------------
(* mbroker/mbroker.c, worker_thread_func: the sessions as the clients see them *)

path(w) == worker[w].path

\* The variables that no session changes.
UnchangedByWorkers == UNCHANGED <<register, mainVars, queueVars, mishaps, client, sigints>>

WorkerGoesOn(w, label) == worker' = [worker EXCEPT ![w].pc = label]

\* The process ends, and with it the broker's ends of all pipes.
BrokerEnds(how) ==
    /\ process' = how
    /\ pipe' = [c \in Clients |-> Closing(pipe[c], Workers)]

\* open() of the client's pipe; a path that leads nowhere is fatal.
WorkerOpens(w) ==
    /\ At(w, "open")
    /\ IF path(w) \in Clients /\ pipe[path(w)].made
         THEN /\ pipe' = [pipe EXCEPT ![path(w)] =
                            Opening(@, w, IF worker[w].code = PUBLISH THEN "readers" ELSE "writers")]
              /\ WorkerGoesOn(w, "opening")
              /\ UNCHANGED process
         ELSE BrokerEnds("failed") /\ UNCHANGED worker
    /\ UnchangedByWorkers /\ UNCHANGED <<sigpipe, left, session>>

PipeOpenedToWorker(w) ==
    /\ At(w, "opening")
    /\ w \in pipe[path(w)].opened
    /\ WorkerGoesOn(w, "decide")
    /\ session' = [session EXCEPT ![path(w)].served = @ + 1]
    /\ UnchangedByWorkers /\ UNCHANGED <<processVars, pipe, left>>

\* tfs_open or tfs_unlink, find_box and the test of both: what comes of them is
\* open here, unless tfs_destroy was faster.  A list request is always granted.
Granted(code) ==
    CASE code = PUBLISH -> "p_test"
      [] code = SUBSCRIBE -> "s_test"
      [] code \in {CREATE, REMOVE} -> "m_respond"
      [] code = LIST -> "l_respond"

WorkerDecides(w) ==
    /\ At(w, "decide")
    /\ \/ /\ Destroyed /\ worker[w].code # LIST
          /\ BrokerEnds("memory fault")
          /\ UNCHANGED <<worker, session>>
       \/ /\ ~ Destroyed \/ worker[w].code = LIST
          /\ WorkerGoesOn(w, Granted(worker[w].code))
          /\ session' = [session EXCEPT ![path(w)].granted = "yes"]
          /\ UNCHANGED <<process, pipe>>
       \/ /\ ~ Destroyed /\ worker[w].code # LIST
          /\ WorkerGoesOn(w, IF worker[w].code \in {CREATE, REMOVE} THEN "m_respond" ELSE "close")
          /\ session' = [session EXCEPT ![path(w)].granted = "no"]
          /\ UNCHANGED <<process, pipe>>
    /\ UnchangedByWorkers /\ UNCHANGED <<sigpipe, left>>

\* Mutation: a publisher who is not let in keeps its pipe.
WorkerForgetsToClose(w) ==
    /\ At(w, "close")
    /\ WorkerGoesOn(w, "dequeue")
    /\ UnchangedByWorkers /\ UNCHANGED <<processVars, pipe, left, session>>

WorkerCloses(w) ==
    /\ At(w, "close")
    /\ worker' = [worker EXCEPT ![w] = [pc |-> "dequeue", code |-> Unset,
                                       path |-> Unset, name |-> Unset]]
    /\ pipe' = [pipe EXCEPT ![path(w)] = Closing(@, {w})]
    /\ UnchangedByWorkers /\ UNCHANGED <<processVars, left, session>>

\* The first read is for the test string; what else it takes is ignored.
WorkerReadsTest(w) ==
    /\ At(w, "p_test")
    /\ ReadPipe(path(w))
    /\ WorkerGoesOn(w, "p_next")
    /\ session' = [session EXCEPT ![path(w)].joined =
                     Len(Taken(path(w))) > Len(PublisherTest)]
    /\ UnchangedByWorkers /\ UNCHANGED <<processVars, left>>

\* A message is read and written to the box, up to the end of the pipe or until
\* the box is full.  The code of the message is not looked at.
WorkerStores(w) ==
    LET data == Taken(path(w))
    IN  /\ At(w, "p_next")
        /\ CanRead(path(w))
        /\ \/ /\ data # << >> /\ ~ Destroyed
              /\ ReadPipe(path(w))
              /\ Received(path(w), TextOf(data))
              /\ UNCHANGED <<worker, process>>
           \/ /\ ~ Destroyed \/ data = << >>
              /\ ReadPipe(path(w))
              /\ WorkerGoesOn(w, "close")
              /\ UNCHANGED <<process, session>>
           \/ /\ data # << >> /\ Destroyed
              /\ BrokerEnds("memory fault")
              /\ UNCHANGED <<worker, session>>
        /\ UnchangedByWorkers /\ UNCHANGED <<sigpipe, left>>

\* write() to a subscriber.  The handler catches one SIGPIPE.
WorkerWrites(w, cells, sent, failed) ==
    \/ /\ WritePipe(path(w), cells)
       /\ WorkerGoesOn(w, sent)
       /\ UNCHANGED processVars
    \/ /\ ~ Writable(path(w))
       /\ IF sigpipe = "caught"
            THEN sigpipe' = "default" /\ WorkerGoesOn(w, failed) /\ UNCHANGED <<process, pipe>>
            ELSE BrokerEnds("killed") /\ UNCHANGED <<worker, sigpipe>>

WorkerSendsTest(w) ==
    /\ At(w, "s_test")
    /\ WorkerWrites(w, SubscriberTest, "s_read", "s_read")
    /\ UnchangedByWorkers /\ UNCHANGED <<left, session>>

\* tfs_read, for the replay or when a message was published.
WorkerReads(w, label) ==
    /\ \/ ~ Destroyed /\ WorkerGoesOn(w, label) /\ UNCHANGED <<process, pipe>>
       \/ Destroyed /\ BrokerEnds("memory fault") /\ UNCHANGED worker
    /\ UnchangedByWorkers /\ UNCHANGED <<sigpipe, left, session>>

WorkerReadsBox(w) == At(w, "s_read") /\ WorkerReads(w, "s_replay")

WorkerWaits(w) ==
    /\ At(w, "s_wait")
    /\ left[path(w)] # << >>
    /\ WorkerReads(w, "s_push")

\* While what was in the box is replayed nobody looks at the result of write().
WorkerSends(w) ==
    /\ At(w, "s_replay") \/ At(w, "s_push")
    /\ left[path(w)] # << >>
    /\ WorkerWrites(w, Message("10", Head(left[path(w)])),
                    IF worker[w].pc = "s_push" THEN "s_wait" ELSE "s_replay",
                    IF worker[w].pc = "s_push" THEN "close" ELSE "s_replay")
    /\ left' = [left EXCEPT ![path(w)] = Tail(@)]
    /\ WasWritten(path(w), Head(left[path(w)]))
    /\ UnchangedByWorkers

\* The replay ends before any of the texts: the rest is published later.
WorkerReplayed(w) ==
    /\ At(w, "s_replay")
    /\ WorkerGoesOn(w, "s_wait")
    /\ UnchangedByWorkers /\ UNCHANGED <<processVars, pipe, left, session>>

\* send_box_response, and a response for each box: a failure is fatal, with the
\* handler too.
Responds(w, cells, label, text) ==
    /\ \/ /\ WritePipe(path(w), cells)
          /\ WorkerGoesOn(w, label)
          /\ WasWritten(path(w), text)
          /\ UNCHANGED process
       \/ /\ ~ Writable(path(w))
          /\ BrokerEnds(IF sigpipe = "caught" THEN "failed" ELSE "killed")
          /\ UNCHANGED <<worker, session>>
    /\ UnchangedByWorkers /\ UNCHANGED sigpipe

\* Mutation: the session ends with the response, and the pipe stays open.
WorkerRespondsOnly(w) ==
    LET text == IF session[path(w)].granted = "yes" THEN <<"OK">> ELSE <<"ERROR">>
        code == IF worker[w].code = CREATE THEN "4" ELSE "6"
    IN  /\ At(w, "m_respond")
        /\ Responds(w, Message(code, text), "dequeue", text)
        /\ UNCHANGED left

WorkerResponds(w) ==
    LET text == IF session[path(w)].granted = "yes" THEN <<"OK">> ELSE <<"ERROR">>
        code == IF worker[w].code = CREATE THEN "4" ELSE "6"
    IN  /\ At(w, "m_respond")
        /\ Responds(w, Message(code, text), "close", text)
        /\ UNCHANGED left

WorkerLists(w) ==
    /\ At(w, "l_respond")
    /\ \/ /\ left[path(w)] # << >>
          /\ Responds(w, Message("8", Head(left[path(w)])), "l_respond", Head(left[path(w)]))
          /\ left' = [left EXCEPT ![path(w)] = Tail(@)]
       \/ /\ left[path(w)] = << >>
          /\ WorkerGoesOn(w, "close")
          /\ UnchangedByWorkers /\ UNCHANGED <<processVars, pipe, left, session>>

SessionStep(w) ==
    \/ WorkerOpens(w)     \/ PipeOpenedToWorker(w) \/ WorkerDecides(w)
    \/ WorkerReadsTest(w) \/ WorkerStores(w)
    \/ WorkerSendsTest(w) \/ WorkerReadsBox(w)     \/ WorkerReplayed(w)
    \/ WorkerWaits(w)     \/ WorkerSends(w)
    \/ WorkerResponds(w)  \/ WorkerLists(w)        \/ WorkerCloses(w)

------------------------------------------------------------------------------
\* The main thread.
MainStep ==
    \/ /\ BrokerStep \/ BrokerOpen(\E c \in Clients : Client(c, "start"))
       /\ UNCHANGED clientVars
    \/ /\ BrokerReturn
       /\ pipe' = [c \in Clients |-> Closing(pipe[c], Workers)]
       /\ UNCHANGED <<client, left, sigints, session>>

WorkerStep(w) == (WorkerCopies(w) /\ UNCHANGED clientVars) \/ SessionStep(w)

BrokerGetsSigint ==
    /\ "broker" \in sigints
    /\ sigints' = sigints \ {"broker"}
    /\ BrokerSigint
    /\ UNCHANGED <<client, pipe, left, session>>

Next ==
    \/ MainStep
    \/ \E w \in Workers : WorkerStep(w)
    \/ \E c \in Clients : ClientStep(c) \/ PublisherReadsLine(c)
    \/ BrokerGetsSigint \/ \E c \in Clients : ClientSigint(c)

Spec == SystemInit /\ [][Next]_vars

\* The main thread, the workers and the clients keep running.  A publisher's
\* user need not type, a message for a subscriber need not be published, and
\* SIGINT need not come.
Fairness ==
    /\ WF_vars(MainStep)
    /\ \A w \in Workers : WF_vars(WorkerStep(w) /\ ~ At(w, "s_wait"))
    /\ \A c \in Clients : WF_vars(ClientStep(c))

FairSpec == Spec /\ Fairness

------------------------------------------------------------------------------
(* Properties *)

ClientPCs == {"start", "send", "open", "opening", "sleep", "test", "loop", "fgets", "write",
              "first", "read", "print", "response", "list", "close", "done", "failed"}
SessionPCs == {"dequeue", "code", "path", "name", "open", "opening", "decide", "close", "p_test",
               "p_next", "s_test", "s_read", "s_replay", "s_wait", "s_push", "m_respond",
               "l_respond"}

\* Who reads, writes or has opened a client's pipe is at a place of its program
\* where the pipe is open, and data is there only while somebody has it open.
TypeOK ==
    /\ main \in {"open", "test", "read", "copy", "enqueue", "unlink", "destroy", "return"}
    /\ main = "copy" <=> incoming # << >>
    /\ end \in {0, 1} /\ mishaps \subseteq {"overrun", "misread", "repeated"}
    /\ process \in {"running", "exited", "failed", "killed", "memory fault"}
    /\ \A w \in Workers : worker[w].pc \in SessionPCs
    /\ \A c \in Clients :
        /\ client[c].pc \in ClientPCs /\ client[c].end \in {0, 1}
        /\ pipe[c].opened \subseteq pipe[c].readers \cup pipe[c].writers
        /\ pipe[c].cells # << >> => pipe[c].readers \cup pipe[c].writers # {}
        /\ c \in pipe[c].opened => client[c].pc \notin {"start", "send", "open", "done", "failed"}
        /\ process = "running" =>
            \A w \in Workers \cap pipe[c].opened :
                path(w) = c /\ InSession(w) /\ worker[w].pc # "open"

\* Each worker serves the client whose request it got, as what the client asked
\* for, and each client once (line 89: "recieve requests and put them in the
\* queue").
SessionsMatchRequests ==
    /\ \A w \in Workers : InSession(w) =>
        /\ path(w) \in Clients
        /\ worker[w].code = client[path(w)].code
        /\ worker[w].code # LIST => worker[w].name = client[path(w)].name
    /\ \A v, w \in Workers : InSession(v) /\ InSession(w) /\ path(v) = path(w) => v = w
    /\ \A c \in Clients : session[c].served <= 1

\* They do as long as no request was overwritten in main's one buffer before it
\* was copied (line 94), none was read together with a part of another, and no
\* read was interrupted.
ServedAsSent == mishaps = {} => SessionsMatchRequests

\* The texts that one end of a client's pipe writes are what the other end gets,
\* in the same order and none of them twice, unless the test string was read
\* together with a part of the first of them (mbroker.c:189, sub.c:66).
TextsArriveInOrder ==
    \A c \in Clients :
        mishaps = {} /\ ~ session[c].joined => IsPrefix(session[c].received, session[c].written)

\* A manager that is through has printed what the broker did: all the boxes, or
\* the one response.
ManagersSeeTheOutcome ==
    \A c \in Clients :
        /\ client[c].code \in {CREATE, REMOVE, LIST}
        /\ Client(c, "done")
        /\ mishaps = {} /\ process = "running"
        => /\ session[c].received = session[c].written
           /\ session[c].served = 1 /\ left[c] = << >>

\* The broker fails, or is killed, only because of a mishap, of a client that
\* ended without its session or of a subscriber that left after a SIGINT; and
\* tfs_destroy under a worker takes a SIGINT to the broker.
BrokerEndsForAReason ==
    /\ process \in {"failed", "killed"} =>
        \/ mishaps # {}
        \/ \E c \in Clients :
            \/ Client(c, "failed")
            \/ Client(c, "done") /\ client[c].code = SUBSCRIBE /\ client[c].end = 1
    /\ process \in {"exited", "memory fault"} => end = 1

\* A publisher that is not let in notices by itself, without a line to write,
\* if the 10 ms it waits (pub.c:72) are enough for the worker to close the pipe.
ShutOutPublishersStop ==
    <>[] \A c \in Clients :
        client[c].code = PUBLISH /\ session[c].granted = "no" =>
            \/ client[c].pc \in {"done", "failed"}
            \/ session[c].early \/ mishaps # {} \/ process # "running"

\* A worker is held as long as others like: by a subscriber for which nothing is
\* published (line 269; that its client left is noticed with the next message
\* only), by a publisher whose user types nothing, or by a client that died
\* before it opened its pipe.
HeldUp(w) ==
    \/ worker[w].pc = "s_wait"
    \/ worker[w].pc = "p_next" /\ Client(path(w), "fgets")
    \/ worker[w].pc = "opening" /\ Client(path(w), "failed")

AllHeldUp == \A w \in Workers : HeldUp(w)


\* SIGINT ends the broker, by main's return or by a memory fault of a worker that
\* was not through, unless it comes just before main calls open or read, or main
\* waits for ever for room in a queue that all the workers have left (line 95).
MainHeldUp ==
    main = "enqueue" /\ Len(queue) = 2 * Cardinality(Workers) /\ AllHeldUp

==============================================================================
