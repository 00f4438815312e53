------------------------------ MODULE MCClients ------------------------------
(* One client of each kind with the signals it may get, pairs of clients, and *)
(* clients that wait for a worker.                                            *)
EXTENDS Clients, TLC
CONSTANTS c1, c2, c3, c4, c5, c6, w1, w2, b1, b2

\* The codes and texts of c1 and c2; the others ask for nothing.
Scenario(codes, texts, who) ==
    LET Of(list, none) ==
            [c \in Clients |->
                LET n == IF c = c1 THEN 1 ELSE IF c = c2 THEN 2 ELSE 3
                IN  IF n \in DOMAIN list THEN list[n] ELSE none]
    IN  [codes |-> Of(codes, NULL),
         names |-> Of(<<b1, b2>>, b1),
         texts |-> Of(texts, << >>),
         sigints |-> who]

None == << >>
One == <<<<"x">>>>
Two == <<<<"x">>, <<"y", "z">>>>

\* Each kind of client alone, with a SIGINT to it or to the broker, and two
\* managers.
MCScenarios ==
    {Scenario(<<PUBLISH>>, <<Two>>, {c1}), Scenario(<<SUBSCRIBE>>, <<Two>>, {c1}),
     Scenario(<<PUBLISH>>, <<One>>, {"broker"}), Scenario(<<SUBSCRIBE>>, <<One>>, {"broker"}),
     Scenario(<<CREATE>>, <<None>>, {c1, "broker"}), Scenario(<<LIST>>, <<One>>, {c1, "broker"}),
     Scenario(<<CREATE, REMOVE>>, <<None, None>>, {}), Scenario(<<LIST, LIST>>, <<Two, One>>, {})}

\* A subscriber, who may leave, or a publisher, or a manager, who may die, and then
\* a manager, for one worker.
WaitingScenarios ==
    {Scenario(<<SUBSCRIBE, CREATE>>, <<One, None>>, {c1}),
     Scenario(<<PUBLISH, CREATE>>, <<One, None>>, {}),
     Scenario(<<CREATE, LIST>>, <<None, One>>, {c1})}

\* Where subscriptions for which nothing is published have led: main waits for
\* requests, each of the subscribers in held (a function from workers) has a worker,
\* and the managers in queued, the last of them last, are in the queue.
HeldUpInit(s, held, queued, last) ==
    /\ register = << >> /\ mishaps = IF queued = {} THEN {} ELSE {"overrun"}
    /\ main = "read" /\ incoming = << >> /\ end = 0
    /\ buffer = IF queued = {} THEN Request(SUBSCRIBE, last, b1) ELSE Request(CREATE, last, b1)
    /\ process = "running" /\ sigpipe = "caught"
    /\ queue = [i \in 1 .. Cardinality(queued) |-> "buffer"]
    /\ request_buffer = [w \in Workers |-> IF w \in DOMAIN held THEN "buffer" ELSE NULL]
    /\ worker = [w \in Workers |->
                   IF w \in DOMAIN held
                     THEN [pc |-> "s_wait", code |-> SUBSCRIBE, path |-> held[w], name |-> b1]
                     ELSE [pc |-> "dequeue", code |-> Unset, path |-> Unset, name |-> Unset]]
    /\ client = [c \in Clients |->
                   [pc |-> IF c \in Range(held) THEN "first" ELSE IF c \in queued THEN "opening"
                           ELSE IF s.codes[c] \in Codes THEN "start" ELSE "done",
                    code |-> IF c \in Range(held) THEN SUBSCRIBE ELSE IF c \in queued THEN CREATE
                             ELSE s.codes[c],
                    name |-> b1, end |-> 0, data |-> << >>]]
    /\ pipe = [c \in Clients |->
                 LET ends == {w \in DOMAIN held : held[w] = c}
                 IN  IF ends # {} THEN [made |-> TRUE, readers |-> {c}, writers |-> ends,
                                        opened |-> {c} \cup ends, cells |-> << >>]
                     ELSE IF c \in queued THEN [NoPipe EXCEPT !.made = TRUE, !.readers = {c}]
                     ELSE NoPipe]
    /\ left = s.texts
    /\ sigints = s.sigints
    /\ session = [c \in Clients |->
                    [served |-> IF c \in Range(held) THEN 1 ELSE 0,
                     granted |-> IF c \in Range(held) THEN "yes" ELSE "undecided",
                     written |-> << >>, received |-> << >>, joined |-> FALSE, early |-> FALSE]]

\* One worker is held up and the others have the scenarios above before them; or
\* both are, three managers wait, and another one and a SIGINT to the broker come.
MCInit ==
    \/ SystemInit
    \/ \E s \in WaitingScenarios : HeldUpInit(s, w2 :> c3, {}, c3)
    \/ HeldUpInit(Scenario(<<None, CREATE>>, <<None, None>>, {"broker"}),
                  w1 :> c1 @@ w2 :> c3, {c4, c5, c6}, c6)

MCSpec == MCInit /\ [][Next]_vars /\ Fairness

TwoManagers == {Scenario(<<CREATE, REMOVE>>, <<None, None>>, {})}
=============================================================================
