---------------------------- MODULE ClientsStreams ----------------------------
(***************************************************************************)
(* What goes through the clients' pipes, for any number of clients,        *)
(* workers and texts.  As long as there is no mishap a client has one      *)
(* worker, and where the two are in their programs says what is in the     *)
(* pipe between them and what has gone through it.                         *)
(***************************************************************************)
EXTENDS ClientsProofs

Texts ==
    {<<"OK">>, <<"ERROR">>}
    \cup UNION {Range(s.texts[c]) : s \in Scenarios, c \in Clients}
Octets ==
    {NUL, "0", "4", "6", "8", "9", "10", "test"} \cup UNION {Range(text) : text \in Texts}

\* One message behind the other, and nothing else.
Carries(cells, code, texts) ==
    /\ Len(cells) = Len(texts) * MessageSize
    /\ \A i \in 1 .. Len(texts) : \A j \in 1 .. MessageSize :
        cells[(i - 1) * MessageSize + j] = Message(code, texts[i])[j]

\* What was written to c's pipe is what was received, and the texts.
Ahead(c, texts) == session[c].written = session[c].received \o texts

Behind(c) == \E texts \in Seq(Texts) : Ahead(c, texts)

\* Nothing was written; or the test string and then what was written; or there is
\* in the pipe what was written and not received.
Untouched(c) == pipe[c].cells = << >> /\ session[c].written = << >>

AfterTest(c, test, code) ==
    \E rest \in Seq(Octets) :
        pipe[c].cells = test \o rest /\ Carries(rest, code, session[c].written)

Flows(c, code) ==
    \E texts \in Seq(Texts) : Carries(pipe[c].cells, code, texts) /\ Ahead(c, texts)

\* The same when the client has yet to print what it took, if it is a message.
Shows(c) ==
    \E texts \in Seq(Texts) :
        /\ Carries(pipe[c].cells, "10", texts)
        /\ \/ Ahead(c, texts) /\ ~ IsPrefix(<<"10">>, client[c].data)
           \/ \E text \in Texts :
                client[c].data = Message("10", text) /\ Ahead(c, <<text>> \o texts)

\* Where the worker is that serves c, or whether it is yet to come.
Stage(c) ==
    IF \E w \in Workers : Serves(w, c)
    THEN worker[CHOOSE w \in Workers : Serves(w, c)].pc
    ELSE IF session[c].served = 0 THEN "before" ELSE "after"

Running == process = "running"

\* A client whose pipe is open has met its worker, and the other way round.
Met(c) ==
    /\ client[c].pc \in {"open"} \cup WithPipe => pipe[c].made
    /\ client[c].pc \in {"start", "send", "open"} => pipe[c].cells = << >>
    /\ Stage(c) \in {"before", "open"} =>
        c \notin pipe[c].opened /\ client[c].pc \notin (WithPipe \ {"opening"}) \cup {"done"}
    /\ pipe[c].opened # {} \/ Stage(c) \notin {"before", "open", "opening"} =>
        client[c].pc \notin {"start", "send", "open"}

\* Until the worker has read the test string all that is written is in the pipe.
BeforeRead == {"before", "open", "opening", "decide", "p_test"}
Tested == {"loop", "fgets", "write", "close", "done", "failed"}

PublisherStream(c) ==
    LET pc == client[c].pc
        s == session[c]
    IN  /\ pc = "write" => client[c].data \in Texts
        /\ Running /\ Stage(c) \in BeforeRead =>
            /\ s.received = << >> /\ ~ s.joined
            /\ \/ Untouched(c) /\ pc \notin Tested \ {"failed"}
               \/ AfterTest(c, PublisherTest, "9") /\ pc \in Tested
        /\ Running /\ Stage(c) = "p_next" /\ ~ s.joined => pc \in Tested /\ Flows(c, "9")

\* The stages at which the worker has sent the test string or has given up.
Pushing == {"s_read", "s_replay", "s_wait", "s_push"}
Sending == Pushing \cup {"close", "after"}

SubscriberStream(c) ==
    LET pc == client[c].pc
        s == session[c]
    IN  /\ pc \in {"start", "send", "open", "opening", "test"} =>
            /\ s.received = << >> /\ ~ s.joined
            /\ \/ Untouched(c) /\ Stage(c) \notin Pushing
               \/ AfterTest(c, SubscriberTest, "10") /\ Stage(c) \in Sending
        /\ pc \in {"first", "read", "print"} => Stage(c) \in Sending
        /\ ~ s.joined /\ pc \in {"first", "read"} => Flows(c, "10")
        /\ ~ s.joined /\ pc = "print" /\ client[c].end = 0 => Shows(c)
        /\ pc \in {"close", "done"} => client[c].end = 1 \/ ~ Running \/ Stage(c) = "after"

\* The stages after the last response.
Responded == {"close", "after"}
Through == {"close", "done", "failed"}

ResponseCode(c) == IF client[c].code = CREATE THEN "4" ELSE "6"

ManagerStream(c) ==
    LET pc == client[c].pc
        s == session[c]
    IN  /\ left[c] = << >> /\ ~ s.joined
        /\ Len(s.written) = IF Stage(c) \in Responded THEN 1 ELSE 0
        /\ pc \notin Through =>
            s.received = << >> /\ Carries(pipe[c].cells, ResponseCode(c), s.written)
        /\ pc \in {"close", "done"} /\ Running =>
            s.received = s.written /\ Stage(c) \in Responded

ListStream(c) ==
    LET pc == client[c].pc
        s == session[c]
    IN  /\ ~ s.joined
        /\ Stage(c) \in Responded => left[c] = << >>
        /\ pc \notin Through => Flows(c, "8")
        /\ pc \in {"close", "done"} /\ Running =>
            s.received = s.written /\ Stage(c) \in Responded

StreamTypes(c) ==
    /\ pipe[c].cells \in Seq(Octets) /\ left[c] \in Seq(Texts)
    /\ session[c].written \in Seq(Texts) /\ session[c].joined \in BOOLEAN
    /\ ~ session[c].joined => session[c].received \in Seq(Texts) /\ Behind(c)

Stream(c) ==
    /\ StreamTypes(c)
    /\ client[c].code \in Codes => Met(c)
    /\ client[c].code = PUBLISH => PublisherStream(c)
    /\ client[c].code = SUBSCRIBE => SubscriberStream(c)
    /\ client[c].code \in {CREATE, REMOVE} => ManagerStream(c)
    /\ client[c].code = LIST => ListStream(c)

\* Why the broker failed or was killed.
Reason ==
    process \in {"failed", "killed"} =>
        \/ mishaps # {}
        \/ \E c \in Clients :
            \/ Client(c, "failed")
            \/ Client(c, "done") /\ client[c].code = SUBSCRIBE /\ client[c].end = 1

Streams == mishaps = {} => \A c \in Clients : Stream(c)

SInv == IInv /\ TypeInv /\ DOMAIN left = Clients /\ Streams /\ Reason

------------------------------------------------------------------------------
(* Messages *)

LEMMA TextFacts ==
    ASSUME NEW text \in Texts
    PROVE  /\ text \in Seq(Octets) /\ Len(text) \in Nat /\ Len(text) <= MessageSize - 2
           /\ \A i \in 1 .. Len(text) : text[i] # NUL
PROOF
<1>1. Range(text) \subseteq Octets
  BY DEF Octets
<1>2. text \in Seq(Range(text)) /\ Len(text) <= MessageSize - 2
      /\ \A i \in 1 .. Len(text) : text[i] # NUL
  <2>1. CASE text = <<"OK">>
    BY <2>1, TextAssumption DEF Range
  <2>2. CASE text = <<"ERROR">>
    BY <2>2, TextAssumption DEF Range
  <2>3. ASSUME NEW s \in Scenarios, NEW c \in Clients, text \in Range(s.texts[c])
        PROVE  text \in Seq(Range(text)) /\ Len(text) <= MessageSize - 2
               /\ \A i \in 1 .. Len(text) : text[i] # NUL
    <3>1. text \in Seq(Range(text) \ {NUL}) /\ Len(text) <= MessageSize - 2
      BY <2>3, TextAssumption
    <3>2. PICK R : R = Range(text)
      OBVIOUS
    <3>3. text \in Seq(R \ {NUL})
      BY <3>1, <3>2
    <3>4. text \in Seq(R) /\ \A i \in 1 .. Len(text) : text[i] # NUL
      BY <3>3
    <3>. QED
      BY <3>1, <3>2, <3>4
  <2>. QED
    BY <2>1, <2>2, <2>3 DEF Texts
<1>3. PICK R : R = Range(text)
  OBVIOUS
<1>4. text \in Seq(R) /\ R \subseteq Octets
  BY <1>1, <1>2, <1>3
<1>5. text \in Seq(Octets) /\ Len(text) \in Nat
  BY <1>4
<1>. QED
  BY <1>2, <1>5

LEMMA MessageFacts ==
    ASSUME NEW code \in Octets, NEW text \in Texts
    PROVE  /\ Message(code, text) \in Seq(Octets)
           /\ Len(Message(code, text)) = MessageSize
           /\ Message(code, text)[1] = code
           /\ \A i \in 1 .. Len(text) : Message(code, text)[i + 1] = text[i]
           /\ \A i \in Len(text) + 1 .. MessageSize - 1 : Message(code, text)[i + 1] = NUL
PROOF
<1>1. PICK m \in Nat : m = MessageSize /\ m >= 3
  BY TextAssumption
<1>2. PICK k \in Nat : /\ k = Len(text) /\ k <= m - 2 /\ text \in Seq(Octets)
                       /\ \A i \in 1 .. k : text[i] \in Octets
  BY <1>1, TextFacts
<1>3. DOMAIN text = 1 .. k
  BY <1>2
<1>4. PICK field : field = [i \in 1 .. m - 1 |-> IF i \in 1 .. k THEN text[i] ELSE NUL]
  OBVIOUS
<1>5. Message(code, text) = <<code>> \o field
  BY <1>1, <1>3, <1>4 DEF Message, Stored
<1>6. NUL \in Octets
  BY DEF Octets
<1>7. field \in Seq(Octets) /\ Len(field) = m - 1
  <2>1. \A i \in 1 .. m - 1 : field[i] \in Octets
    BY <1>2, <1>4, <1>6
  <2>2. field \in [1 .. m - 1 -> Octets]
    BY <1>4, <2>1
  <2>. QED
    BY <1>1, <2>2
<1>8. /\ \A i \in 1 .. k : i \in 1 .. m - 1 /\ field[i] = text[i]
      /\ \A i \in k + 1 .. m - 1 : i \in 1 .. m - 1 /\ field[i] = NUL
  BY <1>1, <1>2, <1>4
<1>9. PICK message : message = <<code>> \o field
  OBVIOUS
<1>10. /\ message \in Seq(Octets) /\ Len(message) = m /\ message[1] = code
       /\ \A i \in 1 .. m - 1 : message[i + 1] = field[i]
  <2>1. /\ <<code>> \in Seq(Octets) /\ Len(<<code>>) = 1 /\ <<code>>[1] = code
    OBVIOUS
  <2>2. PICK one : one = <<code>>
    OBVIOUS
  <2>3. one \in Seq(Octets) /\ Len(one) = 1 /\ one[1] = code /\ message = one \o field
    BY <1>9, <2>1, <2>2
  <2>4. message \in Seq(Octets) /\ Len(message) = 1 + (m - 1)
        /\ \A i \in 1 .. 1 + (m - 1) : message[i] = IF i <= 1 THEN one[i] ELSE field[i - 1]
    <3>1. one \o field \in Seq(Octets) /\ Len(one \o field) = Len(one) + Len(field)
          /\ \A i \in 1 .. Len(one) + Len(field) :
                (one \o field)[i] = IF i <= Len(one) THEN one[i] ELSE field[i - Len(one)]
      BY <1>7, <2>3, ConcatProperties
    <3>. QED
      BY <1>7, <2>3, <3>1
  <2>5. 1 + (m - 1) = m /\ 1 \in 1 .. m /\ \A i \in 1 .. m - 1 : i + 1 \in 1 .. m /\ ~ (i + 1 <= 1) /\ (i + 1) - 1 = i
    BY <1>1
  <2>6. ASSUME NEW i \in 1 .. m - 1 PROVE message[i + 1] = field[i]
    <3>1. i + 1 \in 1 .. 1 + (m - 1) /\ ~ (i + 1 <= 1) /\ (i + 1) - 1 = i
      BY <2>5
    <3>. QED
      BY <2>4, <3>1
  <2>7. message[1] = one[1] /\ Len(message) = m
    BY <2>4, <2>5
  <2>. QED
    BY <2>3, <2>4, <2>6, <2>7
<1>. QED
  BY <1>1, <1>2, <1>5, <1>8, <1>9, <1>10

\* The program at the other end finds the text.
LEMMA TextIsFound ==
    ASSUME NEW code \in Octets, NEW text \in Texts
    PROVE  TextOf(Message(code, text)) = text
PROOF
<1>1. PICK m \in Nat : m = MessageSize /\ m >= 3
  BY TextAssumption
<1>2. PICK k \in Nat : /\ k = Len(text) /\ k <= m - 2 /\ text \in Seq(Octets)
                       /\ \A i \in 1 .. k : text[i] # NUL
  BY <1>1, TextFacts
<1>3. PICK data : data = Message(code, text)
  OBVIOUS
<1>4. /\ data \in Seq(Octets) /\ Len(data) = m
      /\ \A i \in 1 .. k : data[i + 1] = text[i]
      /\ \A i \in k + 1 .. m - 1 : data[i + 1] = NUL
  <2>1. /\ Message(code, text) \in Seq(Octets)
        /\ Len(Message(code, text)) = MessageSize
        /\ \A i \in 1 .. Len(text) : Message(code, text)[i + 1] = text[i]
        /\ \A i \in Len(text) + 1 .. MessageSize - 1 : Message(code, text)[i + 1] = NUL
    BY MessageFacts
  <2>. QED
    BY <1>1, <1>2, <1>3, <2>1
<1>5. PICK ends : ends = {i \in 2 .. Len(data) : data[i] = NUL}
  OBVIOUS
<1>6. k + 2 \in ends
  <2>1. k + 1 \in k + 1 .. m - 1 /\ (k + 1) + 1 = k + 2 /\ k + 2 \in 2 .. m
    BY <1>1, <1>2
  <2>2. data[(k + 1) + 1] = NUL
    BY <1>4, <2>1
  <2>. QED
    BY <1>4, <1>5, <2>1, <2>2
<1>7. \A i \in ends : i \in Nat /\ k + 2 <= i
  <2>. SUFFICES ASSUME NEW i \in ends, ~ (k + 2 <= i) PROVE FALSE
    BY <1>4, <1>5
  <2>1. i \in 2 .. m /\ data[i] = NUL
    BY <1>4, <1>5
  <2>2. i - 1 \in 1 .. k /\ (i - 1) + 1 = i
    BY <1>1, <1>2, <2>1
  <2>3. data[(i - 1) + 1] = text[i - 1]
    BY <1>4, <2>2
  <2>. QED
    BY <1>2, <2>1, <2>2, <2>3
<1>8. PICK stop : stop = CHOOSE i \in ends : \A j \in ends : i <= j
  OBVIOUS
<1>9. stop = k + 2
  <2>1. \E i \in ends : \A j \in ends : i <= j
    BY <1>6, <1>7
  <2>2. stop \in ends /\ \A j \in ends : stop <= j
    BY <1>8, <2>1
  <2>. QED
    BY <1>2, <1>6, <1>7, <2>2
<1>10. TextOf(data) = SubSeq(data, 2, stop - 1)
  BY <1>5, <1>6, <1>8 DEF TextOf, StringAt
<1>11. SubSeq(data, 2, k + 1) = text
  <2>1. PICK part : part = SubSeq(data, 2, k + 1)
    OBVIOUS
  <2>2. part \in Seq(Octets) /\ Len(part) = k /\ \A i \in 1 .. k : part[i] = data[i + 1]
    BY <1>1, <1>2, <1>4, <2>1
  <2>3. \A i \in 1 .. k : part[i] = text[i]
    BY <1>4, <2>2
  <2>4. part = text
    BY <1>2, <2>2, <2>3, SeqEqual
  <2>. QED
    BY <2>1, <2>4
<1>12. stop - 1 = k + 1
  BY <1>2, <1>9
<1>. QED
  BY <1>3, <1>10, <1>11, <1>12

------------------------------------------------------------------------------
(* One message behind the other *)

LEMMA Rows ==
    \A m, n \in Nat :
        /\ n * m \in Nat /\ (n + 1) * m = n * m + m
        /\ \A i \in 1 .. n : \A j \in 1 .. m :
            /\ (i - 1) * m \in Nat /\ (i - 1) * m + j \in 1 .. n * m
            /\ i * m = (i - 1) * m + m
PROOF
<1>1. \A a, b, m \in Nat : (a + b) * m = a * m + b * m /\ a * m \in Nat /\ 1 * m = m
  OBVIOUS
<1>2. ASSUME NEW m \in Nat, NEW n \in Nat, NEW i \in 1 .. n, NEW j \in 1 .. m
      PROVE  /\ (i - 1) * m \in Nat /\ (i - 1) * m + j \in 1 .. n * m
             /\ i * m = (i - 1) * m + m
  <2>1. PICK a \in Nat, b \in Nat : a = i - 1 /\ b = n - i
    BY <1>2
  <2>2. n = (a + 1) + b /\ i = a + 1 /\ a + 1 \in Nat
    BY <1>2, <2>1
  <2>3. n * m = (a * m + m) + b * m /\ a * m \in Nat /\ b * m \in Nat
    <3>1. ((a + 1) + b) * m = (a + 1) * m + b * m
      BY <1>1, <2>2
    <3>2. (a + 1) * m = a * m + 1 * m /\ 1 * m = m
      BY <1>1
    <3>3. a * m \in Nat /\ b * m \in Nat
      BY <1>1
    <3>. QED
      BY <2>2, <3>1, <3>2, <3>3
  <2>4. i * m = a * m + m
    <3>1. (a + 1) * m = a * m + 1 * m /\ 1 * m = m
      BY <1>1
    <3>. QED
      BY <2>2, <3>1
  <2>5. PICK x \in Nat, y \in Nat : x = a * m /\ y = b * m
    BY <2>3
  <2>6. x + j \in 1 .. (x + m) + y
    BY <1>2
  <2>. QED
    BY <2>1, <2>3, <2>4, <2>5, <2>6
<1>3. \A m, n \in Nat : n * m \in Nat /\ (n + 1) * m = n * m + m
  BY <1>1
<1>. QED
  BY <1>2, <1>3

LEMMA CarriesNone ==
    ASSUME NEW code, NEW cells \in Seq(Octets)
    PROVE  Carries(cells, code, << >>) <=> cells = << >>
PROOF
<1>1. MessageSize \in Nat /\ 0 * MessageSize = 0
  BY TextAssumption
<1>2. Len(<< >>) = 0 /\ 1 .. 0 = {}
  OBVIOUS
<1>3. Carries(cells, code, << >>) <=> Len(cells) = 0
  BY <1>1, <1>2 DEF Carries
<1>. QED
  BY <1>3, EmptySeq

LEMMA CarriesOneMore ==
    ASSUME NEW code \in Octets, NEW cells \in Seq(Octets), NEW texts \in Seq(Texts),
           NEW text \in Texts, Carries(cells, code, texts)
    PROVE  /\ cells \o Message(code, text) \in Seq(Octets)
           /\ Append(texts, text) \in Seq(Texts)
           /\ Carries(cells \o Message(code, text), code, Append(texts, text))
PROOF
<1>1. PICK m \in Nat : m = MessageSize
  BY TextAssumption
<1>2. PICK message : message = Message(code, text)
  OBVIOUS
<1>3. message \in Seq(Octets) /\ Len(message) = m
  BY <1>1, <1>2, MessageFacts
<1>4. PICK n \in Nat : n = Len(texts)
  OBVIOUS
<1>5. PICK N \in Nat : N = n * m
  BY Rows
<1>6. Len(cells) = N /\ \A i \in 1 .. n : \A j \in 1 .. m :
        cells[(i - 1) * m + j] = Message(code, texts[i])[j]
  BY <1>1, <1>4, <1>5 DEF Carries
<1>7. PICK all : all = cells \o message
  OBVIOUS
<1>8. /\ all \in Seq(Octets) /\ Len(all) = N + m
      /\ \A k \in 1 .. N : all[k] = cells[k]
      /\ \A j \in 1 .. m : all[N + j] = message[j]
  <2>1. /\ cells \o message \in Seq(Octets)
        /\ Len(cells \o message) = Len(cells) + Len(message)
        /\ \A k \in 1 .. Len(cells) + Len(message) :
            (cells \o message)[k] = IF k <= Len(cells) THEN cells[k] ELSE message[k - Len(cells)]
    BY <1>3, ConcatProperties
  <2>2. /\ all \in Seq(Octets) /\ Len(all) = N + m
        /\ \A k \in 1 .. N + m : all[k] = IF k <= N THEN cells[k] ELSE message[k - N]
    BY <1>3, <1>6, <1>7, <2>1
  <2>3. \A k \in 1 .. N : k \in 1 .. N + m /\ k <= N
    OBVIOUS
  <2>4. \A j \in 1 .. m : N + j \in 1 .. N + m /\ ~ (N + j <= N) /\ (N + j) - N = j
    OBVIOUS
  <2>. QED
    BY <2>2, <2>3, <2>4
<1>9. PICK more : more = Append(texts, text)
  OBVIOUS
<1>10. /\ more \in Seq(Texts) /\ Len(more) = n + 1
       /\ \A i \in 1 .. n : more[i] = texts[i]
       /\ more[n + 1] = text
  <2>1. /\ Append(texts, text) \in Seq(Texts)
        /\ Len(Append(texts, text)) = Len(texts) + 1
        /\ \A i \in 1 .. Len(texts) : Append(texts, text)[i] = texts[i]
        /\ Append(texts, text)[Len(texts) + 1] = text
    BY AppendProperties
  <2>. QED
    BY <1>4, <1>9, <2>1
<1>11. Len(all) = Len(more) * m
  BY <1>5, <1>8, <1>10, Rows
<1>12. ASSUME NEW i \in 1 .. n + 1, NEW j \in 1 .. m
       PROVE  all[(i - 1) * m + j] = Message(code, more[i])[j]
  <2>1. CASE i = n + 1
    <3>1. i - 1 = n
      BY <2>1
    <3>2. (i - 1) * m = N
      BY <1>5, <3>1
    <3>. QED
      BY <1>2, <1>8, <1>10, <2>1, <3>2
  <2>2. CASE i # n + 1
    <3>1. i \in 1 .. n
      BY <2>2
    <3>2. (i - 1) * m + j \in 1 .. N
      BY <1>5, <3>1, Rows
    <3>3. all[(i - 1) * m + j] = cells[(i - 1) * m + j]
      BY <1>8, <3>2
    <3>. QED
      BY <1>6, <1>10, <3>1, <3>3
  <2>. QED
    BY <2>1, <2>2
<1>13. Carries(all, code, more)
  BY <1>1, <1>10, <1>11, <1>12 DEF Carries
<1>. QED
  BY <1>2, <1>7, <1>8, <1>9, <1>10, <1>13

LEMMA CarriesFirst ==
    ASSUME NEW code \in Octets, NEW cells \in Seq(Octets), NEW texts \in Seq(Texts),
           Carries(cells, code, texts), texts # << >>
    PROVE  /\ Head(texts) \in Texts /\ Tail(texts) \in Seq(Texts)
           /\ Len(cells) \in Nat /\ MessageSize <= Len(cells)
           /\ SubSeq(cells, 1, MessageSize) = Message(code, Head(texts))
           /\ SubSeq(cells, MessageSize + 1, Len(cells)) \in Seq(Octets)
           /\ Carries(SubSeq(cells, MessageSize + 1, Len(cells)), code, Tail(texts))
PROOF
<1>1. PICK m \in Nat : m = MessageSize
  BY TextAssumption
<1>2. PICK n \in Nat : n + 1 = Len(texts)
  <2>1. Len(texts) \in Nat /\ Len(texts) # 0
    BY EmptySeq
  <2>2. Len(texts) - 1 \in Nat /\ (Len(texts) - 1) + 1 = Len(texts)
    BY <2>1
  <2>. QED
    BY <2>2
<1>3. PICK N \in Nat : N = n * m /\ (n + 1) * m = N + m
  BY Rows
<1>4. Len(cells) = N + m /\ \A i \in 1 .. n + 1 : \A j \in 1 .. m :
        cells[(i - 1) * m + j] = Message(code, texts[i])[j]
  BY <1>1, <1>2, <1>3 DEF Carries
<1>5. PICK head, tail : head = Head(texts) /\ tail = Tail(texts)
  OBVIOUS
<1>6. /\ head \in Texts /\ head = texts[1]
      /\ tail \in Seq(Texts) /\ Len(tail) = n /\ \A i \in 1 .. n : tail[i] = texts[i + 1]
  <2>1. Head(texts) \in Texts /\ Tail(texts) \in Seq(Texts)
    BY HeadTailProperties
  <2>2. Len(Tail(texts)) = n /\ \A i \in 1 .. n : Tail(texts)[i] = texts[i + 1]
    <3>1. Len(Tail(texts)) = Len(texts) - 1
          /\ \A i \in 1 .. Len(Tail(texts)) : Tail(texts)[i] = texts[i + 1]
      BY HeadTailProperties
    <3>. QED
      BY <1>2, <3>1
  <2>3. Head(texts) = texts[1]
    OBVIOUS
  <2>. QED
    BY <1>5, <2>1, <2>2, <2>3
<1>7. PICK message : message = Message(code, head)
  OBVIOUS
<1>8. message \in Seq(Octets) /\ Len(message) = m
  BY <1>1, <1>6, <1>7, MessageFacts
<1>9. SubSeq(cells, 1, m) = message
  <2>1. PICK part : part = SubSeq(cells, 1, m)
    OBVIOUS
  <2>2. part \in Seq(Octets) /\ Len(part) = m /\ \A j \in 1 .. m : part[j] = cells[j]
    <3>1. m <= N + m /\ 1 \in Int /\ m \in Int
      OBVIOUS
    <3>. QED
      BY <1>4, <2>1, <3>1
  <2>3. \A j \in 1 .. m : cells[j] = message[j]
    <3>. SUFFICES ASSUME NEW j \in 1 .. m PROVE cells[j] = message[j]
      OBVIOUS
    <3>1. 1 \in 1 .. n + 1 /\ 1 - 1 = 0 /\ 0 * m = 0 /\ 0 + j = j
      OBVIOUS
    <3>2. cells[(1 - 1) * m + j] = Message(code, texts[1])[j]
      BY <1>4, <3>1
    <3>3. (1 - 1) * m + j = j
      BY <3>1
    <3>. QED
      BY <1>6, <1>7, <3>2, <3>3
  <2>4. \A j \in 1 .. Len(part) : part[j] = message[j]
    BY <2>2, <2>3
  <2>5. part = message
    BY <1>8, <2>2, <2>4, SeqEqual
  <2>. QED
    BY <2>1, <2>5
<1>10. PICK rest : rest = SubSeq(cells, m + 1, N + m)
  OBVIOUS
<1>11. rest \in Seq(Octets) /\ Len(rest) = N /\ \A k \in 1 .. N : rest[k] = cells[m + k]
  <2>1. m + 1 \in Int /\ N + m \in Int /\ (N + m) - (m + 1) + 1 = N
        /\ \A k \in m + 1 .. N + m : k \in 1 .. N + m
    OBVIOUS
  <2>2. \A k \in m + 1 .. N + m : cells[k] \in Octets
    BY <1>4, <2>1, ElementOfSeq
  <2>3. /\ rest \in Seq(Octets)
        /\ Len(rest) = IF m + 1 <= N + m THEN (N + m) - (m + 1) + 1 ELSE 0
        /\ \A k \in 1 .. (N + m) - (m + 1) + 1 : rest[k] = cells[(m + 1) + k - 1]
    BY <1>10, <2>1, <2>2, SubSeqProperties
  <2>4. \A k \in 1 .. N : (m + 1) + k - 1 = m + k
    OBVIOUS
  <2>5. ~ (m + 1 <= N + m) => N = 0
    OBVIOUS
  <2>. QED
    BY <2>1, <2>3, <2>4, <2>5
<1>12. ASSUME NEW i \in 1 .. n, NEW j \in 1 .. m
       PROVE  rest[(i - 1) * m + j] = Message(code, tail[i])[j]
  <2>1. PICK a \in Nat : a = (i - 1) * m /\ a + j \in 1 .. N /\ i * m = a + m
    BY <1>3, Rows
  <2>2. rest[a + j] = cells[m + (a + j)]
    BY <1>11, <2>1
  <2>3. i + 1 \in 1 .. n + 1 /\ (i + 1) - 1 = i /\ m + (a + j) = (a + m) + j
    OBVIOUS
  <2>4. cells[((i + 1) - 1) * m + j] = Message(code, texts[i + 1])[j]
    BY <1>4, <2>3
  <2>5. ((i + 1) - 1) * m + j = m + (a + j)
    BY <2>1, <2>3
  <2>. QED
    BY <1>6, <2>1, <2>2, <2>4, <2>5
<1>13. Carries(rest, code, tail)
  BY <1>1, <1>3, <1>6, <1>11, <1>12 DEF Carries
<1>14. Len(cells) \in Nat /\ m <= Len(cells)
  BY <1>4
<1>. QED
  BY <1>1, <1>4, <1>5, <1>6, <1>7, <1>9, <1>10, <1>11, <1>13, <1>14

------------------------------------------------------------------------------
(* Reading a pipe *)

LEMMA CodeIsFirst ==
    ASSUME NEW code \in Octets
    PROVE  /\ \A text \in Texts : IsPrefix(<<code>>, Message(code, text))
           /\ ~ IsPrefix(<<code>>, << >>)
PROOF
<1>1. Len(<<code>>) = 1 /\ Len(<< >>) = 0
  OBVIOUS
<1>2. ~ IsPrefix(<<code>>, << >>)
  BY <1>1 DEF IsPrefix
<1>3. ASSUME NEW text \in Texts PROVE IsPrefix(<<code>>, Message(code, text))
  <2>1. PICK message : message = Message(code, text)
    OBVIOUS
  <2>2. message \in Seq(Octets) /\ 1 <= Len(message) /\ message[1] = code
    BY <2>1, MessageFacts, TextAssumption
  <2>3. SubSeq(message, 1, 1) = <<code>> /\ SubSeq(<<code>>, 1, 1) = <<code>>
    <3>1. PICK one, part : one = <<code>> /\ part = SubSeq(message, 1, 1)
      OBVIOUS
    <3>2. one \in Seq(Octets) /\ Len(one) = 1 /\ one[1] = code
      BY <3>1
    <3>3. part \in Seq(Octets) /\ Len(part) = 1 /\ part[1] = message[1]
      BY <2>2, <3>1
    <3>4. \A i \in 1 .. Len(part) : part[i] = one[i]
      BY <2>2, <3>2, <3>3
    <3>5. part = one
      BY <3>2, <3>3, <3>4, SeqEqual
    <3>6. SubSeq(one, 1, Len(one)) = one
      BY <3>2, SubSeqFull
    <3>. QED
      BY <3>1, <3>2, <3>5, <3>6
  <2>. QED
    BY <1>1, <2>1, <2>2, <2>3 DEF IsPrefix
<1>. QED
  BY <1>2, <1>3

\* The pipe after a read.
LEMMA ReadFacts ==
    ASSUME Ends, NEW c \in Clients, ReadPipe(c), pipe[c].cells \in Seq(Octets)
    PROVE  /\ DOMAIN pipe' = Clients /\ \A d \in Clients \ {c} : pipe'[d] = pipe[d]
           /\ pipe'[c].made = pipe[c].made /\ pipe'[c].opened = pipe[c].opened
           /\ pipe'[c].cells \in Seq(Octets)
           /\ pipe'[c].cells = SubSeq(pipe[c].cells, Len(Taken(c)) + 1, Len(pipe[c].cells))
           /\ Taken(c) \in Seq(Octets)
           /\ Len(Taken(c)) = IF Len(pipe[c].cells) < MessageSize
                              THEN Len(pipe[c].cells) ELSE MessageSize
           /\ \A i \in 1 .. Len(Taken(c)) : Taken(c)[i] = pipe[c].cells[i]
           /\ Taken(c) = << >> => pipe[c].cells = << >> /\ pipe[c].writers = {}
PROOF
<1>1. PICK cells : cells = pipe[c].cells
  OBVIOUS
<1>2. PICK m \in Nat : m = MessageSize /\ m >= 3
  BY TextAssumption
<1>3. PICK L \in Nat : L = Len(cells) /\ cells \in Seq(Octets)
  BY <1>1
<1>4. PICK n \in Nat : n = (IF L < m THEN L ELSE m) /\ n <= L
  BY <1>2
<1>5. PICK taken : taken = Taken(c) /\ taken = SubSeq(cells, 1, n)
  BY <1>1, <1>2, <1>3, <1>4 DEF Taken
<1>6. taken \in Seq(Octets) /\ Len(taken) = n /\ \A i \in 1 .. n : taken[i] = cells[i]
  BY <1>3, <1>4, <1>5
<1>7. PICK rest : rest = SubSeq(cells, n + 1, L)
  OBVIOUS
<1>8. rest \in Seq(Octets)
  BY <1>3, <1>4, <1>7
<1>9. DOMAIN pipe = Clients /\ DOMAIN pipe[c] = PipeFields
  BY DEF Ends, PipeEnds
<1>10. pipe' = [pipe EXCEPT ![c].cells = rest]
  BY <1>1, <1>3, <1>5, <1>6, <1>7 DEF ReadPipe
<1>11. /\ DOMAIN pipe' = Clients /\ \A d \in Clients \ {c} : pipe'[d] = pipe[d]
       /\ pipe'[c].made = pipe[c].made /\ pipe'[c].opened = pipe[c].opened
       /\ pipe'[c].cells = rest
  BY <1>9, <1>10 DEF PipeFields
<1>12. ASSUME taken = << >> PROVE cells = << >> /\ pipe[c].writers = {}
  <2>1. n = 0
    BY <1>6, <1>12
  <2>2. L = 0
    BY <1>2, <1>4, <2>1
  <2>3. cells = << >>
    BY <1>3, <2>2, EmptySeq
  <2>. QED
    BY <1>1, <2>3 DEF ReadPipe, CanRead
<1>. QED
  BY <1>1, <1>2, <1>3, <1>4, <1>5, <1>6, <1>7, <1>8, <1>11, <1>12

\* A read takes one message, if there is one.
LEMMA ReadsOne ==
    ASSUME Ends, NEW c \in Clients, ReadPipe(c), pipe[c].cells \in Seq(Octets),
           NEW code \in Octets, NEW texts \in Seq(Texts), Carries(pipe[c].cells, code, texts)
    PROVE  /\ texts = << >> => /\ Taken(c) = << >>
                               /\ pipe'[c].cells = << >> /\ Carries(pipe'[c].cells, code, texts)
           /\ texts # << >> => /\ Head(texts) \in Texts /\ Tail(texts) \in Seq(Texts)
                               /\ Taken(c) = Message(code, Head(texts)) /\ Taken(c) # << >>
                               /\ Carries(pipe'[c].cells, code, Tail(texts))
PROOF
<1>1. /\ pipe'[c].cells = SubSeq(pipe[c].cells, Len(Taken(c)) + 1, Len(pipe[c].cells))
      /\ Taken(c) \in Seq(Octets)
      /\ Len(Taken(c)) = IF Len(pipe[c].cells) < MessageSize
                         THEN Len(pipe[c].cells) ELSE MessageSize
      /\ pipe'[c].cells \in Seq(Octets)
  BY ReadFacts
<1>2. MessageSize \in Nat /\ MessageSize >= 3
  BY TextAssumption
<1>3. ASSUME texts = << >>
      PROVE  Taken(c) = << >> /\ pipe'[c].cells = << >> /\ Carries(pipe'[c].cells, code, texts)
  <2>1. pipe[c].cells = << >>
    BY <1>3, CarriesNone
  <2>2. Len(pipe[c].cells) = 0
    BY <2>1
  <2>3. Len(Taken(c)) = 0
    BY <1>1, <1>2, <2>2
  <2>4. Taken(c) = << >>
    BY <1>1, <2>3, EmptySeq
  <2>5. pipe'[c].cells = SubSeq(pipe[c].cells, 1, 0)
    BY <1>1, <2>2, <2>3
  <2>6. pipe'[c].cells = << >>
    BY <2>1, <2>5
  <2>7. Carries(pipe'[c].cells, code, << >>)
    BY <1>1, <2>6, CarriesNone
  <2>. QED
    BY <1>3, <2>4, <2>6, <2>7
<1>4. ASSUME texts # << >>
      PROVE  /\ Head(texts) \in Texts /\ Tail(texts) \in Seq(Texts)
             /\ Taken(c) = Message(code, Head(texts)) /\ Taken(c) # << >>
             /\ Carries(pipe'[c].cells, code, Tail(texts))
  <2>1. PICK cells \in Seq(Octets) : cells = pipe[c].cells
    OBVIOUS
  <2>2. /\ Head(texts) \in Texts /\ Tail(texts) \in Seq(Texts)
        /\ Len(cells) \in Nat /\ MessageSize <= Len(cells)
        /\ SubSeq(cells, 1, MessageSize) = Message(code, Head(texts))
        /\ Carries(SubSeq(cells, MessageSize + 1, Len(cells)), code, Tail(texts))
    BY <1>4, <2>1, CarriesFirst
  <2>3. ~ (Len(cells) < MessageSize)
    BY <1>2, <2>2
  <2>4. Len(Taken(c)) = MessageSize /\ Taken(c) = SubSeq(cells, 1, MessageSize)
    BY <1>1, <2>1, <2>3 DEF Taken
  <2>5. Taken(c) # << >>
    <3>1. Len(Taken(c)) # 0
      BY <1>2, <2>4
    <3>2. Len(<< >>) = 0
      OBVIOUS
    <3>. QED
      BY <3>1, <3>2
  <2>6. Carries(pipe'[c].cells, code, Tail(texts))
    BY <1>1, <2>1, <2>2, <2>4
  <2>. QED
    BY <2>2, <2>4, <2>5, <2>6
<1>. QED
  BY <1>3, <1>4

\* The first read gets the test string, and is joined if it gets more.
LEMMA ReadsTest ==
    ASSUME Ends, NEW c \in Clients, ReadPipe(c), pipe[c].cells \in Seq(Octets),
           NEW code \in Octets, NEW test \in {PublisherTest, SubscriberTest},
           AfterTest(c, test, code), session[c].written \in Seq(Texts)
    PROVE  /\ Len(test) = 2 /\ IsPrefix(test, Taken(c)) /\ Taken(c) # << >>
           /\ ~ (Len(Taken(c)) > Len(test)) =>
                pipe'[c].cells = << >> /\ session[c].written = << >>
PROOF
<1>1. PICK rest \in Seq(Octets) :
        pipe[c].cells = test \o rest /\ Carries(rest, code, session[c].written)
  BY DEF AfterTest
<1>2. test \in Seq(Octets) /\ Len(test) = 2
  <2>1. "0" \in Octets /\ "test" \in Octets /\ NUL \in Octets
    BY DEF Octets
  <2>2. PICK x \in Octets : test = <<x, NUL>>
    BY <2>1 DEF PublisherTest, SubscriberTest
  <2>3. PICK two : two = <<x, NUL>>
    OBVIOUS
  <2>4. two \in Seq(Octets) /\ Len(two) = 2
    BY <2>1, <2>3
  <2>. QED
    BY <2>2, <2>3, <2>4
<1>3. PICK cells \in Seq(Octets) : cells = pipe[c].cells
  OBVIOUS
<1>4. PICK taken \in Seq(Octets) :
        /\ taken = Taken(c) /\ pipe'[c].cells = SubSeq(cells, Len(taken) + 1, Len(cells))
        /\ Len(taken) = IF Len(cells) < MessageSize THEN Len(cells) ELSE MessageSize
        /\ \A i \in 1 .. Len(taken) : taken[i] = cells[i]
  BY <1>3, ReadFacts
<1>5. PICK k \in Nat : k = Len(rest)
  OBVIOUS
<1>6. Len(cells) = 2 + k /\ \A i \in 1 .. 2 : cells[i] = test[i]
  <2>1. /\ Len(test \o rest) = Len(test) + Len(rest)
        /\ \A i \in 1 .. Len(test) + Len(rest) :
            (test \o rest)[i] = IF i <= Len(test) THEN test[i] ELSE rest[i - Len(test)]
    BY <1>2, ConcatProperties
  <2>2. cells = test \o rest
    BY <1>1, <1>3
  <2>. QED
    BY <1>2, <1>5, <2>1, <2>2
<1>7. MessageSize \in Nat /\ MessageSize >= 3
  BY TextAssumption
<1>8. PICK n \in Nat : n = Len(taken) /\ n >= 2 /\ (n <= 2 => k = 0)
  BY <1>4, <1>6, <1>7
<1>9. IsPrefix(test, taken)
  <2>1. PICK part : part = SubSeq(taken, 1, 2)
    OBVIOUS
  <2>2. part \in Seq(Octets) /\ Len(part) = 2 /\ \A i \in 1 .. 2 : part[i] = taken[i]
    BY <1>8, <2>1
  <2>3. \A i \in 1 .. Len(part) : part[i] = test[i]
    <3>1. \A i \in 1 .. 2 : i \in 1 .. n
      BY <1>8
    <3>. QED
      BY <1>4, <1>6, <1>8, <2>2, <3>1
  <2>4. part = test
    BY <1>2, <2>2, <2>3, SeqEqual
  <2>5. SubSeq(test, 1, Len(test)) = test
    BY <1>2, SubSeqFull
  <2>. QED
    BY <1>2, <1>8, <2>1, <2>4, <2>5 DEF IsPrefix
<1>10. taken # << >>
  BY <1>8
<1>11. ASSUME ~ (n > 2) PROVE pipe'[c].cells = << >> /\ session[c].written = << >>
  <2>1. n = 2 /\ k = 0
    BY <1>8, <1>11
  <2>2. pipe'[c].cells = SubSeq(cells, 3, 2)
    BY <1>4, <1>6, <1>8, <2>1
  <2>3. Len(session[c].written) * MessageSize = 0
    BY <1>1, <1>5, <2>1 DEF Carries
  <2>4. Len(session[c].written) = 0
    <3>1. PICK a \in Nat, m \in Nat : a = Len(session[c].written) /\ m = MessageSize
      BY <1>7
    <3>2. a * m = 0 /\ m >= 3
      BY <1>7, <2>3, <3>1
    <3>3. a = 0
      BY <3>2
    <3>. QED
      BY <3>1, <3>3
  <2>. QED
    BY <2>2, <2>4, SubSeqEmpty, EmptySeq
<1>. QED
  BY <1>2, <1>4, <1>8, <1>9, <1>10, <1>11

------------------------------------------------------------------------------
(* What is written and what is received *)

LEMMA OneMoreWritten ==
    \A received, texts \in Seq(Texts) : \A text \in Texts :
        Append(received \o texts, text) = received \o Append(texts, text)
PROOF
<1>. SUFFICES ASSUME NEW received \in Seq(Texts), NEW texts \in Seq(Texts), NEW text \in Texts
              PROVE  Append(received \o texts, text) = received \o Append(texts, text)
  OBVIOUS
<1>0. PICK one : one = <<text>>
  OBVIOUS
<1>1. one \in Seq(Texts) /\ one = <<text>>
  BY <1>0
<1>2. received \o texts \in Seq(Texts)
  BY ConcatProperties
<1>3. Append(received \o texts, text) = (received \o texts) \o one
  BY <1>1, <1>2, AppendIsConcat
<1>4. (received \o texts) \o one = received \o (texts \o one)
  BY ConcatAssociative
<1>5. Append(texts, text) = texts \o one
  BY <1>1, AppendIsConcat
<1>. QED
  BY <1>3, <1>4, <1>5

LEMMA OneMoreReceived ==
    \A received, texts \in Seq(Texts) : \A text \in Texts :
        received \o (<<text>> \o texts) = Append(received, text) \o texts
PROOF
<1>. SUFFICES ASSUME NEW received \in Seq(Texts), NEW texts \in Seq(Texts), NEW text \in Texts
              PROVE  received \o (<<text>> \o texts) = Append(received, text) \o texts
  OBVIOUS
<1>0. PICK one : one = <<text>>
  OBVIOUS
<1>1. one \in Seq(Texts) /\ one = <<text>>
  BY <1>0
<1>2. (received \o one) \o texts = received \o (one \o texts)
  BY ConcatAssociative
<1>3. Append(received, text) = received \o one
  BY <1>1, AppendIsConcat
<1>. QED
  BY <1>1, <1>2, <1>3

LEMMA HeadThenTail ==
    ASSUME NEW S, NEW texts \in Seq(S), texts # << >>
    PROVE  <<Head(texts)>> \o Tail(texts) = texts
PROOF
<1>1. PICK n \in Nat : n = Len(texts) /\ n # 0
  BY EmptySeq
<1>2. PICK one, tail : one = <<Head(texts)>> /\ tail = Tail(texts)
  OBVIOUS
<1>3. Head(texts) \in S /\ Head(texts) = texts[1]
  BY HeadTailProperties
<1>4. one \in Seq(S) /\ Len(one) = 1 /\ one[1] = texts[1]
  BY <1>2, <1>3
<1>5. tail \in Seq(S) /\ Len(tail) = n - 1 /\ \A i \in 1 .. n - 1 : tail[i] = texts[i + 1]
  <2>1. /\ Tail(texts) \in Seq(S) /\ Len(Tail(texts)) = Len(texts) - 1
        /\ \A i \in 1 .. Len(Tail(texts)) : Tail(texts)[i] = texts[i + 1]
    BY HeadTailProperties
  <2>. QED
    BY <1>1, <1>2, <2>1
<1>6. PICK both : both = one \o tail
  OBVIOUS
<1>7. /\ both \in Seq(S) /\ Len(both) = n
      /\ \A i \in 1 .. n : both[i] = IF i <= 1 THEN one[i] ELSE tail[i - 1]
  <2>1. /\ one \o tail \in Seq(S) /\ Len(one \o tail) = Len(one) + Len(tail)
        /\ \A i \in 1 .. Len(one) + Len(tail) :
            (one \o tail)[i] = IF i <= Len(one) THEN one[i] ELSE tail[i - Len(one)]
    <3>1. one \in Seq(S) /\ tail \in Seq(S)
      BY <1>4, <1>5
    <3>. QED
      BY <3>1, ConcatProperties
  <2>2. Len(one) + Len(tail) = n
    BY <1>1, <1>4, <1>5
  <2>. QED
    BY <1>4, <1>6, <2>1, <2>2
<1>8. ASSUME NEW i \in 1 .. n PROVE both[i] = texts[i]
  <2>1. CASE i = 1
    BY <1>4, <1>7, <2>1
  <2>2. CASE i # 1
    <3>1. i - 1 \in 1 .. n - 1 /\ ~ (i <= 1) /\ (i - 1) + 1 = i
      BY <1>1, <2>2
    <3>. QED
      BY <1>5, <1>7, <3>1
  <2>. QED
    BY <2>1, <2>2
<1>9. both = texts
  BY <1>1, <1>7, <1>8, SeqEqual
<1>. QED
  BY <1>2, <1>6, <1>9

LEMMA ReceivedIsPrefix ==
    ASSUME NEW S, NEW received \in Seq(S), NEW texts \in Seq(S)
    PROVE  IsPrefix(received, received \o texts)
PROOF
<1>1. PICK k \in Nat, n \in Nat : k = Len(received) /\ n = Len(texts)
  OBVIOUS
<1>2. PICK both : both = received \o texts
  OBVIOUS
<1>3. both \in Seq(S) /\ Len(both) = k + n /\ \A i \in 1 .. k : both[i] = received[i]
  <2>1. /\ received \o texts \in Seq(S) /\ Len(received \o texts) = Len(received) + Len(texts)
        /\ \A i \in 1 .. Len(received) + Len(texts) : (received \o texts)[i] =
             IF i <= Len(received) THEN received[i] ELSE texts[i - Len(received)]
    BY ConcatProperties
  <2>2. \A i \in 1 .. k : i \in 1 .. k + n /\ i <= k
    OBVIOUS
  <2>. QED
    BY <1>1, <1>2, <2>1, <2>2
<1>4. PICK part : part = SubSeq(both, 1, k)
  OBVIOUS
<1>5. part \in Seq(S) /\ Len(part) = k /\ \A i \in 1 .. k : part[i] = both[i]
  <2>1. k <= k + n
    OBVIOUS
  <2>. QED
    BY <1>3, <1>4, <2>1
<1>6. part = received
  BY <1>1, <1>3, <1>5, SeqEqual
<1>7. SubSeq(received, 1, Len(received)) = received
  BY SubSeqFull
<1>. QED
  BY <1>1, <1>2, <1>3, <1>4, <1>6, <1>7 DEF IsPrefix

SameSession(c) ==
    /\ session'[c].written = session[c].written
    /\ session'[c].received = session[c].received
    /\ session'[c].joined = session[c].joined

LEMMA WrittenFacts ==
    ASSUME Shape, NEW c \in Clients, NEW text, WasWritten(c, text)
    PROVE  /\ session'[c].written = Append(session[c].written, text)
           /\ session'[c].received = session[c].received
           /\ session'[c].joined = session[c].joined
           /\ \A d \in Clients \ {c} : session'[d] = session[d]
           /\ \A d \in Clients : session'[d].served = session[d].served
PROOF
  BY DEF Shape, WasWritten, SessionFields

LEMMA ReceivedFacts ==
    ASSUME Shape, NEW c \in Clients, NEW text, Received(c, text)
    PROVE  /\ session'[c].received = Append(session[c].received, text)
           /\ session'[c].written = session[c].written
           /\ session'[c].joined = session[c].joined
           /\ \A d \in Clients \ {c} : session'[d] = session[d]
           /\ \A d \in Clients : session'[d].served = session[d].served
PROOF
  BY DEF Shape, Received, SessionFields

LEMMA JoinedFacts ==
    ASSUME Shape, NEW c \in Clients, NEW x, session' = [session EXCEPT ![c].joined = x]
    PROVE  /\ session'[c].joined = x
           /\ session'[c].written = session[c].written
           /\ session'[c].received = session[c].received
           /\ \A d \in Clients \ {c} : session'[d] = session[d]
           /\ \A d \in Clients : session'[d].served = session[d].served
PROOF
  BY DEF Shape, SessionFields

------------------------------------------------------------------------------
(* Where the worker is *)

StageKnown ==
    \A c \in Clients :
        /\ \A w \in Workers : Serves(w, c) => Stage(c) = worker[w].pc
        /\ (\A w \in Workers : ~ Serves(w, c)) =>
            Stage(c) = IF session[c].served = 0 THEN "before" ELSE "after"

LEMMA StageOf == Sessions => StageKnown
PROOF
<1>. SUFFICES ASSUME Sessions, NEW c \in Clients
              PROVE  /\ \A w \in Workers : Serves(w, c) => Stage(c) = worker[w].pc
                     /\ (\A w \in Workers : ~ Serves(w, c)) =>
                         Stage(c) = IF session[c].served = 0 THEN "before" ELSE "after"
  BY DEF StageKnown
<1>1. ASSUME NEW w \in Workers, Serves(w, c) PROVE Stage(c) = worker[w].pc
  <2>1. \A v \in Workers : Serves(v, c) => v = w
    BY <1>1 DEF Sessions, Serves
  <2>2. (CHOOSE v \in Workers : Serves(v, c)) = w
    BY <1>1, <2>1
  <2>. QED
    BY <1>1, <2>2 DEF Stage
<1>2. ASSUME \A w \in Workers : ~ Serves(w, c)
      PROVE  Stage(c) = IF session[c].served = 0 THEN "before" ELSE "after"
  BY <1>2 DEF Stage
<1>. QED
  BY <1>1, <1>2

LEMMA StageStays ==
    ASSUME Sessions, Sessions', NEW c \in Clients,
           \A w \in Workers : Serves(w, c)' = Serves(w, c),
           \A w \in Workers : Serves(w, c) => worker'[w].pc = worker[w].pc,
           session'[c].served = session[c].served
    PROVE  Stage(c)' = Stage(c)
PROOF
<1>1. StageKnown /\ (Sessions' => StageKnown')
  BY StageOf, PTL
<1>2. CASE \E w \in Workers : Serves(w, c)
  BY <1>1, <1>2 DEF StageKnown
<1>3. CASE \A w \in Workers : ~ Serves(w, c)
  BY <1>1, <1>3 DEF StageKnown
<1>. QED
  BY <1>2, <1>3

\* w, which serves c, goes on.
LEMMA StageGoesOn ==
    ASSUME Shape, Sessions, Sessions', NEW w \in Workers, InSession(w), NEW c \in Clients, path(w) = c,
           NEW label \in SessionPCs \ {"dequeue", "code", "path", "name"}, WorkerGoesOn(w, label),
           \A d \in Clients \ {c} : session'[d].served = session[d].served
    PROVE  /\ Stage(c) = worker[w].pc /\ Stage(c)' = label
           /\ \A d \in Clients \ {c} : Stage(d)' = Stage(d)
PROOF
<1>1. /\ \A v \in Workers \ {w} : worker'[v] = worker[v]
      /\ worker'[w].pc = label /\ worker'[w].path = worker[w].path
  BY DEF Shape, WorkerFields, WorkerGoesOn
<1>2. Serves(w, c) /\ Serves(w, c)'
  BY <1>1 DEF Serves, InSession, path
<1>3. Stage(c) = worker[w].pc
  BY <1>2, StageOf DEF StageKnown
<1>4. Stage(c)' = label
  <2>1. Sessions' => StageKnown'
    BY StageOf, PTL
  <2>. QED
    BY <1>1, <1>2, <2>1 DEF StageKnown
<1>5. ASSUME NEW d \in Clients, d # c PROVE Stage(d)' = Stage(d)
  <2>1. \A v \in Workers : Serves(v, d)' = Serves(v, d) /\ (Serves(v, d) => worker'[v].pc = worker[v].pc)
    BY <1>1, <1>5 DEF Serves, InSession, path
  <2>. QED
    BY <1>5, <2>1, StageStays
<1>. QED
  BY <1>3, <1>4, <1>5

------------------------------------------------------------------------------
(* Steps after which the stream is as before *)

LEMMA SameFlow ==
    ASSUME NEW c \in Clients, pipe'[c].cells = pipe[c].cells, SameSession(c)
    PROVE  /\ Untouched(c)' <=> Untouched(c)
           /\ \A test, code : AfterTest(c, test, code)' <=> AfterTest(c, test, code)
           /\ \A code : Flows(c, code)' <=> Flows(c, code)
           /\ Behind(c)' <=> Behind(c)
           /\ client'[c].data = client[c].data => (Shows(c)' <=> Shows(c))
PROOF
<1>1. Untouched(c)' <=> Untouched(c)
  BY DEF SameSession, Untouched
<1>2. ASSUME NEW test, NEW code PROVE AfterTest(c, test, code)' <=> AfterTest(c, test, code)
  BY DEF SameSession, AfterTest
<1>3. \A texts : Ahead(c, texts)' <=> Ahead(c, texts)
  BY DEF SameSession, Ahead
<1>4. ASSUME NEW code PROVE Flows(c, code)' <=> Flows(c, code)
  BY <1>3 DEF Flows
<1>5. Behind(c)' <=> Behind(c)
  BY <1>3 DEF Behind
<1>6. ASSUME client'[c].data = client[c].data PROVE Shows(c)' <=> Shows(c)
  BY <1>3, <1>6 DEF Shows
<1>. QED
  BY <1>1, <1>2, <1>4, <1>5, <1>6

\* What came of c's pipe when others took a step, or the broker ended.
KeptCells(c) ==
    \/ pipe'[c].cells = pipe[c].cells
    \/ pipe'[c].cells = << >> /\ ~ Running' /\ client[c].pc \in {"done", "failed"}

Kept(c) ==
    /\ client'[c] = client[c] /\ left'[c] = left[c] /\ SameSession(c)
    /\ pipe'[c].made = pipe[c].made /\ pipe'[c].opened \subseteq pipe[c].opened
    /\ KeptCells(c)
    /\ Stage(c)' = Stage(c) \/ (Stage(c) = "before" /\ Stage(c)' = "open")
    /\ Running' => Running

LEMMA KeptStream ==
    ASSUME NEW c \in Clients, Stream(c), Kept(c)
    PROVE  Stream(c)'
PROOF
<1>1. CASE pipe'[c].cells = pipe[c].cells
  <2>1. /\ Untouched(c)' <=> Untouched(c)
        /\ \A test, code : AfterTest(c, test, code)' <=> AfterTest(c, test, code)
        /\ \A code : Flows(c, code)' <=> Flows(c, code)
        /\ Behind(c)' <=> Behind(c)
        /\ Shows(c)' <=> Shows(c)
    BY <1>1, SameFlow DEF Kept
  <2>2. StreamTypes(c)'
    BY <1>1, <2>1 DEF Stream, StreamTypes, Kept, SameSession
  <2>3. Met(c) => Met(c)'
    BY <1>1 DEF Met, Kept
  <2>4. PublisherStream(c) => PublisherStream(c)'
    BY <2>1 DEF PublisherStream, Kept, SameSession, BeforeRead
  <2>5. SubscriberStream(c) => SubscriberStream(c)'
    BY <2>1 DEF SubscriberStream, Kept, SameSession, Sending, Pushing
  <2>6. ManagerStream(c) => ManagerStream(c)'
    BY <1>1 DEF ManagerStream, Kept, SameSession, Responded, Carries, ResponseCode
  <2>7. ListStream(c) => ListStream(c)'
    BY <2>1 DEF ListStream, Kept, SameSession, Responded
  <2>8. client'[c].code = client[c].code
    BY DEF Kept
  <2>. QED
    BY <2>2, <2>3, <2>4, <2>5, <2>6, <2>7, <2>8 DEF Stream
<1>2. ASSUME pipe'[c].cells = << >>, ~ Running', client[c].pc \in {"done", "failed"}
      PROVE  Stream(c)'
  <2>1. \A texts : Ahead(c, texts)' <=> Ahead(c, texts)
    BY DEF Kept, SameSession, Ahead
  <2>2. StreamTypes(c)'
    BY <1>2, <2>1 DEF Stream, StreamTypes, Behind, Kept, SameSession
  <2>3. Met(c) => Met(c)'
    BY <1>2 DEF Met, Kept
  <2>4. PublisherStream(c)'
    BY <1>2 DEF PublisherStream, Kept
  <2>5. SubscriberStream(c) => SubscriberStream(c)'
    BY <1>2 DEF SubscriberStream, Kept
  <2>6. ManagerStream(c) => ManagerStream(c)'
    BY <1>2 DEF ManagerStream, Kept, SameSession, Responded, Through
  <2>7. ListStream(c) => ListStream(c)'
    BY <1>2 DEF ListStream, Kept, SameSession, Responded, Through
  <2>8. client'[c].code = client[c].code
    BY DEF Kept
  <2>. QED
    BY <2>2, <2>3, <2>4, <2>5, <2>6, <2>7, <2>8 DEF Stream
<1>. QED
  BY <1>1, <1>2 DEF Kept, KeptCells

------------------------------------------------------------------------------
(* A text goes into the pipe, and another one comes out *)

SameButWritten(c) ==
    session'[c].received = session[c].received /\ session'[c].joined = session[c].joined

Sent(c, code, text) ==
    /\ pipe'[c].cells = pipe[c].cells \o Message(code, text)
    /\ session'[c].written = Append(session[c].written, text)
    /\ SameButWritten(c)

LEMMA OctetsInARow ==
    \A s, t, u \in Seq(Octets) : (s \o t) \o u = s \o (t \o u)
PROOF
<1>. SUFFICES ASSUME NEW s \in Seq(Octets), NEW t \in Seq(Octets), NEW u \in Seq(Octets)
              PROVE  (s \o t) \o u = s \o (t \o u)
  OBVIOUS
<1>. QED
  BY ConcatAssociative

LEMMA MoreIsAhead ==
    ASSUME NEW c \in Clients, NEW text \in Texts, SameButWritten(c),
           session[c].received \in Seq(Texts),
           session'[c].written = Append(session[c].written, text)
    PROVE  \A texts \in Seq(Texts) : Ahead(c, texts) => Ahead(c, Append(texts, text))'
PROOF
<1>. SUFFICES ASSUME NEW texts \in Seq(Texts), Ahead(c, texts)
              PROVE  Ahead(c, Append(texts, text))'
  OBVIOUS
<1>1. PICK received \in Seq(Texts) : received = session[c].received
  OBVIOUS
<1>2. session[c].written = received \o texts
  BY <1>1 DEF Ahead
<1>3. Append(received \o texts, text) = received \o Append(texts, text)
  BY OneMoreWritten
<1>4. session'[c].written = received \o Append(texts, text)
  BY <1>2, <1>3
<1>. QED
  BY <1>1, <1>4 DEF Ahead, SameButWritten

LEMMA StillBehind ==
    ASSUME NEW c \in Clients, NEW text \in Texts, SameButWritten(c),
           session[c].received \in Seq(Texts), Behind(c),
           session'[c].written = Append(session[c].written, text)
    PROVE  Behind(c)'
PROOF
<1>1. PICK texts \in Seq(Texts) : Ahead(c, texts)
  BY DEF Behind
<1>2. PICK more : more = Append(texts, text)
  OBVIOUS
<1>3. more \in Seq(Texts)
  BY <1>2
<1>4. Ahead(c, more)'
  BY <1>1, <1>2, MoreIsAhead
<1>. QED
  BY <1>3, <1>4 DEF Behind

LEMMA SentFlows ==
    ASSUME NEW c \in Clients, NEW code \in Octets, NEW text \in Texts,
           pipe[c].cells \in Seq(Octets), session[c].written \in Seq(Texts),
           Sent(c, code, text)
    PROVE  /\ pipe'[c].cells \in Seq(Octets) /\ session'[c].written \in Seq(Texts)
           /\ Carries(pipe[c].cells, code, session[c].written) =>
                Carries(pipe'[c].cells, code, session'[c].written)
           /\ \A test \in Seq(Octets) : AfterTest(c, test, code) => AfterTest(c, test, code)'
           /\ session[c].received \in Seq(Texts) => (Flows(c, code) => Flows(c, code)')
           /\ session[c].received \in Seq(Texts) /\ code = "10" /\ client'[c] = client[c] =>
                (Shows(c) => Shows(c)')
PROOF
<1>1. PICK cells \in Seq(Octets), written \in Seq(Texts) :
        cells = pipe[c].cells /\ written = session[c].written
  OBVIOUS
<1>2. PICK message \in Seq(Octets) : message = Message(code, text)
  BY MessageFacts
<1>3. PICK more \in Seq(Octets) : more = cells \o message
  BY ConcatProperties
<1>4. PICK after \in Seq(Texts) : after = Append(written, text)
  BY AppendProperties
<1>5. pipe'[c].cells = more /\ session'[c].written = after /\ SameButWritten(c)
  BY <1>1, <1>2, <1>3, <1>4 DEF Sent
<1>6. \A texts \in Seq(Texts) : Carries(cells, code, texts) =>
        Append(texts, text) \in Seq(Texts) /\ Carries(more, code, Append(texts, text))
  BY <1>2, <1>3, CarriesOneMore
<1>7. Carries(cells, code, written) => Carries(more, code, after)
  BY <1>4, <1>6
<1>8. ASSUME NEW test \in Seq(Octets), AfterTest(c, test, code)
      PROVE  AfterTest(c, test, code)'
  <2>1. PICK rest \in Seq(Octets) : cells = test \o rest /\ Carries(rest, code, written)
    BY <1>1, <1>8 DEF AfterTest
  <2>2. PICK longer : longer = rest \o message
    OBVIOUS
  <2>3. longer \in Seq(Octets) /\ Carries(longer, code, after)
    <3>1. /\ rest \o Message(code, text) \in Seq(Octets)
          /\ Carries(rest \o Message(code, text), code, Append(written, text))
      BY <2>1, CarriesOneMore
    <3>. QED
      BY <1>2, <1>4, <2>2, <3>1
  <2>4. (test \o rest) \o message = test \o (rest \o message)
    BY OctetsInARow, SMTT(30)
  <2>5. more = test \o longer
    BY <1>3, <2>1, <2>2, <2>4
  <2>. QED
    BY <1>5, <2>3, <2>5 DEF AfterTest
<1>9. ASSUME session[c].received \in Seq(Texts), Flows(c, code)
      PROVE  Flows(c, code)'
  <2>1. PICK texts \in Seq(Texts) : Carries(cells, code, texts) /\ Ahead(c, texts)
    BY <1>1, <1>9 DEF Flows
  <2>2. PICK longer : longer = Append(texts, text)
    OBVIOUS
  <2>3. longer \in Seq(Texts) /\ Carries(more, code, longer)
    BY <1>6, <2>1, <2>2
  <2>4. session'[c].written = Append(session[c].written, text)
    BY <1>1, <1>4, <1>5
  <2>5. Ahead(c, longer)'
    BY <1>5, <1>9, <2>1, <2>2, <2>4, MoreIsAhead
  <2>. QED
    BY <1>5, <2>3, <2>5 DEF Flows
<1>10. ASSUME session[c].received \in Seq(Texts), code = "10", client'[c] = client[c], Shows(c)
       PROVE  Shows(c)'
  <2>1. PICK texts \in Seq(Texts) :
          /\ Carries(cells, "10", texts)
          /\ \/ Ahead(c, texts) /\ ~ IsPrefix(<<"10">>, client[c].data)
             \/ \E taken \in Texts :
                  client[c].data = Message("10", taken) /\ Ahead(c, <<taken>> \o texts)
    BY <1>1, <1>10 DEF Shows
  <2>2. PICK longer : longer = Append(texts, text)
    OBVIOUS
  <2>3. longer \in Seq(Texts) /\ Carries(more, "10", longer)
    BY <1>6, <1>10, <2>1, <2>2
  <2>4. session'[c].written = Append(session[c].written, text)
    BY <1>1, <1>4, <1>5
  <2>5. Ahead(c, texts) => Ahead(c, longer)'
    BY <1>5, <1>10, <2>2, <2>4, MoreIsAhead
  <2>6. ASSUME NEW taken \in Texts, Ahead(c, <<taken>> \o texts)
        PROVE  Ahead(c, <<taken>> \o longer)'
    <3>1. PICK one : one = <<taken>>
      OBVIOUS
    <3>2. one \in Seq(Texts)
      BY <3>1
    <3>3. PICK both \in Seq(Texts) : both = one \o texts
      BY <3>2, ConcatProperties
    <3>4. Ahead(c, Append(both, text))'
      BY <1>5, <1>10, <2>4, <2>6, <3>1, <3>3, MoreIsAhead
    <3>5. Append(one \o texts, text) = one \o Append(texts, text)
      BY <3>2, OneMoreWritten
    <3>. QED
      BY <2>2, <3>1, <3>3, <3>4, <3>5
  <2>. QED
    BY <1>5, <1>10, <2>1, <2>3, <2>5, <2>6 DEF Shows
<1>. QED
  BY <1>1, <1>5, <1>7, <1>8, <1>9, <1>10

Got(c, text) ==
    /\ session'[c].received = Append(session[c].received, text)
    /\ session'[c].written = session[c].written
    /\ session'[c].joined = session[c].joined

LEMMA LessIsAhead ==
    ASSUME NEW c \in Clients, NEW text \in Texts, Got(c, text), session[c].received \in Seq(Texts)
    PROVE  \A texts \in Seq(Texts) : Ahead(c, <<text>> \o texts) => Ahead(c, texts)'
PROOF
<1>. SUFFICES ASSUME NEW texts \in Seq(Texts), Ahead(c, <<text>> \o texts)
              PROVE  Ahead(c, texts)'
  OBVIOUS
<1>1. PICK received \in Seq(Texts) : received = session[c].received
  OBVIOUS
<1>2. session[c].written = received \o (<<text>> \o texts)
  BY <1>1 DEF Ahead
<1>3. received \o (<<text>> \o texts) = Append(received, text) \o texts
  BY OneMoreReceived
<1>4. session'[c].written = Append(received, text) \o texts
  BY <1>2, <1>3 DEF Got
<1>. QED
  BY <1>1, <1>4 DEF Ahead, Got

LEMMA NothingAhead ==
    ASSUME NEW c \in Clients, session[c].received \in Seq(Texts)
    PROVE  Ahead(c, << >>) <=> session[c].written = session[c].received
PROOF
<1>1. PICK received \in Seq(Texts) : received = session[c].received
  OBVIOUS
<1>2. received \o << >> = received
  BY ConcatEmptySeq
<1>. QED
  BY <1>1, <1>2 DEF Ahead

LEMMA GotFlows ==
    ASSUME Ends, NEW c \in Clients, ReadPipe(c), pipe[c].cells \in Seq(Octets),
           session[c].received \in Seq(Texts), NEW code \in Octets, Flows(c, code)
    PROVE  /\ Taken(c) = << >> =>
                /\ session[c].written = session[c].received
                /\ SameSession(c) => Flows(c, code)'
                /\ SameSession(c) /\ code = "10" /\ client'[c].data = << >> => Shows(c)'
           /\ Taken(c) # << >> => \E text \in Texts :
                /\ Taken(c) = Message(code, text)
                /\ Got(c, text) => Flows(c, code)'
                /\ SameSession(c) /\ code = "10" /\ client'[c].data = Message(code, text) => Shows(c)'
PROOF
<1>1. PICK texts \in Seq(Texts) : Carries(pipe[c].cells, code, texts) /\ Ahead(c, texts)
  BY DEF Flows
<1>2. /\ texts = << >> => Taken(c) = << >> /\ Carries(pipe'[c].cells, code, texts)
      /\ texts # << >> => /\ Head(texts) \in Texts /\ Tail(texts) \in Seq(Texts)
                          /\ Taken(c) = Message(code, Head(texts)) /\ Taken(c) # << >>
                          /\ Carries(pipe'[c].cells, code, Tail(texts))
  BY <1>1, ReadsOne
<1>3. SameSession(c) => \A some : Ahead(c, some) => Ahead(c, some)'
  BY DEF SameSession, Ahead
<1>4. CASE texts = << >>
  <2>1. session[c].written = session[c].received
    BY <1>1, <1>4, NothingAhead
  <2>2. SameSession(c) => Flows(c, code)'
    BY <1>1, <1>2, <1>3, <1>4 DEF Flows
  <2>3. ASSUME SameSession(c), code = "10", client'[c].data = << >>
        PROVE  Shows(c)'
    <3>1. "10" \in Octets
      BY DEF Octets
    <3>2. ~ IsPrefix(<<"10">>, << >>)
      BY <3>1, CodeIsFirst
    <3>3. ~ IsPrefix(<<"10">>, client[c].data)'
      BY <2>3, <3>2
    <3>. QED
      BY <1>1, <1>2, <1>3, <1>4, <2>3, <3>3 DEF Shows
  <2>. QED
    BY <1>2, <1>4, <2>1, <2>2, <2>3
<1>5. CASE texts # << >>
  <2>1. PICK text \in Texts, rest \in Seq(Texts) : text = Head(texts) /\ rest = Tail(texts)
    BY <1>2, <1>5
  <2>2. <<text>> \o rest = texts
    BY <1>5, <2>1, HeadThenTail
  <2>3. Taken(c) = Message(code, text) /\ Carries(pipe'[c].cells, code, rest)
    BY <1>2, <1>5, <2>1
  <2>4. ASSUME Got(c, text) PROVE Flows(c, code)'
    <3>1. Ahead(c, rest)'
      BY <1>1, <2>2, <2>4, LessIsAhead
    <3>. QED
      BY <2>3, <3>1 DEF Flows
  <2>5. ASSUME SameSession(c), code = "10", client'[c].data = Message(code, text)
        PROVE  Shows(c)'
    <3>1. Ahead(c, <<text>> \o rest)'
      BY <1>1, <1>3, <2>2, <2>5
    <3>. QED
      BY <2>3, <2>5, <3>1 DEF Shows
  <2>. QED
    BY <1>2, <1>5, <2>3, <2>4, <2>5
<1>. QED
  BY <1>4, <1>5

\* What the client shows is a message, or nothing.
LEMMA ShownFlows ==
    ASSUME NEW c \in Clients, session[c].received \in Seq(Texts), Shows(c),
           pipe'[c].cells = pipe[c].cells
    PROVE  /\ ~ IsPrefix(<<"10">>, client[c].data) /\ SameSession(c) => Flows(c, "10")'
           /\ IsPrefix(<<"10">>, client[c].data) => \E text \in Texts :
                TextOf(client[c].data) = text /\ (Got(c, text) => Flows(c, "10")')
PROOF
<1>1. PICK texts \in Seq(Texts) :
        /\ Carries(pipe[c].cells, "10", texts)
        /\ \/ Ahead(c, texts) /\ ~ IsPrefix(<<"10">>, client[c].data)
           \/ \E text \in Texts :
                client[c].data = Message("10", text) /\ Ahead(c, <<text>> \o texts)
  BY DEF Shows
<1>2. "10" \in Octets
  BY DEF Octets
<1>3. CASE Ahead(c, texts) /\ ~ IsPrefix(<<"10">>, client[c].data)
  <2>1. SameSession(c) => Ahead(c, texts)'
    BY <1>3 DEF SameSession, Ahead
  <2>. QED
    BY <1>1, <1>3, <2>1 DEF Flows
<1>4. ASSUME NEW text \in Texts,
             client[c].data = Message("10", text), Ahead(c, <<text>> \o texts)
      PROVE  /\ IsPrefix(<<"10">>, client[c].data) /\ TextOf(client[c].data) = text
             /\ Got(c, text) => Flows(c, "10")'
  <2>1. IsPrefix(<<"10">>, client[c].data) /\ TextOf(client[c].data) = text
    BY <1>2, <1>4, CodeIsFirst, TextIsFound
  <2>2. ASSUME Got(c, text) PROVE Flows(c, "10")'
    <3>1. Ahead(c, texts)'
      BY <1>4, <2>2, LessIsAhead
    <3>. QED
      BY <1>1, <3>1 DEF Flows
  <2>. QED
    BY <2>1, <2>2
<1>. QED
  BY <1>1, <1>3, <1>4

------------------------------------------------------------------------------
(* A client opens its pipe, or closes it *)

LEMMA GoOnFacts ==
    ASSUME Shape, NEW c \in Clients, NEW label, GoOn(c, label)
    PROVE  /\ client'[c].pc = label /\ client'[c].code = client[c].code
           /\ client'[c].end = client[c].end /\ client'[c].data = client[c].data
PROOF
  BY DEF Shape, ClientFields, GoOn

\* Where the worker has the other end of the pipe open.
Absent == {"before", "open", "after"}

LEMMA OtherEnd ==
    ASSUME Ends, Sessions, NEW c \in Clients, Running, Stage(c) \notin Absent
    PROVE  /\ client[c].code \in Codes
           /\ client[c].code = PUBLISH => \E w \in Workers : w \in pipe[c].readers
           /\ client[c].code # PUBLISH => \E w \in Workers : w \in pipe[c].writers
PROOF
<1>1. PICK w \in Workers : Serves(w, c)
  BY DEF Stage, Absent
<1>2. Stage(c) = worker[w].pc
  BY <1>1, StageOf DEF StageKnown
<1>3. HasOpen(w, c)
  BY <1>1, <1>2 DEF HasOpen, Running, Absent
<1>4. worker[w].code = client[c].code /\ client[c].code \in Codes
  BY <1>1 DEF Sessions, Serves
<1>. QED
  BY <1>3, <1>4 DEF Ends, PipeEnds

\* What a step of c leaves alone.
Aside(c) ==
    /\ Stage(c)' = Stage(c) /\ process' = process
    /\ client'[c].code = client[c].code /\ SameSession(c)

LEMMA SameBehind ==
    ASSUME NEW c \in Clients, SameSession(c)
    PROVE  Behind(c)' <=> Behind(c)
PROOF
<1>1. \A texts : Ahead(c, texts)' <=> Ahead(c, texts)
  BY DEF SameSession, Ahead
<1>. QED
  BY <1>1 DEF Behind

\* c's end is closed.
Closed(c) ==
    /\ pipe'[c].opened = pipe[c].opened \ {c}
    /\ pipe'[c].cells = << >> \/ pipe'[c].cells = pipe[c].cells
    /\ Running /\ Stage(c) \notin Absent => pipe'[c].cells = pipe[c].cells

LEMMA ClosesFacts ==
    ASSUME Ends, Sessions, NEW c \in Clients, ClosesEnd(c)
    PROVE  Closed(c)
PROOF
<1>1. DOMAIN pipe[c] = PipeFields /\ DOMAIN pipe = Clients /\ c \notin Workers
  BY ClientAssumption DEF Ends, PipeEnds
<1>2. PICK q : q = Closing(pipe[c], {c})
  OBVIOUS
<1>3. /\ DOMAIN q = PipeFields
      /\ q.readers = pipe[c].readers \ {c}
      /\ q.writers = pipe[c].writers \ {c}
      /\ q.opened = pipe[c].opened \ {c}
      /\ q.readers = {} /\ q.writers = {} => q.cells = << >>
      /\ q.readers # {} \/ q.writers # {} => q.cells = pipe[c].cells
  BY <1>1, <1>2 DEF Closing, PipeFields
<1>4. pipe'[c] \in {q, [q EXCEPT !.made = FALSE]}
  BY <1>1, <1>2 DEF ClosesEnd
<1>5. pipe'[c].opened = q.opened /\ pipe'[c].cells = q.cells
  BY <1>3, <1>4 DEF PipeFields
<1>6. ASSUME Running, Stage(c) \notin Absent PROVE q.readers # {} \/ q.writers # {}
  BY <1>1, <1>3, <1>6, OtherEnd
<1>. QED
  BY <1>3, <1>5, <1>6 DEF Closed

\* exit, or a signal.
LEMMA DiesStream ==
    ASSUME NEW c \in Clients, Stream(c), Aside(c), Closed(c),
           client[c].code \in Codes, client[c].pc \notin {"done", "failed"},
           pipe'[c].made = pipe[c].made, left'[c] = left[c],
           client'[c].pc = "failed"
    PROVE  Stream(c)'
PROOF
<1>1. StreamTypes(c) /\ Met(c)
  BY DEF Stream
<1>2. StreamTypes(c)'
  <2>1. Behind(c)' <=> Behind(c)
    BY SameBehind DEF Aside
  <2>2. pipe'[c].cells \in Seq(Octets)
    <3>1. CASE pipe'[c].cells = << >>
      BY <3>1
    <3>2. CASE pipe'[c].cells = pipe[c].cells
      BY <1>1, <3>2 DEF StreamTypes
    <3>. QED
      BY <3>1, <3>2 DEF Closed
  <2>. QED
    BY <1>1, <2>1, <2>2 DEF StreamTypes, Aside, SameSession
<1>3. Met(c)'
  BY <1>1 DEF Met, Aside, Closed, WithPipe
<1>4. PublisherStream(c) => PublisherStream(c)'
  <2>. SUFFICES ASSUME PublisherStream(c) PROVE PublisherStream(c)'
    OBVIOUS
  <2>1. ASSUME Running, Stage(c) \in BeforeRead
        PROVE  Untouched(c)' \/ AfterTest(c, PublisherTest, "9")'
    <3>1. CASE Untouched(c)
      BY <3>1 DEF Untouched, Aside, SameSession, Closed
    <3>2. CASE AfterTest(c, PublisherTest, "9") /\ client[c].pc \in Tested
      <4>1. Stage(c) \notin {"before", "open"}
        BY <1>1, <3>2 DEF Met, Tested, WithPipe, ClientPCs
      <4>2. pipe'[c].cells = pipe[c].cells
        BY <2>1, <4>1 DEF Closed, Absent, BeforeRead
      <4>. QED
        BY <3>2, <4>2, SameFlow DEF Aside
    <3>. QED
      BY <2>1, <3>1, <3>2 DEF PublisherStream
  <2>2. ASSUME Running, Stage(c) = "p_next", ~ session[c].joined
        PROVE  Flows(c, "9")'
    <3>1. pipe'[c].cells = pipe[c].cells
      BY <2>2 DEF Closed, Absent
    <3>. QED
      BY <2>2, <3>1, SameFlow DEF PublisherStream, Aside
  <2>. QED
    BY <2>1, <2>2 DEF PublisherStream, Aside, SameSession, Running, Tested
<1>5. SubscriberStream(c)'
  BY DEF SubscriberStream
<1>6. ManagerStream(c) => ManagerStream(c)'
  BY DEF ManagerStream, Aside, SameSession, Through
<1>7. ListStream(c) => ListStream(c)'
  BY DEF ListStream, Aside, SameSession, Through
<1>. QED
  BY <1>2, <1>3, <1>4, <1>5, <1>6, <1>7 DEF Stream, Aside

\* close and unlink.
LEMMA ClosesStream ==
    ASSUME NEW c \in Clients, Stream(c), Aside(c), Closed(c),
           client[c].code \in Codes, client[c].pc = "close",
           left'[c] = left[c],
           client'[c].pc = "done", client'[c].end = client[c].end
    PROVE  Stream(c)'
PROOF
<1>1. StreamTypes(c) /\ Met(c)
  BY DEF Stream
<1>2. StreamTypes(c)'
  <2>1. Behind(c)' <=> Behind(c)
    BY SameBehind DEF Aside
  <2>2. pipe'[c].cells \in Seq(Octets)
    <3>1. CASE pipe'[c].cells = << >>
      BY <3>1
    <3>2. CASE pipe'[c].cells = pipe[c].cells
      BY <1>1, <3>2 DEF StreamTypes
    <3>. QED
      BY <3>1, <3>2 DEF Closed
  <2>. QED
    BY <1>1, <2>1, <2>2 DEF StreamTypes, Aside, SameSession
<1>3. Stage(c) \notin {"before", "open"}
  BY <1>1 DEF Met, WithPipe, ClientPCs
<1>4. Met(c)'
  BY <1>3 DEF Met, Aside, WithPipe
<1>5. PublisherStream(c) => PublisherStream(c)'
  <2>. SUFFICES ASSUME PublisherStream(c) PROVE PublisherStream(c)'
    OBVIOUS
  <2>1. ASSUME Running, Stage(c) \in BeforeRead \cup {"p_next"}
        PROVE  pipe'[c].cells = pipe[c].cells
    BY <1>3, <2>1 DEF Closed, Absent, BeforeRead
  <2>2. ASSUME Running, Stage(c) \in BeforeRead
        PROVE  AfterTest(c, PublisherTest, "9")'
    <3>1. AfterTest(c, PublisherTest, "9")
      BY <2>2 DEF PublisherStream, Tested
    <3>. QED
      BY <2>1, <2>2, <3>1, SameFlow DEF Aside
  <2>3. ASSUME Running, Stage(c) = "p_next", ~ session[c].joined
        PROVE  Flows(c, "9")'
    BY <2>1, <2>3, SameFlow DEF PublisherStream, Aside
  <2>. QED
    BY <2>2, <2>3 DEF PublisherStream, Aside, SameSession, Running, Tested
<1>6. SubscriberStream(c) => SubscriberStream(c)'
  BY DEF SubscriberStream, Aside, Running
<1>7. ManagerStream(c) => ManagerStream(c)'
  BY DEF ManagerStream, Aside, SameSession, Through, Running
<1>8. ListStream(c) => ListStream(c)'
  BY DEF ListStream, Aside, SameSession, Through, Running
<1>. QED
  BY <1>2, <1>4, <1>5, <1>6, <1>7, <1>8 DEF Stream, Aside

\* Before its pipe is open a client writes and reads nothing.
LEMMA EarlyStream ==
    ASSUME NEW c \in Clients, Stream(c), Aside(c), client[c].code \in Codes,
           pipe'[c].cells = pipe[c].cells, left'[c] = left[c], Met(c)',
           \/ /\ client[c].pc \in {"start", "send", "open"}
              /\ client'[c].pc \in {"send", "open", "opening"}
           \/ /\ client[c].pc = "opening" /\ c \in pipe[c].opened
              /\ client'[c].pc \in {"sleep", "test", "response", "list"}
              /\ client'[c].pc = "sleep" <=> client[c].code = PUBLISH
              /\ client'[c].pc = "test" <=> client[c].code = SUBSCRIBE
           \/ client[c].pc = "sleep" /\ client'[c].pc = "test" /\ client[c].code = PUBLISH
    PROVE  Stream(c)'
PROOF
<1>1. /\ Untouched(c)' <=> Untouched(c)
      /\ \A test, code : AfterTest(c, test, code)' <=> AfterTest(c, test, code)
      /\ \A code : Flows(c, code)' <=> Flows(c, code)
      /\ Behind(c)' <=> Behind(c)
  BY SameFlow DEF Aside
<1>2. StreamTypes(c)'
  BY <1>1 DEF Stream, StreamTypes, Aside, SameSession
<1>3. PublisherStream(c) => PublisherStream(c)'
  BY <1>1 DEF PublisherStream, Aside, SameSession, Running, Tested
<1>4. client[c].code = SUBSCRIBE /\ SubscriberStream(c) => SubscriberStream(c)'
  BY <1>1 DEF SubscriberStream, Aside, SameSession, PUBLISH, SUBSCRIBE
<1>5. ManagerStream(c) => ManagerStream(c)'
  BY DEF ManagerStream, Aside, SameSession, Through, Carries, ResponseCode
<1>6. ListStream(c) => ListStream(c)'
  BY <1>1 DEF ListStream, Aside, SameSession, Through
<1>. QED
  BY <1>2, <1>3, <1>4, <1>5, <1>6 DEF Stream, Aside

SameState == UNCHANGED <<worker, process>> /\ \A d \in Clients : session'[d].served = session[d].served

LEMMA StagesStay ==
    ASSUME Sessions, Sessions', SameState
    PROVE  \A c \in Clients : Stage(c)' = Stage(c)
PROOF
<1>. SUFFICES ASSUME NEW c \in Clients PROVE Stage(c)' = Stage(c)
  OBVIOUS
<1>1. \A w \in Workers : Serves(w, c)' = Serves(w, c) /\ worker'[w].pc = worker[w].pc
  BY DEF SameState, Serves, InSession, path
<1>. QED
  BY <1>1, StageStays DEF SameState

\* The steps up to the open pipe.
LEMMA OpensStream ==
    ASSUME TypeInv, Sessions, Sessions', NEW c \in Clients, Stream(c),
           OpenRegister(c) \/ SendRequest(c) \/ OpenPipe(c) \/ PipeOpened(c)
    PROVE  Stream(c)'
PROOF
<1>1. Shape /\ Ends /\ PipeEnds(c) /\ client[c].end \in {0, 1}
  BY DEF TypeInv, Typed, Ends, ClientPlaces
<1>2. Stage(c)' = Stage(c)
  <2>1. SameState
    BY DEF OpenRegister, SendRequest, OpenPipe, PipeOpened, WriteRegister, SameState,
           registrationVars, processVars
  <2>. QED
    BY <2>1, StagesStay
<1>3. process' = process /\ left' = left /\ session' = session
  BY DEF OpenRegister, SendRequest, OpenPipe, PipeOpened, WriteRegister,
         registrationVars, processVars
<1>4. client[c].pc \in {"start", "send", "open", "opening"}
  BY DEF OpenRegister, SendRequest, OpenPipe, PipeOpened, Client
<1>5. client[c].code \in Codes
  BY <1>1, <1>4 DEF Shape
<1>6. Met(c)
  BY <1>5 DEF Stream
<1>7. \A label : GoOn(c, label) => Aside(c) /\ client'[c].pc = label
  BY <1>1, <1>2, <1>3, GoOnFacts DEF Aside, SameSession
<1>8. ASSUME GoOn(c, "failed"), client[c].pc \in {"start", "send"},
             pipe'[c].opened = pipe[c].opened, pipe'[c].cells = pipe[c].cells
      PROVE  Stream(c)'
  <2>1. Aside(c) /\ client'[c].pc = "failed"
    BY <1>7, <1>8
  <2>2. Met(c)'
    BY <1>6, <1>8, <2>1 DEF Met, Aside, WithPipe
  <2>3. /\ Untouched(c)' <=> Untouched(c)
        /\ \A test, code : AfterTest(c, test, code)' <=> AfterTest(c, test, code)
        /\ Behind(c)' <=> Behind(c)
    BY <1>8, <2>1, SameFlow DEF Aside
  <2>4. StreamTypes(c)'
    BY <1>3, <1>8, <2>1, <2>3 DEF Stream, StreamTypes, Aside, SameSession
  <2>5. PublisherStream(c) => PublisherStream(c)'
    BY <1>8, <2>1, <2>3 DEF PublisherStream, Aside, SameSession, Running, Tested
  <2>6. SubscriberStream(c)'
    BY <2>1 DEF SubscriberStream
  <2>7. ManagerStream(c) => ManagerStream(c)'
    BY <1>3, <2>1 DEF ManagerStream, Aside, SameSession, Through
  <2>8. ListStream(c) => ListStream(c)'
    BY <1>3, <2>1 DEF ListStream, Aside, SameSession, Through
  <2>. QED
    BY <2>1, <2>2, <2>4, <2>5, <2>6, <2>7, <2>8 DEF Stream, Aside
<1>9. CASE OpenRegister(c)
  <2>1. pipe' = pipe /\ client[c].pc = "start" /\ (GoOn(c, "send") \/ GoOn(c, "failed"))
    BY <1>9 DEF OpenRegister, Client
  <2>2. ASSUME GoOn(c, "send") PROVE Stream(c)'
    <3>1. Aside(c) /\ client'[c].pc = "send"
      BY <1>7, <2>2
    <3>2. Met(c)'
      BY <1>6, <2>1, <3>1 DEF Met, Aside, WithPipe
    <3>. QED
      BY <1>3, <1>5, <2>1, <3>1, <3>2, EarlyStream
  <2>. QED
    BY <1>8, <2>1, <2>2
<1>10. CASE SendRequest(c)
  <2>1. client[c].pc = "send" /\ (GoOn(c, "open") \/ GoOn(c, "failed"))
    BY <1>10 DEF SendRequest, Client
  <2>2. /\ pipe'[c].made = TRUE
        /\ pipe'[c].opened = pipe[c].opened /\ pipe'[c].cells = pipe[c].cells
    <3>1. pipe' = [pipe EXCEPT ![c].made = TRUE]
      BY <1>10 DEF SendRequest
    <3>. QED
      BY <1>1, <3>1 DEF Ends, PipeEnds, PipeFields
  <2>3. ASSUME GoOn(c, "open") PROVE Stream(c)'
    <3>1. Aside(c) /\ client'[c].pc = "open"
      BY <1>7, <2>3
    <3>2. Met(c)'
      BY <1>6, <2>1, <2>2, <3>1 DEF Met, Aside, WithPipe
    <3>. QED
      BY <1>3, <1>5, <2>1, <2>2, <3>1, <3>2, EarlyStream
  <2>. QED
    BY <1>8, <2>1, <2>2, <2>3
<1>11. CASE OpenPipe(c)
  <2>1. client[c].pc = "open" /\ GoOn(c, "opening")
    BY <1>11 DEF OpenPipe, Client
  <2>2. Aside(c) /\ client'[c].pc = "opening"
    BY <1>7, <2>1
  <2>3. PICK s \in {"readers", "writers"} : s = Side(client[c].code)
    BY DEF Side
  <2>4. PICK q : q = Opening(pipe[c], c, s) /\ pipe' = [pipe EXCEPT ![c] = q]
    BY <1>11, <2>3 DEF OpenPipe
  <2>5. pipe'[c] = q /\ DOMAIN pipe[c] = PipeFields
    BY <1>1, <2>4 DEF Ends, PipeEnds
  <2>6. /\ q.cells = pipe[c].cells /\ q.made = pipe[c].made
        /\ s = "readers" => q.readers = pipe[c].readers \cup {c} /\ q.writers = pipe[c].writers
        /\ s = "writers" => q.readers = pipe[c].readers /\ q.writers = pipe[c].writers \cup {c}
        /\ q.readers = {} \/ q.writers = {} => q.opened = pipe[c].opened
    BY <2>4, <2>5, OpeningFacts
  <2>7. ASSUME Stage(c) \in {"before", "open"} PROVE q.opened = pipe[c].opened
    <3>1. \A w \in Workers : ~ HasOpen(w, c)
      <4>. SUFFICES ASSUME NEW w \in Workers, HasOpen(w, c) PROVE FALSE
        OBVIOUS
      <4>1. Stage(c) = worker[w].pc /\ worker[w].pc # "open" /\ InSession(w)
        BY StageOf DEF HasOpen, Serves, StageKnown
      <4>2. worker[w].pc \in SessionPCs
        BY DEF TypeInv, Typed, WorkerPlaces
      <4>. QED
        BY <2>7, <4>1, <4>2 DEF SessionPCs
    <3>2. c \notin pipe[c].readers /\ c \notin pipe[c].writers
      BY <1>1, <2>1 DEF PipeEnds, WithPipe
    <3>3. pipe[c].readers = {} /\ pipe[c].writers = {}
      BY <1>1, <3>1, <3>2 DEF PipeEnds
    <3>. QED
      BY <2>3, <2>6, <3>3
  <2>8. Met(c)'
    BY <1>6, <2>1, <2>2, <2>5, <2>6, <2>7 DEF Met, Aside, WithPipe
  <2>. QED
    BY <1>3, <1>5, <2>1, <2>2, <2>5, <2>6, <2>8, EarlyStream
<1>12. CASE PipeOpened(c)
  <2>1. client[c].pc = "opening" /\ c \in pipe[c].opened /\ pipe' = pipe
    BY <1>12 DEF PipeOpened, Client
  <2>2. PICK label : label = CASE client[c].code = PUBLISH -> "sleep"
                                [] client[c].code = SUBSCRIBE -> "test"
                                [] client[c].code \in {CREATE, REMOVE} -> "response"
                                [] client[c].code = LIST -> "list"
    OBVIOUS
  <2>3. client'[c].pc = label /\ client'[c].code = client[c].code
    BY <1>1, <1>12, <2>2 DEF PipeOpened, Shape, ClientFields
  <2>4. /\ label \in {"sleep", "test", "response", "list"}
        /\ label = "sleep" <=> client[c].code = PUBLISH
        /\ label = "test" <=> client[c].code = SUBSCRIBE
    BY <1>5, <2>2 DEF Codes, BoxCodes, PUBLISH, SUBSCRIBE, CREATE, REMOVE, LIST
  <2>5. Aside(c)
    BY <1>2, <1>3, <2>3 DEF Aside, SameSession
  <2>6. Met(c)'
    BY <1>6, <2>1, <2>3, <2>4, <2>5 DEF Met, Aside, WithPipe, ClientPCs
  <2>. QED
    BY <1>3, <1>5, <2>1, <2>3, <2>4, <2>5, <2>6, EarlyStream
<1>. QED
  BY <1>9, <1>10, <1>11, <1>12

------------------------------------------------------------------------------
(* Publishers *)

LEMMA WriteFacts ==
    ASSUME Ends, NEW c \in Clients, NEW cells, WritePipe(c, cells)
    PROVE  /\ DOMAIN pipe' = Clients /\ \A d \in Clients \ {c} : pipe'[d] = pipe[d]
           /\ pipe'[c].made = pipe[c].made /\ pipe'[c].opened = pipe[c].opened
           /\ pipe'[c].cells = pipe[c].cells \o cells
           /\ pipe[c].readers # {}
PROOF
  BY DEF Ends, PipeEnds, PipeFields, WritePipe, Writable

LEMMA TestFacts ==
    /\ PublisherTest \in Seq(Octets) /\ SubscriberTest \in Seq(Octets)
    /\ {"4", "6", "8", "9", "10"} \subseteq Octets
PROOF
<1>1. "0" \in Octets /\ "test" \in Octets /\ NUL \in Octets
      /\ {"4", "6", "8", "9", "10"} \subseteq Octets
  BY DEF Octets
<1>2. \A x, y \in Octets : <<x, y>> \in Seq(Octets)
  <2>. SUFFICES ASSUME NEW x \in Octets, NEW y \in Octets PROVE <<x, y>> \in Seq(Octets)
    OBVIOUS
  <2>. QED
    OBVIOUS
<1>. QED
  BY <1>1, <1>2 DEF PublisherTest, SubscriberTest

LEMMA TestIsWritten ==
    ASSUME NEW c \in Clients, NEW test \in Seq(Octets), NEW code, Untouched(c), SameSession(c),
           pipe'[c].cells = pipe[c].cells \o test
    PROVE  pipe'[c].cells \in Seq(Octets) /\ AfterTest(c, test, code)'
PROOF
<1>1. pipe[c].cells = << >> /\ session'[c].written = << >>
  BY DEF Untouched, SameSession
<1>2. << >> \o test = test /\ test \o << >> = test
  BY ConcatEmptySeq
<1>3. pipe'[c].cells = test /\ pipe'[c].cells = test \o << >>
  BY <1>1, <1>2
<1>none. PICK none : none = << >>
  OBVIOUS
<1>4. none = << >> /\ none \in Seq(Octets)
  BY <1>none
<1>5. Carries(none, code, << >>)
  BY <1>4, CarriesNone
<1>. QED
  BY <1>1, <1>3, <1>4, <1>5 DEF AfterTest

\* c goes on without reading or writing.
Calm(c) ==
    /\ pipe'[c].cells = pipe[c].cells /\ pipe'[c].opened = pipe[c].opened
    /\ pipe'[c].made = pipe[c].made

LEMMA TestedStream ==
    ASSUME NEW c \in Clients, Stream(c), Aside(c), Calm(c), client[c].code = PUBLISH,
           left'[c] \in Seq(Texts), client[c].pc \in {"loop", "fgets", "write"},
           client'[c].pc \in {"loop", "fgets", "write", "close"},
           client'[c].pc = "write" => client'[c].data \in Texts
    PROVE  Stream(c)'
PROOF
<1>1. /\ Untouched(c)' <=> Untouched(c)
      /\ \A test, code : AfterTest(c, test, code)' <=> AfterTest(c, test, code)
      /\ \A code : Flows(c, code)' <=> Flows(c, code)
      /\ Behind(c)' <=> Behind(c)
  BY SameFlow DEF Aside, Calm
<1>2. StreamTypes(c)'
  BY <1>1 DEF Stream, StreamTypes, Aside, SameSession, Calm
<1>3. Met(c) => Met(c)'
  BY DEF Met, Aside, Calm, WithPipe, ClientPCs
<1>4. PublisherStream(c) => PublisherStream(c)'
  BY <1>1 DEF PublisherStream, Aside, SameSession, Running, Tested
<1>. QED
  BY <1>2, <1>3, <1>4 DEF Stream, Aside, PUBLISH, SUBSCRIBE, CREATE, REMOVE, LIST, Codes, BoxCodes

LEMMA PublisherKeepsStream ==
    ASSUME TypeInv, Sessions, Sessions', NEW c \in Clients, Stream(c), DOMAIN left = Clients,
           PublisherStep(c) \/ PublisherReadsLine(c)
    PROVE  Stream(c)'
PROOF
<1>1. Shape /\ Ends /\ PipeEnds(c) /\ ClientRole(c)
  BY DEF TypeInv, Typed, Ends, ClientPlaces
<1>2. client[c].pc \in {"sleep", "test", "loop", "fgets", "write"}
  BY DEF PublisherStep, PublisherSleeps, PublisherTests, PublisherLoop, PublisherWrites,
         PublisherReadsLine, Client
<1>3. client[c].code = PUBLISH
  BY <1>1, <1>2 DEF ClientRole, PublisherStep, PublisherSleeps, PublisherTests, PublisherLoop,
         PublisherWrites, PublisherReadsLine, Client
<1>4. PUBLISH \in Codes /\ PUBLISH \notin {SUBSCRIBE, CREATE, REMOVE, LIST}
  BY DEF Codes, BoxCodes, PUBLISH, SUBSCRIBE, CREATE, REMOVE, LIST
<1>5. StreamTypes(c) /\ Met(c) /\ PublisherStream(c)
  BY <1>3, <1>4 DEF Stream
<1>6. process' = process /\ Stage(c)' = Stage(c)
  <2>1. UNCHANGED <<worker, process>>
    BY DEF PublisherStep, PublisherSleeps, PublisherTests, PublisherLoop, PublisherWrites,
           PublisherReadsLine, registrationVars, processVars
  <2>2. \A d \in Clients : session'[d].served = session[d].served
    <3>1. CASE session' = [session EXCEPT ![c].early = Undecided(c)]
      BY <1>1, <3>1 DEF Shape, SessionFields
    <3>2. CASE WasWritten(c, client[c].data)
      BY <1>1, <3>2, WrittenFacts
    <3>3. \/ session' = [session EXCEPT ![c].early = Undecided(c)]
          \/ WasWritten(c, client[c].data)
          \/ session' = session
      BY DEF PublisherStep, PublisherSleeps, PublisherTests, PublisherLoop, PublisherWrites,
             PublisherReadsLine
    <3>. QED
      BY <3>1, <3>2, <3>3
  <2>3. SameState
    BY <2>1, <2>2 DEF SameState
  <2>. QED
    BY <2>1, <2>3, StagesStay
<1>7. CASE PublisherSleeps(c)
  <2>1. /\ client[c].pc = "sleep" /\ client'[c].pc = "test" /\ client'[c].code = client[c].code
        /\ UNCHANGED <<pipe, left, session>>
    BY <1>1, <1>7 DEF PublisherSleeps, Client, Shape, ClientFields
  <2>2. Aside(c)
    BY <1>6, <2>1 DEF Aside, SameSession
  <2>3. Met(c)'
    BY <1>5, <2>1, <2>2 DEF Met, Aside, WithPipe, ClientPCs
  <2>. QED
    BY <1>3, <1>4, <2>1, <2>2, <2>3, EarlyStream
<1>8. CASE PublisherLoop(c)
  <2>1. PICK label \in {"fgets", "close"} : GoOn(c, label)
    BY <1>8 DEF PublisherLoop
  <2>2. client[c].pc = "loop" /\ UNCHANGED <<pipe, left, session>>
    BY <1>8 DEF PublisherLoop, Client
  <2>3. client'[c].pc = label /\ client'[c].code = client[c].code
    BY <1>1, <2>1, GoOnFacts
  <2>4. Aside(c) /\ Calm(c) /\ left'[c] \in Seq(Texts)
    BY <1>5, <1>6, <2>2, <2>3 DEF Aside, SameSession, Calm, StreamTypes
  <2>. QED
    BY <1>3, <2>2, <2>3, <2>4, TestedStream
<1>9. CASE PublisherReadsLine(c)
  <2>1. client[c].pc = "fgets" /\ UNCHANGED <<pipe, session>> /\ left[c] \in Seq(Texts)
    BY <1>5, <1>9 DEF PublisherReadsLine, Client, StreamTypes
  <2>2. CASE GoOn(c, "close") /\ UNCHANGED left
    <3>1. client'[c].pc = "close" /\ client'[c].code = client[c].code
      BY <1>1, <2>2, GoOnFacts
    <3>2. Aside(c) /\ Calm(c)
      BY <1>6, <2>1, <3>1 DEF Aside, SameSession, Calm
    <3>. QED
      BY <1>3, <2>1, <2>2, <3>1, <3>2, TestedStream
  <2>3. CASE /\ left[c] # << >>
             /\ client' = [client EXCEPT ![c].pc = "write", ![c].data = Head(left[c])]
             /\ left' = [left EXCEPT ![c] = Tail(@)]
    <3>1. PICK texts \in Seq(Texts) : texts = left[c] /\ texts # << >>
      BY <2>1, <2>3
    <3>2. PICK text, rest : text = Head(texts) /\ rest = Tail(texts)
      OBVIOUS
    <3>. text \in Texts /\ rest \in Seq(Texts)
      BY <3>1, <3>2, HeadTailProperties
    <3>3. /\ client'[c].pc = "write" /\ client'[c].code = client[c].code
          /\ client'[c].data = text
      BY <1>1, <2>3, <3>1, <3>2 DEF Shape, ClientFields
    <3>4. left'[c] \in Seq(Texts)
      <4>1. left' = [left EXCEPT ![c] = rest]
        BY <2>3, <3>1, <3>2
      <4>. QED
        BY <4>1
    <3>5. Aside(c) /\ Calm(c)
      BY <1>6, <2>1, <3>3 DEF Aside, SameSession, Calm
    <3>. QED
      BY <1>3, <2>1, <3>3, <3>4, <3>5, TestedStream
  <2>. QED
    BY <1>9, <2>2, <2>3 DEF PublisherReadsLine
<1>10. CASE PublisherTests(c)
  <2>1. client[c].pc = "test" /\ left' = left
    BY <1>10 DEF PublisherTests, Client
  <2>2. client'[c].pc = "loop" /\ client'[c].code = client[c].code
    BY <1>1, <1>10, GoOnFacts DEF PublisherTests, Shape, ClientFields
  <2>3. SameSession(c)
    BY <1>1, <1>10 DEF PublisherTests, Shape, SessionFields, SameSession
  <2>4. Aside(c)
    BY <1>6, <2>2, <2>3 DEF Aside
  <2>5. Stage(c) \notin {"before", "open"}
    BY <1>5, <2>1 DEF Met, WithPipe, ClientPCs
  <2>6. ~ (Running /\ Stage(c) = "p_next" /\ ~ session[c].joined)
    BY <1>5, <2>1 DEF PublisherStream, Tested
  <2>7. Running /\ Stage(c) \in BeforeRead =>
            session[c].received = << >> /\ ~ session[c].joined /\ Untouched(c)
    BY <1>5, <2>1 DEF PublisherStream, Tested
  <2>8. ASSUME pipe'[c].made = pipe[c].made, pipe'[c].opened = pipe[c].opened,
               pipe'[c].cells \in Seq(Octets),
               Running /\ Stage(c) \in BeforeRead => AfterTest(c, PublisherTest, "9")'
        PROVE  Stream(c)'
    <3>1. StreamTypes(c)'
      BY <1>5, <2>1, <2>3, <2>8, SameBehind DEF StreamTypes, SameSession
    <3>2. Met(c)'
      BY <1>5, <2>1, <2>2, <2>4, <2>8 DEF Met, Aside, WithPipe, ClientPCs
    <3>3. PublisherStream(c)'
      BY <2>2, <2>4, <2>6, <2>7, <2>8 DEF PublisherStream, Aside, SameSession, Running, Tested
    <3>. QED
      BY <1>3, <1>4, <2>2, <3>1, <3>2, <3>3 DEF Stream
  <2>9. CASE WritePipe(c, PublisherTest)
    <3>1. pipe'[c].made = pipe[c].made /\ pipe'[c].opened = pipe[c].opened
          /\ pipe'[c].cells = pipe[c].cells \o PublisherTest
      BY <1>1, <2>9, WriteFacts
    <3>2. pipe'[c].cells \in Seq(Octets)
      BY <1>5, <3>1, TestFacts, ConcatProperties DEF StreamTypes
    <3>3. Running /\ Stage(c) \in BeforeRead => AfterTest(c, PublisherTest, "9")'
      BY <2>3, <2>7, <3>1, TestFacts, TestIsWritten
    <3>. QED
      BY <2>8, <3>1, <3>2, <3>3
  <2>10. CASE ~ Writable(c) /\ UNCHANGED pipe
    <3>1. ~ (Running /\ Stage(c) \in BeforeRead)
      <4>. SUFFICES ASSUME Running, Stage(c) \in BeforeRead PROVE FALSE
        OBVIOUS
      <4>1. \E w \in Workers : w \in pipe[c].readers
        BY <1>1, <1>3, <2>5, OtherEnd DEF BeforeRead, Absent
      <4>. QED
        BY <2>10, <4>1 DEF Writable
    <3>. QED
      BY <1>5, <2>8, <2>10, <3>1 DEF StreamTypes
  <2>. QED
    BY <1>10, <2>9, <2>10 DEF PublisherTests
<1>11. CASE PublisherWrites(c)
  <2>1. client[c].pc = "write" /\ left' = left
    BY <1>11 DEF PublisherWrites, Client
  <2>2. CASE Dies(c) /\ UNCHANGED session
    <3>1. client'[c].pc = "failed" /\ client'[c].code = client[c].code
      BY <1>1, <2>2, GoOnFacts DEF Dies
    <3>2. Aside(c)
      BY <1>6, <2>2, <3>1 DEF Aside, SameSession
    <3>3. Closed(c)
      BY <1>1, <2>2, ClosesFacts DEF Dies, ClosesEnd
    <3>4. pipe'[c].made = pipe[c].made
      BY <1>1, <2>2, ClosingFacts DEF Dies, Ends, PipeEnds
    <3>. QED
      BY <1>3, <1>4, <2>1, <3>1, <3>2, <3>3, <3>4, DiesStream
  <2>3. CASE /\ WritePipe(c, Message("9", client[c].data))
             /\ WasWritten(c, client[c].data)
             /\ GoOn(c, "loop")
    <3>1. client'[c].pc = "loop" /\ client'[c].code = client[c].code
      BY <1>1, <2>3, GoOnFacts
    <3>2. PICK text \in Texts : text = client[c].data
      BY <1>5, <2>1 DEF PublisherStream
    <3>3. /\ pipe'[c].made = pipe[c].made /\ pipe'[c].opened = pipe[c].opened
          /\ pipe'[c].cells = pipe[c].cells \o Message("9", text)
      BY <1>1, <2>3, <3>2, WriteFacts
    <3>4. /\ session'[c].written = Append(session[c].written, text)
          /\ session'[c].received = session[c].received
          /\ session'[c].joined = session[c].joined
      BY <1>1, <2>3, <3>2, WrittenFacts
    <3>5. Sent(c, "9", text) /\ SameButWritten(c)
      BY <3>3, <3>4 DEF Sent, SameButWritten
    <3>6. "9" \in Octets
      BY TestFacts
    <3>7. /\ pipe'[c].cells \in Seq(Octets) /\ session'[c].written \in Seq(Texts)
          /\ \A test \in Seq(Octets) : AfterTest(c, test, "9") => AfterTest(c, test, "9")'
          /\ session[c].received \in Seq(Texts) => (Flows(c, "9") => Flows(c, "9")')
      BY <1>5, <3>5, <3>6, SentFlows DEF StreamTypes
    <3>8. StreamTypes(c)'
      <4>1. ASSUME ~ session[c].joined PROVE Behind(c)'
        BY <1>5, <3>4, <3>5, <4>1, StillBehind DEF StreamTypes
      <4>. QED
        BY <1>5, <2>1, <3>4, <3>7, <4>1 DEF StreamTypes
    <3>9. Met(c)'
      BY <1>5, <1>6, <2>1, <3>1, <3>3 DEF Met, WithPipe, ClientPCs
    <3>10. PublisherStream(c)'
      <4>1. ASSUME Running, Stage(c) \in BeforeRead PROVE AfterTest(c, PublisherTest, "9")'
        <5>1. AfterTest(c, PublisherTest, "9")
          BY <1>5, <2>1, <4>1 DEF PublisherStream, Tested
        <5>. QED
          BY <3>7, <5>1, TestFacts
      <4>2. ASSUME Running, Stage(c) = "p_next", ~ session[c].joined PROVE Flows(c, "9")'
        BY <1>5, <3>7, <4>2 DEF PublisherStream, StreamTypes
      <4>. QED
        BY <1>5, <1>6, <3>1, <3>4, <4>1, <4>2 DEF PublisherStream, Running, Tested
    <3>. QED
      BY <1>3, <1>4, <3>1, <3>8, <3>9, <3>10 DEF Stream
  <2>. QED
    BY <1>11, <2>2, <2>3 DEF PublisherWrites
<1>. QED
  BY <1>7, <1>8, <1>9, <1>10, <1>11 DEF PublisherStep

------------------------------------------------------------------------------
(* Subscribers *)

SameEnds(c) == pipe'[c].made = pipe[c].made /\ pipe'[c].opened = pipe[c].opened

LEMMA StillMet ==
    ASSUME NEW c \in Clients, Met(c), SameEnds(c), Stage(c)' = Stage(c),
           client[c].pc \in WithPipe \ {"opening"}, client'[c].pc \in WithPipe \ {"opening"}
    PROVE  Met(c)'
PROOF
  BY DEF Met, SameEnds, WithPipe, ClientPCs

\* The client got nothing: the worker has closed the pipe.
LEMMA NothingToRead ==
    ASSUME Ends, Sessions, NEW c \in Clients, Met(c), ReadPipe(c), pipe[c].cells \in Seq(Octets),
           Taken(c) = << >>, client[c].code # PUBLISH, client[c].pc \in WithPipe \ {"opening"}
    PROVE  Stage(c) = "after" \/ ~ Running
PROOF
<1>. SUFFICES ASSUME Running PROVE Stage(c) = "after"
  OBVIOUS
<1>1. pipe[c].writers = {}
  BY ReadFacts
<1>2. Stage(c) \in Absent
  BY <1>1, OtherEnd
<1>3. Stage(c) \notin {"before", "open"}
  BY DEF Met
<1>. QED
  BY <1>2, <1>3 DEF Absent

LEMMA SubscriberKeepsStream ==
    ASSUME TypeInv, Sessions, Sessions', NEW c \in Clients, Stream(c), SubscriberStep(c)
    PROVE  Stream(c)'
PROOF
<1>1. Shape /\ Ends /\ ClientRole(c)
  BY DEF TypeInv, Typed, ClientPlaces
<1>2. client[c].pc \in {"test", "first", "read", "print"}
  BY DEF SubscriberStep, SubscriberTests, SubscriberReads, SubscriberPrints, Client
<1>3. client[c].code = SUBSCRIBE
  BY <1>1, <1>2 DEF ClientRole, SubscriberStep, SubscriberTests, SubscriberReads,
                    SubscriberPrints, Client
<1>4. SUBSCRIBE \in Codes /\ SUBSCRIBE \notin {PUBLISH, CREATE, REMOVE, LIST}
  BY DEF Codes, BoxCodes, PUBLISH, SUBSCRIBE, CREATE, REMOVE, LIST
<1>5. StreamTypes(c) /\ Met(c) /\ SubscriberStream(c)
  BY <1>3, <1>4 DEF Stream
<1>6. process' = process /\ left' = left /\ Stage(c)' = Stage(c)
  <2>1. UNCHANGED <<worker, process, left>>
    BY DEF SubscriberStep, SubscriberTests, SubscriberReads, SubscriberPrints,
           registrationVars, processVars
  <2>2. \A d \in Clients : session'[d].served = session[d].served
    <3>1. ASSUME NEW x, session' = [session EXCEPT ![c].joined = x]
          PROVE  \A d \in Clients : session'[d].served = session[d].served
      BY <1>1, <3>1, JoinedFacts
    <3>2. ASSUME NEW text, Received(c, text)
          PROVE  \A d \in Clients : session'[d].served = session[d].served
      BY <1>1, <3>2, ReceivedFacts
    <3>3. \/ \E x : session' = [session EXCEPT ![c].joined = x]
          \/ \E text : Received(c, text)
          \/ session' = session
      BY DEF SubscriberStep, SubscriberTests, SubscriberReads, SubscriberPrints
    <3>. QED
      BY <3>1, <3>2, <3>3
  <2>3. SameState
    BY <2>1, <2>2 DEF SameState
  <2>. QED
    BY <2>1, <2>3, StagesStay
<1>7. ASSUME SameEnds(c), pipe'[c].cells \in Seq(Octets), client'[c].code = client[c].code,
             client'[c].pc \in {"first", "read", "print", "close"},
             session'[c].written = session[c].written, session'[c].joined \in BOOLEAN,
             ~ session'[c].joined => session'[c].received \in Seq(Texts) /\ Behind(c)',
             SubscriberStream(c)'
      PROVE  Stream(c)'
  <2>1. StreamTypes(c)'
    BY <1>5, <1>6, <1>7 DEF StreamTypes
  <2>2. Met(c)'
    BY <1>2, <1>5, <1>6, <1>7, StillMet DEF WithPipe, ClientPCs
  <2>. QED
    BY <1>3, <1>4, <1>7, <2>1, <2>2 DEF Stream
<1>8. client[c].pc \in WithPipe \ {"opening"} /\ client[c].code # PUBLISH
  BY <1>2, <1>3, <1>4 DEF WithPipe, ClientPCs
<1>9. pipe[c].cells \in Seq(Octets) /\ (~ session[c].joined => session[c].received \in Seq(Texts))
  BY <1>5 DEF StreamTypes
<1>10. "10" \in Octets
  BY TestFacts
<1>11. ASSUME ReadPipe(c) PROVE SameEnds(c) /\ pipe'[c].cells \in Seq(Octets)
  BY <1>1, <1>9, <1>11, ReadFacts DEF SameEnds
<1>12. CASE SubscriberTests(c)
  <2>1. client[c].pc = "test" /\ ReadPipe(c)
    BY <1>12 DEF SubscriberTests, Client
  <2>2. session[c].received = << >> /\ ~ session[c].joined
        /\ \/ Untouched(c)
           \/ AfterTest(c, SubscriberTest, "10") /\ Stage(c) \in Sending
    BY <1>5, <2>1 DEF SubscriberStream
  <2>3. CASE Untouched(c)
    <3>1. pipe[c].cells = << >> /\ session[c].written = << >>
      BY <2>3 DEF Untouched
    <3>2. Carries(pipe[c].cells, "10", << >>)
      BY <1>9, <3>1, CarriesNone
    <3>none. PICK none : none = << >>
      OBVIOUS
    <3>3. none \in Seq(Texts) /\ Carries(pipe[c].cells, "10", none)
      BY <3>none, <3>2
    <3>4. Taken(c) = << >>
      BY <1>1, <1>9, <1>10, <2>1, <3>none, <3>3, ReadsOne
    <3>5. ~ IsPrefix(SubscriberTest, Taken(c))
      <4>1. Len(SubscriberTest) = 2 /\ Len(<< >>) = 0
        BY DEF SubscriberTest
      <4>. QED
        BY <3>4, <4>1 DEF IsPrefix
    <3>6. GoOn(c, "close") /\ session' = session
      BY <1>12, <3>5 DEF SubscriberTests
    <3>7. client'[c].pc = "close" /\ client'[c].code = client[c].code
      BY <1>1, <3>6, GoOnFacts
    <3>8. Stage(c) = "after" \/ ~ Running
      BY <1>1, <1>5, <1>8, <1>9, <2>1, <3>4, NothingToRead
    <3>9. SubscriberStream(c)'
      BY <1>6, <3>7, <3>8 DEF SubscriberStream, Running
    <3>10. SameSession(c) /\ (Behind(c)' <=> Behind(c))
      BY <3>6, SameBehind DEF SameSession
    <3>. QED
      BY <1>5, <1>7, <1>11, <2>1, <3>6, <3>7, <3>9, <3>10 DEF StreamTypes
  <2>4. CASE AfterTest(c, SubscriberTest, "10") /\ Stage(c) \in Sending
    <3>1. session[c].written \in Seq(Texts)
      BY <1>5 DEF StreamTypes
    <3>2. /\ Len(SubscriberTest) = 2 /\ IsPrefix(SubscriberTest, Taken(c))
          /\ ~ (Len(Taken(c)) > Len(SubscriberTest)) =>
                pipe'[c].cells = << >> /\ session[c].written = << >>
      BY <1>1, <1>9, <1>10, <2>1, <2>4, <3>1, ReadsTest
    <3>joined. PICK joined : joined = (Len(Taken(c)) > Len(SubscriberTest))
      OBVIOUS
    <3>3. joined \in BOOLEAN /\ joined = (Len(Taken(c)) > Len(SubscriberTest))
      BY <3>joined
    <3>4. GoOn(c, "first") /\ session' = [session EXCEPT ![c].joined = joined]
      BY <1>12, <3>2, <3>3 DEF SubscriberTests
    <3>5. client'[c].pc = "first" /\ client'[c].code = client[c].code
      BY <1>1, <3>4, GoOnFacts
    <3>6. /\ session'[c].joined = joined /\ session'[c].received = << >>
          /\ session'[c].written = session[c].written
      BY <1>1, <2>2, <3>4, JoinedFacts
    <3>7. ASSUME ~ joined
          PROVE  /\ session'[c].received \in Seq(Texts)
                 /\ Behind(c)' /\ Flows(c, "10")'
      <4>none. PICK none : none = << >>
        OBVIOUS
      <4>0. none \in Seq(Texts) /\ none \in Seq(Octets)
        BY <4>none
      <4>1. pipe'[c].cells = none /\ session'[c].written = none /\ session'[c].received = none
        BY <3>2, <3>3, <3>6, <3>7, <4>none
      <4>2. Carries(none, "10", none)
        BY <4>none, <4>0, CarriesNone
      <4>3. none = none \o none
        BY <4>none, <4>0, ConcatEmptySeq
      <4>4. Ahead(c, none)'
        BY <4>1, <4>3 DEF Ahead
      <4>. QED
        BY <4>0, <4>1, <4>2, <4>4 DEF Behind, Flows
    <3>8. SubscriberStream(c)'
      BY <1>6, <2>4, <3>5, <3>6, <3>7 DEF SubscriberStream, Sending
    <3>. QED
      BY <1>7, <1>11, <2>1, <3>3, <3>5, <3>6, <3>7, <3>8
  <2>. QED
    BY <2>2, <2>3, <2>4
<1>13. CASE SubscriberReads(c)
  <2>1. client[c].pc \in {"first", "read"} /\ ReadPipe(c) /\ session' = session
    BY <1>13 DEF SubscriberReads, Client
  <2>2. PICK label : label = IF Taken(c) = << >> /\ client[c].pc = "read" THEN "close" ELSE "print"
    OBVIOUS
  <2>3. client' = [client EXCEPT ![c].pc = label, ![c].data = Taken(c)]
    BY <1>1, <1>13, <2>2 DEF SubscriberReads, Shape, ClientFields
  <2>4. client'[c].pc = label /\ client'[c].code = client[c].code /\ client'[c].data = Taken(c)
    BY <1>1, <2>3 DEF Shape, ClientFields
  <2>5. Stage(c) \in Sending /\ (~ session[c].joined => Flows(c, "10"))
    BY <1>5, <2>1 DEF SubscriberStream
  <2>6. SameSession(c) /\ (Behind(c)' <=> Behind(c))
    BY <2>1, SameBehind DEF SameSession
  <2>7. ASSUME ~ session[c].joined PROVE Shows(c)'
    <3>1. /\ Taken(c) = << >> =>
                (SameSession(c) /\ client'[c].data = << >> => Shows(c)')
          /\ Taken(c) # << >> => \E text \in Texts :
                /\ Taken(c) = Message("10", text)
                /\ SameSession(c) /\ client'[c].data = Message("10", text) => Shows(c)'
      BY <1>1, <1>9, <1>10, <2>1, <2>5, <2>7, GotFlows
    <3>. QED
      BY <2>4, <2>6, <3>1
  <2>8. label = "close" => Stage(c) = "after" \/ ~ Running
    BY <1>1, <1>5, <1>8, <1>9, <2>1, <2>2, NothingToRead
  <2>9. SubscriberStream(c)'
    BY <1>6, <2>1, <2>2, <2>4, <2>5, <2>7, <2>8 DEF SubscriberStream, Running
  <2>. QED
    BY <1>5, <1>7, <1>11, <2>1, <2>2, <2>4, <2>6, <2>9 DEF StreamTypes
<1>14. CASE SubscriberPrints(c)
  <2>1. client[c].pc = "print" /\ pipe' = pipe
    BY <1>14 DEF SubscriberPrints, Client
  <2>2. PICK label : label = IF client[c].end = 0 THEN "read" ELSE "close"
    OBVIOUS
  <2>3. GoOn(c, label)
    BY <1>14, <2>2 DEF SubscriberPrints
  <2>4. /\ client'[c].pc = label /\ client'[c].code = client[c].code
        /\ client'[c].end = client[c].end
    BY <1>1, <2>3, GoOnFacts
  <2>5. SameEnds(c) /\ pipe'[c].cells \in Seq(Octets) /\ pipe'[c].cells = pipe[c].cells
    BY <1>9, <2>1 DEF SameEnds
  <2>6. client[c].end \in {0, 1}
    BY DEF TypeInv, Typed, ClientPlaces
  <2>7. /\ Stage(c) \in Sending
        /\ ~ session[c].joined /\ client[c].end = 0 => Shows(c)
    BY <1>5, <2>1 DEF SubscriberStream
  <2>8. CASE client[c].end = 0 /\ IsPrefix(<<"10">>, client[c].data)
    <3>1. Received(c, TextOf(client[c].data))
      BY <1>14, <2>8 DEF SubscriberPrints
    <3>2. PICK text : text = TextOf(client[c].data)
      OBVIOUS
    <3>3. /\ session'[c].received = Append(session[c].received, text)
          /\ session'[c].written = session[c].written
          /\ session'[c].joined = session[c].joined
      BY <1>1, <3>1, <3>2, ReceivedFacts
    <3>4. Got(c, text)
      BY <3>3 DEF Got
    <3>5. ASSUME ~ session[c].joined
          PROVE  /\ session'[c].received \in Seq(Texts)
                 /\ Flows(c, "10")' /\ Behind(c)'
      <4>1. \E some \in Texts : text = some /\ (Got(c, some) => Flows(c, "10")')
        BY <1>9, <2>5, <2>7, <2>8, <3>2, <3>5, ShownFlows
      <4>2. text \in Texts /\ Flows(c, "10")'
        BY <3>4, <4>1
      <4>3. session'[c].received \in Seq(Texts)
        BY <1>9, <3>3, <3>5, <4>2
      <4>. QED
        BY <4>2, <4>3 DEF Flows, Behind
    <3>6. SubscriberStream(c)'
      BY <1>6, <2>2, <2>4, <2>7, <2>8, <3>3, <3>5 DEF SubscriberStream
    <3>. QED
      BY <1>5, <1>7, <2>2, <2>4, <2>5, <3>3, <3>5, <3>6 DEF StreamTypes
  <2>9. CASE ~ (client[c].end = 0 /\ IsPrefix(<<"10">>, client[c].data))
    <3>1. session' = session
      BY <1>14, <2>9 DEF SubscriberPrints
    <3>2. SameSession(c) /\ (Behind(c)' <=> Behind(c))
      BY <3>1, SameBehind DEF SameSession
    <3>3. ASSUME ~ session[c].joined, client[c].end = 0 PROVE Flows(c, "10")'
      BY <1>9, <2>5, <2>7, <2>9, <3>2, <3>3, ShownFlows
    <3>4. SubscriberStream(c)'
      BY <1>6, <2>2, <2>4, <2>6, <2>7, <3>1, <3>3 DEF SubscriberStream
    <3>. QED
      BY <1>5, <1>7, <2>2, <2>4, <2>5, <3>1, <3>2, <3>4 DEF StreamTypes
  <2>. QED
    BY <2>8, <2>9
<1>. QED
  BY <1>12, <1>13, <1>14 DEF SubscriberStep

------------------------------------------------------------------------------
(* Managers *)

LEMMA AllReceived ==
    ASSUME NEW c \in Clients, session'[c].written \in Seq(Texts),
           session'[c].received = session'[c].written
    PROVE  session'[c].received \in Seq(Texts) /\ Behind(c)'
PROOF
<1>none. PICK none : none = << >>
  OBVIOUS
<1>1. none \in Seq(Texts)
  BY <1>none
<1>2. PICK all : all = session'[c].written
  OBVIOUS
<1>3. all \in Seq(Texts)
  BY <1>2
<1>4. all \o none = all
  BY <1>none, <1>3, ConcatEmptySeq
<1>5. Ahead(c, none)'
  BY <1>2, <1>4 DEF Ahead
<1>. QED
  BY <1>1, <1>2, <1>3, <1>5 DEF Behind

LEMMA ManagerKeepsStream ==
    ASSUME TypeInv, Sessions, Sessions', NEW c \in Clients, Stream(c),
           ManagerReads(c) \/ ManagerLists(c)
    PROVE  Stream(c)'
PROOF
<1>1. Shape /\ Ends /\ ClientRole(c)
  BY DEF TypeInv, Typed, ClientPlaces
<1>2. /\ client[c].pc \in {"response", "list"} /\ ReadPipe(c) /\ left' = left
      /\ UNCHANGED <<worker, process>>
  BY DEF ManagerReads, ManagerLists, Client, registrationVars, processVars
<1>3. /\ client[c].pc = "response" => client[c].code \in {CREATE, REMOVE}
      /\ client[c].pc = "list" => client[c].code = LIST
      /\ client[c].code \in Codes /\ client[c].code \notin {PUBLISH, SUBSCRIBE}
      /\ LIST \notin {CREATE, REMOVE}
  BY <1>1, <1>2 DEF ClientRole, Codes, BoxCodes, PUBLISH, SUBSCRIBE, CREATE, REMOVE, LIST
<1>4. StreamTypes(c) /\ Met(c)
  BY <1>3 DEF Stream
<1>5. Stage(c)' = Stage(c)
  <2>1. \A d \in Clients : session'[d].served = session[d].served
    <3>1. ASSUME NEW text, Received(c, text)
          PROVE  \A d \in Clients : session'[d].served = session[d].served
      BY <1>1, <3>1, ReceivedFacts
    <3>2. \/ \E text : Received(c, text)
          \/ session' = session
      BY DEF ManagerReads, ManagerLists
    <3>. QED
      BY <3>1, <3>2
  <2>2. SameState
    BY <1>2, <2>1 DEF SameState
  <2>. QED
    BY <2>2, StagesStay
<1>6. client[c].pc \in WithPipe \ {"opening"} /\ client[c].code # PUBLISH
  BY <1>2, <1>3 DEF WithPipe, ClientPCs
<1>7. pipe[c].cells \in Seq(Octets) /\ session[c].written \in Seq(Texts)
  BY <1>4 DEF StreamTypes
<1>8. SameEnds(c) /\ pipe'[c].cells \in Seq(Octets)
  BY <1>1, <1>2, <1>7, ReadFacts DEF SameEnds
<1>9. ASSUME client'[c].pc \in {"list", "close"}
      PROVE  Met(c)'
  BY <1>4, <1>5, <1>6, <1>8, <1>9, StillMet DEF WithPipe, ClientPCs
<1>10. Taken(c) = << >> => Stage(c) = "after" \/ ~ Running
  BY <1>1, <1>2, <1>4, <1>6, <1>7, NothingToRead
<1>11. CASE ManagerReads(c)
  <2>1. client[c].pc = "response" /\ GoOn(c, "close")
    BY <1>11 DEF ManagerReads, Client
  <2>2. client'[c].pc = "close" /\ client'[c].code = client[c].code
    BY <1>1, <2>1, GoOnFacts
  <2>3. ManagerStream(c)
    BY <1>3, <2>1 DEF Stream
  <2>4. PICK texts : texts = session[c].written
    OBVIOUS
  <2>code. PICK code : code = ResponseCode(c)
    OBVIOUS
  <2>5. /\ texts \in Seq(Texts) /\ Len(texts) = (IF Stage(c) \in Responded THEN 1 ELSE 0)
        /\ session[c].received = << >> /\ ~ session[c].joined /\ left[c] = << >>
        /\ Carries(pipe[c].cells, code, texts)
    BY <1>7, <2>1, <2>3, <2>4, <2>code DEF ManagerStream, Through
  <2>6. code \in Octets /\ code \in {"4", "6"}
    BY <2>code, TestFacts DEF ResponseCode
  <2>7. /\ texts = << >> => Taken(c) = << >>
        /\ texts # << >> => Head(texts) \in Texts /\ Taken(c) = Message(code, Head(texts))
                            /\ Taken(c) # << >>
    BY <1>1, <1>2, <1>7, <2>5, <2>6, ReadsOne
  <2>8. CASE texts = << >>
    <3>1. session' = session
      BY <1>11, <2>7, <2>8 DEF ManagerReads
    <3>2. Stage(c) \notin Responded
      BY <2>5, <2>8
    <3>3. ~ Running
      BY <1>10, <2>7, <2>8, <3>2 DEF Responded
    <3>4. ManagerStream(c)'
      BY <1>2, <1>5, <2>2, <2>3, <3>1, <3>3 DEF ManagerStream, Through, Running
    <3>5. SameSession(c) /\ (Behind(c)' <=> Behind(c))
      BY <3>1, SameBehind DEF SameSession
    <3>6. StreamTypes(c)'
      BY <1>2, <1>4, <1>8, <3>1, <3>5 DEF StreamTypes
    <3>. QED
      BY <1>3, <1>9, <2>1, <2>2, <3>4, <3>6 DEF Stream
  <2>9. CASE texts # << >>
    <3>1. PICK text \in Texts : text = Head(texts)
      BY <2>7, <2>9
    <3>2. Taken(c) # << >> /\ Taken(c)[1] = code /\ TextOf(Taken(c)) = text
      BY <2>6, <2>7, <2>9, <3>1, MessageFacts, TextIsFound
    <3>3. Received(c, text)
      BY <1>11, <2>6, <3>2 DEF ManagerReads
    <3>4. /\ session'[c].received = Append(session[c].received, text)
          /\ session'[c].written = session[c].written
          /\ session'[c].joined = session[c].joined
      BY <1>1, <3>3, ReceivedFacts
    <3>5. Len(texts) = 1 /\ Stage(c) \in Responded
      <4>1. Len(texts) # 0
        BY <2>5, <2>9, EmptySeq
      <4>. QED
        BY <2>5, <4>1
    <3>6. Append(<< >>, text) = texts
      <4>1. PICK one : one = Append(<< >>, text)
        OBVIOUS
      <4>2. one \in Seq(Texts) /\ Len(one) = 1 /\ one[1] = text
        BY <4>1
      <4>3. texts[1] = text
        BY <3>1
      <4>4. \A i \in 1 .. Len(texts) : texts[i] = one[i]
        BY <3>5, <4>2, <4>3
      <4>5. one = texts
        BY <2>5, <3>5, <4>2, <4>4, SeqEqual
      <4>. QED
        BY <4>1, <4>5
    <3>7. session'[c].received = session'[c].written
      BY <2>4, <2>5, <3>4, <3>6
    <3>8. session'[c].received \in Seq(Texts) /\ Behind(c)'
      BY <1>7, <3>4, <3>7, AllReceived
    <3>9. StreamTypes(c)'
      BY <1>2, <1>4, <1>8, <3>4, <3>8 DEF StreamTypes
    <3>10. ManagerStream(c)'
      BY <1>2, <1>5, <2>2, <2>4, <2>5, <3>4, <3>5, <3>7 DEF ManagerStream, Through
    <3>. QED
      BY <1>3, <1>9, <2>1, <2>2, <3>9, <3>10 DEF Stream
  <2>. QED
    BY <2>8, <2>9
<1>12. CASE ManagerLists(c)
  <2>1. client[c].pc = "list"
    BY <1>12 DEF ManagerLists, Client
  <2>2. PICK label : label = IF Taken(c) = << >> THEN "close" ELSE "list"
    OBVIOUS
  <2>3. client'[c].pc = label /\ client'[c].code = client[c].code
    BY <1>1, <1>12, <2>2, GoOnFacts DEF ManagerLists
  <2>4. ListStream(c) /\ client[c].code = LIST
    BY <1>3, <2>1 DEF Stream
  <2>5. ~ session[c].joined /\ Flows(c, "8") /\ (Stage(c) \in Responded => left[c] = << >>)
    BY <2>1, <2>4 DEF ListStream, Through
  <2>6. session[c].received \in Seq(Texts)
    BY <1>4, <2>5 DEF StreamTypes
  <2>7. "8" \in Octets
    BY TestFacts
  <2>8. /\ Taken(c) = << >> =>
             session[c].written = session[c].received
        /\ Taken(c) # << >> => \E text \in Texts :
             Taken(c) = Message("8", text) /\ (Got(c, text) => Flows(c, "8")')
    BY <1>1, <1>2, <1>7, <2>5, <2>6, <2>7, GotFlows
  <2>9. CASE Taken(c) = << >>
    <3>1. ~ IsPrefix(<<"8">>, Taken(c))
      BY <2>7, <2>9, CodeIsFirst
    <3>2. session' = session
      BY <1>12, <3>1 DEF ManagerLists
    <3>3. ListStream(c)'
      BY <1>2, <1>5, <1>10, <2>2, <2>3, <2>5, <2>8, <2>9, <3>2
      DEF ListStream, Through, Responded, Running
    <3>4. SameSession(c) /\ (Behind(c)' <=> Behind(c))
      BY <3>2, SameBehind DEF SameSession
    <3>5. StreamTypes(c)'
      BY <1>2, <1>4, <1>8, <3>2, <3>4 DEF StreamTypes
    <3>. QED
      BY <1>3, <1>9, <2>2, <2>3, <2>4, <3>3, <3>5 DEF Stream
  <2>10. CASE Taken(c) # << >>
    <3>1. PICK text \in Texts : Taken(c) = Message("8", text) /\ (Got(c, text) => Flows(c, "8")')
      BY <2>8, <2>10
    <3>2. IsPrefix(<<"8">>, Taken(c)) /\ TextOf(Taken(c)) = text
      BY <2>7, <3>1, CodeIsFirst, TextIsFound
    <3>3. Received(c, text)
      BY <1>12, <3>2 DEF ManagerLists
    <3>4. /\ session'[c].received = Append(session[c].received, text)
          /\ session'[c].written = session[c].written
          /\ session'[c].joined = session[c].joined
      BY <1>1, <3>3, ReceivedFacts
    <3>5. Flows(c, "8")' /\ Behind(c)'
      <4>1. Got(c, text)
        BY <3>4 DEF Got
      <4>2. Flows(c, "8")'
        BY <3>1, <4>1
      <4>. QED
        BY <4>2 DEF Flows, Behind
    <3>6. session'[c].received \in Seq(Texts)
      BY <2>6, <3>4
    <3>7. StreamTypes(c)'
      BY <1>2, <1>4, <1>8, <3>4, <3>5, <3>6 DEF StreamTypes
    <3>8. ListStream(c)'
      BY <1>2, <1>5, <2>2, <2>3, <2>5, <2>10, <3>4, <3>5 DEF ListStream, Through
    <3>. QED
      BY <1>3, <1>9, <2>2, <2>3, <2>4, <3>7, <3>8 DEF Stream
  <2>. QED
    BY <2>9, <2>10
<1>. QED
  BY <1>11, <1>12

------------------------------------------------------------------------------
(* All clients *)

\* A SIGINT that c handles.
LEMMA NotedStream ==
    ASSUME NEW c \in Clients, Stream(c), Aside(c), Calm(c), left'[c] = left[c],
           client[c].code \in {PUBLISH, SUBSCRIBE},
           client'[c].end = 1, client'[c].data = client[c].data,
           \/ client'[c].pc = client[c].pc
           \/ client'[c].pc = "close" /\ client[c].pc = "fgets" /\ client[c].code = PUBLISH
           \/ client'[c].pc = "close" /\ client[c].pc = "test" /\ client[c].code = SUBSCRIBE
           \/ client'[c].pc = "print" /\ client[c].pc \in {"first", "read"}
              /\ client[c].code = SUBSCRIBE
    PROVE  Stream(c)'
PROOF
<1>1. /\ Untouched(c)' <=> Untouched(c)
      /\ \A test, code : AfterTest(c, test, code)' <=> AfterTest(c, test, code)
      /\ \A code : Flows(c, code)' <=> Flows(c, code)
      /\ Behind(c)' <=> Behind(c)
  BY SameFlow DEF Aside, Calm
<1>2. StreamTypes(c)'
  BY <1>1 DEF Stream, StreamTypes, Aside, SameSession, Calm
<1>3. /\ client[c].code \in Codes /\ client[c].code \notin {CREATE, REMOVE, LIST}
      /\ PUBLISH # SUBSCRIBE
  BY DEF Codes, BoxCodes, PUBLISH, SUBSCRIBE, CREATE, REMOVE, LIST
<1>4. Met(c)'
  <2>1. Met(c)
    BY <1>3 DEF Stream
  <2>2. CASE client'[c].pc = client[c].pc
    BY <2>1, <2>2 DEF Met, Aside, Calm
  <2>3. CASE client'[c].pc # client[c].pc
    BY <2>1, <2>3, StillMet DEF Aside, Calm, SameEnds, WithPipe, ClientPCs
  <2>. QED
    BY <2>2, <2>3
<1>5. client[c].code = PUBLISH => PublisherStream(c)'
  <2>. SUFFICES ASSUME client[c].code = PUBLISH PROVE PublisherStream(c)'
    OBVIOUS
  <2>1. client'[c].pc = client[c].pc \/ (client'[c].pc = "close" /\ client[c].pc = "fgets")
    BY <1>3
  <2>2. PublisherStream(c)
    BY DEF Stream
  <2>. QED
    BY <1>1, <2>1, <2>2 DEF PublisherStream, Aside, SameSession, Running, Tested
<1>6. client[c].code = SUBSCRIBE => SubscriberStream(c)'
  <2>. SUFFICES ASSUME client[c].code = SUBSCRIBE PROVE SubscriberStream(c)'
    OBVIOUS
  <2>1. \/ client'[c].pc = client[c].pc
        \/ client'[c].pc = "close" /\ client[c].pc = "test"
        \/ client'[c].pc = "print" /\ client[c].pc \in {"first", "read"}
    BY <1>3
  <2>2. SubscriberStream(c)
    BY DEF Stream
  <2>. QED
    BY <1>1, <2>1, <2>2 DEF SubscriberStream, Aside, SameSession
<1>. QED
  BY <1>2, <1>3, <1>4, <1>5, <1>6 DEF Stream, Aside

LEMMA EndsKeepStream ==
    ASSUME TypeInv, Sessions, Sessions', NEW c \in Clients, Stream(c),
           CloseClient(c) \/ ClientSigint(c)
    PROVE  Stream(c)'
PROOF
<1>1. Shape /\ Ends /\ ClientRole(c)
  BY DEF TypeInv, Typed, ClientPlaces
<1>2. client[c].pc # "done" /\ client[c].code \in Codes
  BY <1>1 DEF CloseClient, ClientSigint, Client, Shape
<1>3. UNCHANGED <<worker, process, left, session>>
  BY DEF CloseClient, ClientSigint, registrationVars, processVars
<1>4. Stage(c)' = Stage(c)
  <2>1. SameState
    BY <1>3 DEF SameState
  <2>. QED
    BY <2>1, StagesStay
<1>5. client'[c].code = client[c].code => Aside(c)
  BY <1>3, <1>4 DEF Aside, SameSession
<1>6. CASE CloseClient(c)
  <2>1. client[c].pc = "close" /\ GoOn(c, "done") /\ ClosesEnd(c)
    BY <1>6 DEF CloseClient, Client, ClosesEnd
  <2>2. /\ client'[c].pc = "done" /\ client'[c].code = client[c].code
        /\ client'[c].end = client[c].end
    BY <1>1, <2>1, GoOnFacts
  <2>. QED
    BY <1>1, <1>2, <1>3, <1>5, <2>1, <2>2, ClosesFacts, ClosesStream
<1>7. CASE Dies(c) /\ client[c].pc \notin {"done", "failed"}
  <2>1. GoOn(c, "failed") /\ ClosesEnd(c)
    BY <1>7 DEF Dies, ClosesEnd
  <2>2. client'[c].pc = "failed" /\ client'[c].code = client[c].code
    BY <1>1, <2>1, GoOnFacts
  <2>3. pipe'[c].made = pipe[c].made
    BY <1>1, <1>7, ClosingFacts DEF Dies, Ends, PipeEnds
  <2>. QED
    BY <1>1, <1>2, <1>3, <1>5, <1>7, <2>1, <2>2, <2>3, ClosesFacts, DiesStream
<1>8. ASSUME UNCHANGED pipe, client[c].code \in {PUBLISH, SUBSCRIBE}, NEW label, Notes(c, label, 1),
             \/ label = client[c].pc
             \/ label = "close" /\ client[c].pc = "fgets"
             \/ label = "close" /\ client[c].pc = "test" /\ client[c].code = SUBSCRIBE
             \/ label = "print" /\ client[c].pc \in {"first", "read"}
      PROVE  Stream(c)'
  <2>1. /\ client'[c].pc = label /\ client'[c].code = client[c].code
        /\ client'[c].end = 1 /\ client'[c].data = client[c].data
    BY <1>1, <1>8 DEF Notes, Shape, ClientFields
  <2>2. Calm(c)
    BY <1>8 DEF Calm
  <2>3. \/ label = client[c].pc
        \/ label = "close" /\ client[c].pc = "fgets" /\ client[c].code = PUBLISH
        \/ label = "close" /\ client[c].pc = "test" /\ client[c].code = SUBSCRIBE
        \/ label = "print" /\ client[c].pc \in {"first", "read"} /\ client[c].code = SUBSCRIBE
    BY <1>1, <1>8 DEF ClientRole
  <2>. QED
    BY <1>3, <1>5, <1>8, <2>1, <2>2, <2>3, NotedStream
<1>9. CASE ClientSigint(c)
  <2>1. \/ Dies(c) /\ client[c].pc \notin {"done", "failed"}
        \/ /\ UNCHANGED pipe /\ client[c].code \in {PUBLISH, SUBSCRIBE}
           /\ \/ Notes(c, client[c].pc, 1)
              \/ Notes(c, "close", 1) /\ client[c].pc = "fgets"
              \/ Notes(c, "close", 1) /\ client[c].pc = "test" /\ client[c].code = SUBSCRIBE
              \/ Notes(c, "print", 1) /\ client[c].pc \in {"first", "read"}
    BY <1>9 DEF ClientSigint, Notes
  <2>. QED
    BY <1>7, <1>8, <2>1
<1>. QED
  BY <1>6, <1>9

\* The others' streams are as before.
LEMMA ClientKeepsStreams ==
    ASSUME TypeInv, Sessions, Sessions', DOMAIN left = Clients, \A d \in Clients : Stream(d),
           NEW c \in Clients, ClientStep(c) \/ PublisherReadsLine(c) \/ ClientSigint(c)
    PROVE  \A d \in Clients : Stream(d)'
PROOF
<1>1. Stream(c)'
  BY OpensStream, PublisherKeepsStream, SubscriberKeepsStream, ManagerKeepsStream, EndsKeepStream
  DEF ClientStep
<1>2. Shape /\ Ends
  BY DEF TypeInv, Typed
<1>3. UNCHANGED <<worker, process>>
  BY DEF ClientStep, OpenRegister, SendRequest, OpenPipe, PipeOpened, PublisherStep,
         PublisherSleeps, PublisherTests, PublisherLoop, PublisherWrites, PublisherReadsLine,
         SubscriberStep, SubscriberTests, SubscriberReads, SubscriberPrints, ManagerReads,
         ManagerLists, CloseClient, ClientSigint, WriteRegister, registrationVars, processVars
<1>4. \A d \in Clients \ {c} : client'[d] = client[d]
  BY <1>2
  DEF Shape, ClientStep, OpenRegister, SendRequest, OpenPipe, PipeOpened, PublisherStep,
      PublisherSleeps, PublisherTests, PublisherLoop, PublisherWrites, PublisherReadsLine,
      SubscriberStep, SubscriberTests, SubscriberReads, SubscriberPrints, ManagerReads,
      ManagerLists, CloseClient, ClientSigint, GoOn, Dies
<1>5. \A d \in Clients \ {c} : pipe'[d] = pipe[d]
  <2>1. ASSUME NEW q, pipe' = [pipe EXCEPT ![c] = q] PROVE \A d \in Clients \ {c} : pipe'[d] = pipe[d]
    BY <1>2, <2>1 DEF Ends
  <2>2. \/ UNCHANGED pipe
        \/ \E q : pipe' = [pipe EXCEPT ![c] = q]
    BY DEF ClientStep, OpenRegister, SendRequest, OpenPipe, PipeOpened, PublisherStep,
           PublisherSleeps, PublisherTests, PublisherLoop, PublisherWrites, PublisherReadsLine,
           SubscriberStep, SubscriberTests, SubscriberReads, SubscriberPrints, ManagerReads,
           ManagerLists, CloseClient, ClientSigint, Dies, WritePipe, ReadPipe
  <2>. QED
    BY <2>1, <2>2
<1>6. \A d \in Clients \ {c} : left'[d] = left[d]
  BY DEF ClientStep, OpenRegister, SendRequest, OpenPipe, PipeOpened, PublisherStep,
         PublisherSleeps, PublisherTests, PublisherLoop, PublisherWrites, PublisherReadsLine,
         SubscriberStep, SubscriberTests, SubscriberReads, SubscriberPrints, ManagerReads,
         ManagerLists, CloseClient, ClientSigint
<1>7. \A d \in Clients \ {c} : session'[d] = session[d]
  <2>1. \/ UNCHANGED session
        \/ \E q : session' = [session EXCEPT ![c] = q]
    BY DEF ClientStep, OpenRegister, SendRequest, OpenPipe, PipeOpened, PublisherStep,
           PublisherSleeps, PublisherTests, PublisherLoop, PublisherWrites, PublisherReadsLine,
           SubscriberStep, SubscriberTests, SubscriberReads, SubscriberPrints, ManagerReads,
           ManagerLists, CloseClient, ClientSigint, Received, WasWritten
  <2>2. ASSUME NEW q, session' = [session EXCEPT ![c] = q]
        PROVE  \A d \in Clients \ {c} : session'[d] = session[d]
    BY <1>2, <2>2 DEF Shape
  <2>. QED
    BY <2>1, <2>2
<1>8. ASSUME NEW d \in Clients, d # c PROVE Stream(d)'
  <2>1. \A w \in Workers : Serves(w, d)' = Serves(w, d) /\ worker'[w].pc = worker[w].pc
    BY <1>3 DEF Serves, InSession, path
  <2>2. Stage(d)' = Stage(d)
    BY <1>7, <1>8, <2>1, StageStays
  <2>3. Kept(d)
    BY <1>3, <1>4, <1>5, <1>6, <1>7, <1>8, <2>2 DEF Kept, KeptCells, SameSession, Running
  <2>. QED
    BY <2>3, KeptStream
<1>. QED
  BY <1>1, <1>8

------------------------------------------------------------------------------
(* Steps of workers *)

\* The worker of c goes on without reading or writing.
MovesOn(c) ==
    \/ Stage(c) = "open" /\ Stage(c)' = "opening"
    \/ Stage(c) = "opening" /\ Stage(c)' = "decide"
    \/ Stage(c) = "decide" /\ Stage(c)' \in {"p_test", "s_test", "m_respond", "l_respond"}
    \/ Stage(c) = "decide" /\ Stage(c)' = "close" /\ client[c].code \in {PUBLISH, SUBSCRIBE}
    \/ Stage(c) = "s_read" /\ Stage(c)' = "s_replay"
    \/ Stage(c) = "s_replay" /\ Stage(c)' = "s_wait"
    \/ Stage(c) = "s_wait" /\ Stage(c)' = "s_push"
    \/ /\ Stage(c) = "l_respond" /\ Stage(c)' = "close"
       /\ client[c].code = LIST /\ left[c] = << >>

\* What the worker of c leaves alone.
ClientStays(c) == client'[c] = client[c] /\ process' = process

LEMMA MovesStream ==
    ASSUME NEW c \in Clients, Stream(c), MovesOn(c), ClientStays(c), SameSession(c),
           left'[c] = left[c], pipe'[c].cells = pipe[c].cells, Met(c)'
    PROVE  Stream(c)'
PROOF
<1>1. /\ Untouched(c)' <=> Untouched(c)
      /\ \A test, code : AfterTest(c, test, code)' <=> AfterTest(c, test, code)
      /\ \A code : Flows(c, code)' <=> Flows(c, code)
      /\ Behind(c)' <=> Behind(c)
      /\ Shows(c)' <=> Shows(c)
  BY SameFlow DEF ClientStays
<1>2. StreamTypes(c)'
  BY <1>1 DEF Stream, StreamTypes, SameSession
<1>3. client'[c].code = client[c].code /\ Running' = Running
  BY DEF ClientStays, Running
<1>4. PublisherStream(c) => PublisherStream(c)'
  BY <1>1, <1>3 DEF PublisherStream, MovesOn, ClientStays, SameSession, BeforeRead
<1>5. client[c].code = SUBSCRIBE /\ SubscriberStream(c) => SubscriberStream(c)'
  BY <1>1, <1>3 DEF SubscriberStream, MovesOn, ClientStays, SameSession, Sending, Pushing, SUBSCRIBE, LIST
<1>6. client[c].code \in {CREATE, REMOVE} /\ ManagerStream(c) => ManagerStream(c)'
  BY <1>3 DEF ManagerStream, MovesOn, ClientStays, SameSession, Responded, Carries, ResponseCode,
              PUBLISH, SUBSCRIBE, CREATE, REMOVE, LIST
<1>7. client[c].code = LIST /\ ListStream(c) => ListStream(c)'
  BY <1>1, <1>3 DEF ListStream, MovesOn, ClientStays, SameSession, Responded,
                    PUBLISH, SUBSCRIBE, LIST
<1>. QED
  BY <1>2, <1>3, <1>4, <1>5, <1>6, <1>7 DEF Stream

\* Those whose pipe is left alone.
LEMMA OthersKeepStream ==
    ASSUME NEW d \in Clients, Stream(d), client'[d] = client[d], left'[d] = left[d],
           session'[d] = session[d], pipe'[d] = pipe[d], process' = process,
           Stage(d)' = Stage(d)
    PROVE  Stream(d)'
PROOF
<1>1. Kept(d)
  BY DEF Kept, KeptCells, SameSession, Running
<1>. QED
  BY <1>1, KeptStream

\* The broker ends.
LEMMA CellsAtTheEnd ==
    ASSUME TypeInv, NEW c \in Clients, Stream(c), AllClosed, ~ Running'
    PROVE  /\ pipe'[c].made = pipe[c].made /\ pipe'[c].opened \subseteq pipe[c].opened
           /\ KeptCells(c)
PROOF
<1>1. DOMAIN pipe[c] = PipeFields /\ PipeEnds(c) /\ c \notin Workers /\ client[c].pc \in ClientPCs
  BY ClientAssumption DEF TypeInv, Typed, Ends, PipeEnds, ClientPlaces
<1>2. pipe'[c] = Closing(pipe[c], Workers)
  BY DEF AllClosed
<1>3. /\ pipe'[c].readers = pipe[c].readers \ Workers
      /\ pipe'[c].writers = pipe[c].writers \ Workers
      /\ pipe'[c].opened = pipe[c].opened \ Workers
      /\ pipe'[c].made = pipe[c].made
      /\ pipe'[c].readers = {} /\ pipe'[c].writers = {} => pipe'[c].cells = << >>
      /\ pipe'[c].readers # {} \/ pipe'[c].writers # {} => pipe'[c].cells = pipe[c].cells
  BY <1>1, <1>2 DEF Closing, PipeFields
<1>4. CASE client[c].pc \in WithPipe
  <2>1. c \in pipe[c].readers \/ c \in pipe[c].writers
    BY <1>1, <1>4 DEF PipeEnds
  <2>. QED
    BY <1>1, <1>3, <2>1 DEF KeptCells
<1>5. CASE client[c].pc \in {"start", "send", "open"}
  <2>1. client[c].code \in Codes
    BY <1>5 DEF TypeInv, Shape
  <2>2. pipe[c].cells = << >>
    BY <1>5, <2>1 DEF Stream, Met
  <2>. QED
    BY <1>3, <2>2 DEF KeptCells
<1>6. CASE client[c].pc \in {"done", "failed"}
  BY <1>3, <1>6 DEF KeptCells
<1>. QED
  BY <1>1, <1>4, <1>5, <1>6 DEF WithPipe

LEMMA EndKeepsStream ==
    ASSUME TypeInv, NEW c \in Clients, Stream(c), AllClosed, ~ Running',
           client'[c] = client[c], left'[c] = left[c], SameSession(c), Stage(c)' = Stage(c)
    PROVE  Stream(c)'
PROOF
<1>1. Kept(c)
  BY CellsAtTheEnd DEF Kept
<1>. QED
  BY <1>1, KeptStream

\* A client that nobody writes to or reads from any more.
Gone(c) == client[c].pc \in {"done", "failed"}

LEMMA GoneWithoutReader ==
    ASSUME TypeInv, NEW c \in Clients, Met(c), client[c].code \in Codes \ {PUBLISH},
           ~ Writable(c), Stage(c) \notin {"before", "open", "opening"}
    PROVE  Gone(c)
PROOF
<1>1. PipeEnds(c) /\ client[c].pc \in ClientPCs
  BY DEF TypeInv, Typed, Ends, ClientPlaces
<1>2. client[c].pc \notin WithPipe
  BY <1>1 DEF PipeEnds, Writable
<1>. QED
  BY <1>1, <1>2 DEF Met, WithPipe, Gone

LEMMA GoneWithoutWriter ==
    ASSUME TypeInv, NEW c \in Clients, Met(c), client[c].code = PUBLISH,
           pipe[c].writers = {}, Stage(c) \notin {"before", "open", "opening"}
    PROVE  Gone(c)
PROOF
<1>1. PipeEnds(c) /\ client[c].pc \in ClientPCs
  BY DEF TypeInv, Typed, Ends, ClientPlaces
<1>2. client[c].pc \notin WithPipe
  BY <1>1 DEF PipeEnds
<1>. QED
  BY <1>1, <1>2 DEF Met, WithPipe, Gone

\* A step of the worker of c, as far as it concerns the others.
OnlyFor(c) ==
    /\ UNCHANGED <<client, process>>
    /\ \A d \in Clients \ {c} : /\ pipe'[d] = pipe[d] /\ left'[d] = left[d]
                                /\ session'[d] = session[d]

WorkerLabels == SessionPCs \ {"dequeue", "code", "path", "name"}

LEMMA GoesOnKeepsOthers ==
    ASSUME TypeInv, Sessions, Sessions', \A d \in Clients : Stream(d),
           NEW w \in Workers, InSession(w), NEW c \in Clients, path(w) = c, OnlyFor(c),
           NEW label \in WorkerLabels, WorkerGoesOn(w, label)
    PROVE  /\ Stage(c) = worker[w].pc /\ Stage(c)' = label
           /\ \A d \in Clients \ {c} : Stream(d)'
PROOF
<1>1. Shape /\ \A d \in Clients \ {c} : session'[d].served = session[d].served
  BY DEF TypeInv, OnlyFor
<1>2. /\ Stage(c) = worker[w].pc /\ Stage(c)' = label
      /\ \A d \in Clients \ {c} : Stage(d)' = Stage(d)
  BY <1>1, StageGoesOn DEF WorkerLabels
<1>3. ASSUME NEW d \in Clients, d # c PROVE Stream(d)'
  BY <1>2, <1>3, OthersKeepStream DEF OnlyFor
<1>. QED
  BY <1>2, <1>3

\* w serves c and c is as it should be.
LEMMA Served ==
    ASSUME TypeInv, Sessions, NEW w \in Workers, InSession(w), NEW c \in Clients, path(w) = c, Stream(c)
    PROVE  /\ Stage(c) = worker[w].pc /\ WorkerRole(w)
           /\ worker[w].code = client[c].code /\ client[c].code \in Codes
           /\ StreamTypes(c) /\ Met(c)
PROOF
<1>1. Serves(w, c) /\ worker[w].code = client[c].code /\ client[c].code \in Codes
  BY DEF Serves, Sessions
<1>2. Stage(c) = worker[w].pc
  BY <1>1, StageOf DEF StageKnown
<1>. QED
  BY <1>1, <1>2 DEF Stream, TypeInv, Typed, WorkerPlaces

\* The broker fails because of c.
Blamed(c) ==
    \/ Client(c, "failed")
    \/ Client(c, "done") /\ client[c].code = SUBSCRIBE /\ client[c].end = 1

EndsForAReason == process' \in {"failed", "killed"} => \E c \in Clients : Blamed(c)

LEMMA StagesStayAtTheEnd ==
    ASSUME Sessions, Sessions', UNCHANGED worker,
           \A d \in Clients : session'[d].served = session[d].served
    PROVE  \A d \in Clients : Stage(d)' = Stage(d)
PROOF
<1>. SUFFICES ASSUME NEW d \in Clients PROVE Stage(d)' = Stage(d)
  OBVIOUS
<1>1. \A w \in Workers : Serves(w, d)' = Serves(w, d) /\ worker'[w].pc = worker[w].pc
  BY DEF Serves, InSession, path
<1>. QED
  BY <1>1, StageStays

LEMMA EndKeepsStreams ==
    ASSUME TypeInv, Sessions, Sessions', \A d \in Clients : Stream(d), AllClosed, ~ Running',
           UNCHANGED <<client, worker, left, session>>
    PROVE  \A d \in Clients : Stream(d)'
PROOF
<1>1. \A d \in Clients : session'[d].served = session[d].served
  OBVIOUS
<1>2. \A d \in Clients : Stage(d)' = Stage(d)
  BY <1>1, StagesStayAtTheEnd
<1>3. ASSUME NEW d \in Clients PROVE Stream(d)'
  BY <1>2, EndKeepsStream DEF SameSession
<1>. QED
  BY <1>3

LEMMA WorkerOpensStreams ==
    ASSUME TypeInv, Sessions, Sessions', \A d \in Clients : Stream(d),
           NEW w \in Workers, WorkerOpens(w)
    PROVE  (\A d \in Clients : Stream(d)') /\ EndsForAReason
PROOF
<1>1. /\ Running /\ worker[w].pc = "open" /\ UNCHANGED <<client, left, session>>
  BY DEF WorkerOpens, At, Running, UnchangedByWorkers
<1>2. InSession(w)
  BY <1>1 DEF InSession
<1>3. PICK c \in Clients : c = path(w)
  BY <1>2 DEF Sessions
<1>4. /\ Stage(c) = "open" /\ worker[w].code = client[c].code /\ client[c].code \in Codes
      /\ StreamTypes(c) /\ Met(c)
  BY <1>1, <1>2, <1>3, Served
<1>5. PipeEnds(c) /\ DOMAIN pipe[c] = PipeFields /\ DOMAIN pipe = Clients
      /\ client[c].pc \in ClientPCs /\ c \notin Workers
  BY ClientAssumption DEF TypeInv, Typed, Ends, PipeEnds, ClientPlaces
<1>6. CASE pipe[c].made
  <2>1. PICK s \in {"readers", "writers"} : s = IF worker[w].code = PUBLISH THEN "readers" ELSE "writers"
    OBVIOUS
  <2>2. PICK q : q = Opening(pipe[c], w, s)
    OBVIOUS
  <2>3. pipe' = [pipe EXCEPT ![c] = q] /\ WorkerGoesOn(w, "opening") /\ process' = process
    BY <1>3, <1>6, <2>1, <2>2 DEF WorkerOpens
  <2>4. pipe'[c] = q /\ \A d \in Clients \ {c} : pipe'[d] = pipe[d]
    BY <1>5, <2>3
  <2>5. OnlyFor(c)
    BY <1>1, <2>3, <2>4 DEF OnlyFor
  <2>6. Stage(c)' = "opening" /\ \A d \in Clients \ {c} : Stream(d)'
    <3>1. "opening" \in WorkerLabels
      BY DEF WorkerLabels, SessionPCs
    <3>. QED
      BY <1>2, <1>3, <2>3, <2>5, <3>1, GoesOnKeepsOthers
  <2>7. /\ q.cells = pipe[c].cells /\ q.made = pipe[c].made
        /\ s = "readers" => q.readers = pipe[c].readers \cup {w} /\ q.writers = pipe[c].writers
        /\ s = "writers" => q.readers = pipe[c].readers /\ q.writers = pipe[c].writers \cup {w}
        /\ q.readers = {} \/ q.writers = {} => q.opened = pipe[c].opened
    BY <1>5, <2>2, OpeningFacts
  <2>8. \A v \in Workers : ~ HasOpen(v, c)
    <3>. SUFFICES ASSUME NEW v \in Workers, HasOpen(v, c) PROVE FALSE
      OBVIOUS
    <3>1. InSession(v) /\ path(v) = path(w) /\ worker[v].pc # "open"
      BY <1>3 DEF HasOpen, Serves
    <3>2. v = w
      BY <1>2, <3>1 DEF Sessions
    <3>. QED
      BY <1>1, <3>1, <3>2
  <2>9. q.opened # {} => client[c].pc \notin {"start", "send", "open"}
    <3>1. CASE q.opened = pipe[c].opened
      BY <1>4, <3>1 DEF Met
    <3>2. CASE q.readers # {} /\ q.writers # {}
      <4>1. client[c].pc \in WithPipe
        BY <1>4, <1>5, <2>1, <2>7, <2>8, <3>2 DEF PipeEnds
      <4>. QED
        BY <4>1 DEF WithPipe
    <3>. QED
      BY <2>7, <3>1, <3>2
  <2>10. Met(c)'
    BY <1>1, <1>4, <2>4, <2>6, <2>7, <2>9 DEF Met
  <2>11. MovesOn(c) /\ ClientStays(c) /\ SameSession(c)
    BY <1>1, <1>4, <2>3, <2>6 DEF MovesOn, ClientStays, SameSession
  <2>12. Stream(c)'
    BY <1>1, <2>4, <2>7, <2>10, <2>11, MovesStream
  <2>. QED
    BY <1>1, <2>3, <2>6, <2>12 DEF EndsForAReason, Running
<1>7. CASE ~ pipe[c].made
  <2>1. AllClosed /\ process' = "failed" /\ UNCHANGED worker
    BY <1>3, <1>7 DEF WorkerOpens, BrokerEnds, AllClosed
  <2>4. \A d \in Clients : Stream(d)'
    BY <1>1, <2>1, EndKeepsStreams DEF Running
  <2>5. client[c].pc \notin Early
    BY <1>2, <1>3 DEF Sessions
  <2>6. client[c].pc = "failed"
    BY <1>4, <1>5, <1>7, <2>5 DEF Met, WithPipe, Early
  <2>. QED
    BY <2>4, <2>6 DEF EndsForAReason, Blamed, Client
<1>. QED
  BY <1>6, <1>7

LEMMA PipeOpenedStreams ==
    ASSUME TypeInv, Sessions, Sessions', \A d \in Clients : Stream(d),
           NEW w \in Workers, PipeOpenedToWorker(w)
    PROVE  (\A d \in Clients : Stream(d)') /\ EndsForAReason
PROOF
<1>1. /\ Running /\ worker[w].pc = "opening" /\ WorkerGoesOn(w, "decide")
      /\ UNCHANGED <<client, process, pipe, left>>
  BY DEF PipeOpenedToWorker, At, Running, UnchangedByWorkers, processVars
<1>2. InSession(w)
  BY <1>1 DEF InSession
<1>3. PICK c \in Clients : c = path(w)
  BY <1>2 DEF Sessions
<1>4. Stage(c) = "opening" /\ StreamTypes(c) /\ Met(c)
  BY <1>1, <1>2, <1>3, Served
<1>5. session' = [session EXCEPT ![c].served = @ + 1] /\ w \in pipe[c].opened
  BY <1>3 DEF PipeOpenedToWorker
<1>6. SameSession(c) /\ \A d \in Clients \ {c} : session'[d] = session[d]
  BY <1>5 DEF SameSession, TypeInv, Shape, SessionFields
<1>7. OnlyFor(c)
  BY <1>1, <1>6 DEF OnlyFor
<1>8. Stage(c)' = "decide" /\ \A d \in Clients \ {c} : Stream(d)'
  <2>1. "decide" \in WorkerLabels
    BY DEF WorkerLabels, SessionPCs
  <2>. QED
    BY <1>1, <1>2, <1>3, <1>7, <2>1, GoesOnKeepsOthers
<1>9. Met(c)'
  BY <1>1, <1>4, <1>5, <1>8 DEF Met
<1>10. MovesOn(c) /\ ClientStays(c)
  BY <1>1, <1>4, <1>8 DEF MovesOn, ClientStays
<1>11. Stream(c)'
  BY <1>1, <1>6, <1>9, <1>10, MovesStream
<1>. QED
  BY <1>1, <1>8, <1>11 DEF EndsForAReason, Running

\* A worker that has the client's pipe open goes on without reading or writing.
LEMMA MovesKeepStreams ==
    ASSUME TypeInv, Sessions, Sessions', \A d \in Clients : Stream(d),
           NEW w \in Workers, InSession(w), worker[w].pc \notin {"open", "opening"},
           NEW c \in Clients, path(w) = c,
           NEW label \in WorkerLabels \ {"open", "opening"}, WorkerGoesOn(w, label),
           \/ worker[w].pc = "decide" /\ label \in {"p_test", "s_test", "m_respond", "l_respond"}
           \/ worker[w].pc = "decide" /\ label = "close" /\ worker[w].code \in {PUBLISH, SUBSCRIBE}
           \/ worker[w].pc = "s_read" /\ label = "s_replay"
           \/ worker[w].pc = "s_replay" /\ label = "s_wait"
           \/ worker[w].pc = "s_wait" /\ label = "s_push"
           \/ worker[w].pc = "l_respond" /\ label = "close" /\ left[c] = << >>,
           UNCHANGED <<client, process, pipe, left>>, SameSession(c),
           \A d \in Clients \ {c} : session'[d] = session[d]
    PROVE  \A d \in Clients : Stream(d)'
PROOF
<1>1. OnlyFor(c)
  BY DEF OnlyFor
<1>2. /\ Stage(c) = worker[w].pc /\ Stage(c)' = label
      /\ \A d \in Clients \ {c} : Stream(d)'
  BY <1>1, GoesOnKeepsOthers
<1>3. WorkerRole(w) /\ worker[w].code = client[c].code /\ Met(c)
  BY Served
<1>4. Met(c)'
  BY <1>2, <1>3 DEF Met, WorkerLabels, SessionPCs
<1>5. MovesOn(c) /\ ClientStays(c)
  BY <1>2, <1>3 DEF MovesOn, ClientStays, WorkerRole
<1>6. Stream(c)'
  BY <1>4, <1>5, MovesStream
<1>. QED
  BY <1>2, <1>6

LEMMA WorkerDecidesStreams ==
    ASSUME TypeInv, Sessions, Sessions', \A d \in Clients : Stream(d),
           NEW w \in Workers, WorkerDecides(w)
    PROVE  (\A d \in Clients : Stream(d)') /\ EndsForAReason
PROOF
<1>1. /\ Running /\ worker[w].pc = "decide" /\ UNCHANGED <<client, left>>
  BY DEF WorkerDecides, At, Running, UnchangedByWorkers
<1>2. InSession(w)
  BY <1>1 DEF InSession
<1>3. PICK c \in Clients : c = path(w)
  BY <1>2 DEF Sessions
<1>4. worker[w].code \in Codes
  BY <1>2, <1>3, Served
<1>5. CASE BrokerEnds("memory fault") /\ UNCHANGED <<worker, session>>
  <2>1. AllClosed /\ process' = "memory fault"
    BY <1>5 DEF BrokerEnds, AllClosed
  <2>. QED
    BY <1>1, <1>5, <2>1, EndKeepsStreams DEF EndsForAReason, Running
<1>6. ASSUME NEW label, WorkerGoesOn(w, label), UNCHANGED <<process, pipe>>,
             NEW x, session' = [session EXCEPT ![c].granted = x],
             \/ label \in {"p_test", "s_test", "m_respond", "l_respond"}
             \/ label = "close" /\ worker[w].code \in {PUBLISH, SUBSCRIBE}
      PROVE  (\A d \in Clients : Stream(d)') /\ EndsForAReason
  <2>1. SameSession(c) /\ \A d \in Clients \ {c} : session'[d] = session[d]
    BY <1>6 DEF SameSession, TypeInv, Shape, SessionFields
  <2>2. label \in WorkerLabels \ {"open", "opening"}
    BY <1>6 DEF WorkerLabels, SessionPCs
  <2>3. \A d \in Clients : Stream(d)'
    BY <1>1, <1>2, <1>3, <1>6, <2>1, <2>2, MovesKeepStreams
  <2>. QED
    BY <1>1, <1>6, <2>3 DEF EndsForAReason, Running
<1>7. Granted(worker[w].code) \in {"p_test", "s_test", "m_respond", "l_respond"}
  BY <1>4 DEF Granted, Codes, BoxCodes, PUBLISH, SUBSCRIBE, CREATE, REMOVE, LIST
<1>8. CASE /\ WorkerGoesOn(w, Granted(worker[w].code)) /\ UNCHANGED <<process, pipe>>
           /\ session' = [session EXCEPT ![c].granted = "yes"]
  BY <1>6, <1>7, <1>8
<1>9. CASE /\ worker[w].code # LIST /\ UNCHANGED <<process, pipe>>
           /\ WorkerGoesOn(w, IF worker[w].code \in {CREATE, REMOVE} THEN "m_respond" ELSE "close")
           /\ session' = [session EXCEPT ![c].granted = "no"]
  <2>1. PICK label : label = IF worker[w].code \in {CREATE, REMOVE} THEN "m_respond" ELSE "close"
    OBVIOUS
  <2>2. \/ label \in {"p_test", "s_test", "m_respond", "l_respond"}
        \/ label = "close" /\ worker[w].code \in {PUBLISH, SUBSCRIBE}
    BY <1>4, <1>9, <2>1 DEF Codes, BoxCodes
  <2>. QED
    BY <1>6, <1>9, <2>1, <2>2
<1>. QED
  BY <1>3, <1>5, <1>8, <1>9 DEF WorkerDecides

LEMMA WorkerReplayedStreams ==
    ASSUME TypeInv, Sessions, Sessions', \A d \in Clients : Stream(d),
           NEW w \in Workers, WorkerReplayed(w)
    PROVE  (\A d \in Clients : Stream(d)') /\ EndsForAReason
PROOF
<1>1. /\ Running /\ worker[w].pc = "s_replay" /\ WorkerGoesOn(w, "s_wait")
      /\ UNCHANGED <<client, process, pipe, left, session>>
  BY DEF WorkerReplayed, At, Running, UnchangedByWorkers, processVars
<1>2. InSession(w)
  BY <1>1 DEF InSession
<1>3. PICK c \in Clients : c = path(w)
  BY <1>2 DEF Sessions
<1>4. "s_wait" \in WorkerLabels \ {"open", "opening"} /\ SameSession(c)
  BY <1>1 DEF WorkerLabels, SessionPCs, SameSession
<1>5. \A d \in Clients : Stream(d)'
  BY <1>1, <1>2, <1>3, <1>4, MovesKeepStreams
<1>. QED
  BY <1>1, <1>5 DEF EndsForAReason, Running

\* tfs_read, which is a memory fault after tfs_destroy.
LEMMA WorkerReadsStreams ==
    ASSUME TypeInv, Sessions, Sessions', \A d \in Clients : Stream(d),
           NEW w \in Workers, WorkerReadsBox(w) \/ WorkerWaits(w)
    PROVE  (\A d \in Clients : Stream(d)') /\ EndsForAReason
PROOF
<1>1. PICK label \in {"s_replay", "s_push"} :
        /\ Running /\ WorkerReads(w, label)
        /\ \/ worker[w].pc = "s_read" /\ label = "s_replay"
           \/ worker[w].pc = "s_wait" /\ label = "s_push"
  BY DEF WorkerReadsBox, WorkerWaits, At, Running
<1>2. InSession(w)
  BY <1>1 DEF InSession
<1>3. PICK c \in Clients : c = path(w)
  BY <1>2 DEF Sessions
<1>4. UNCHANGED <<client, left, session>>
  BY <1>1 DEF WorkerReads, UnchangedByWorkers
<1>5. CASE WorkerGoesOn(w, label) /\ UNCHANGED <<process, pipe>>
  <2>1. label \in WorkerLabels \ {"open", "opening"} /\ SameSession(c)
    BY <1>4 DEF WorkerLabels, SessionPCs, SameSession
  <2>2. \A d \in Clients : Stream(d)'
    BY <1>1, <1>2, <1>3, <1>4, <1>5, <2>1, MovesKeepStreams
  <2>. QED
    BY <1>1, <1>5, <2>2 DEF EndsForAReason, Running
<1>6. CASE BrokerEnds("memory fault") /\ UNCHANGED worker
  <2>1. AllClosed /\ process' = "memory fault"
    BY <1>6 DEF BrokerEnds, AllClosed
  <2>. QED
    BY <1>4, <1>6, <2>1, EndKeepsStreams DEF EndsForAReason, Running
<1>. QED
  BY <1>1, <1>5, <1>6 DEF WorkerReads

NothingSent(c) ==
    pipe[c].cells = << >> /\ session[c].written = << >> /\ session[c].received = << >>

LEMMA NothingFlows ==
    ASSUME NEW c \in Clients, NEW code, NothingSent(c)'
    PROVE  Flows(c, code)' /\ Behind(c)'
PROOF
<1>none. PICK none : none = << >>
  OBVIOUS
<1>1. none \in Seq(Texts) /\ none \in Seq(Octets) /\ none = none \o none
  BY <1>none, ConcatEmptySeq
<1>2. pipe'[c].cells = none /\ session'[c].written = none /\ session'[c].received = none
  BY <1>none DEF NothingSent
<1>3. Carries(none, code, none)
  BY <1>none, <1>1, CarriesNone
<1>4. Ahead(c, none)'
  BY <1>1, <1>2 DEF Ahead
<1>. QED
  BY <1>1, <1>2, <1>3, <1>4 DEF Flows, Behind

LEMMA WorkerReadsTestStreams ==
    ASSUME TypeInv, Sessions, Sessions', \A d \in Clients : Stream(d),
           NEW w \in Workers, WorkerReadsTest(w)
    PROVE  (\A d \in Clients : Stream(d)') /\ EndsForAReason
PROOF
<1>1. /\ Running /\ worker[w].pc = "p_test" /\ WorkerGoesOn(w, "p_next")
      /\ UNCHANGED <<client, process, left>>
  BY DEF WorkerReadsTest, At, Running, UnchangedByWorkers, processVars
<1>2. InSession(w) /\ Shape /\ Ends
  BY <1>1 DEF InSession, TypeInv, Typed
<1>3. PICK c \in Clients : c = path(w)
  BY <1>2 DEF Sessions
<1>4. /\ Stage(c) = "p_test" /\ StreamTypes(c) /\ Met(c)
      /\ WorkerRole(w) /\ worker[w].code = client[c].code
  BY <1>1, <1>2, <1>3, Served
<1>5. client[c].code = PUBLISH /\ PublisherStream(c)
  BY <1>1, <1>4 DEF WorkerRole, Stream
<1>6. ReadPipe(c)
  BY <1>3 DEF WorkerReadsTest
<1>joined. PICK x : x = (Len(Taken(c)) > Len(PublisherTest))
  OBVIOUS
<1>7. x \in BOOLEAN /\ x = (Len(Taken(c)) > Len(PublisherTest))
  BY <1>joined
<1>8. session' = [session EXCEPT ![c].joined = x]
  BY <1>3, <1>joined DEF WorkerReadsTest
<1>9. /\ session'[c].joined = x
      /\ session'[c].written = session[c].written
      /\ session'[c].received = session[c].received
      /\ \A d \in Clients \ {c} : session'[d] = session[d]
  BY <1>2, <1>8, JoinedFacts
<1>10. pipe[c].cells \in Seq(Octets) /\ left[c] \in Seq(Texts) /\ session[c].written \in Seq(Texts)
  BY <1>4 DEF StreamTypes
<1>11. /\ \A d \in Clients \ {c} : pipe'[d] = pipe[d]
       /\ pipe'[c].made = pipe[c].made /\ pipe'[c].opened = pipe[c].opened
       /\ pipe'[c].cells \in Seq(Octets)
       /\ pipe'[c].cells = SubSeq(pipe[c].cells, Len(Taken(c)) + 1, Len(pipe[c].cells))
       /\ Taken(c) = << >> => pipe[c].cells = << >> /\ pipe[c].writers = {}
  BY <1>2, <1>6, <1>10, ReadFacts
<1>12. OnlyFor(c)
  BY <1>1, <1>9, <1>11 DEF OnlyFor
<1>13. Stage(c)' = "p_next" /\ \A d \in Clients \ {c} : Stream(d)'
  <2>1. "p_next" \in WorkerLabels
    BY DEF WorkerLabels, SessionPCs
  <2>. QED
    BY <1>1, <1>2, <1>3, <1>12, <2>1, GoesOnKeepsOthers
<1>14. Met(c)'
  BY <1>1, <1>4, <1>11, <1>13 DEF Met
<1>15. ASSUME ~ x PROVE NothingSent(c)' /\ client[c].pc \in Tested
  <2>1. /\ session[c].received = << >>
        /\ \/ Untouched(c) /\ client[c].pc \notin Tested \ {"failed"}
           \/ AfterTest(c, PublisherTest, "9") /\ client[c].pc \in Tested
    BY <1>1, <1>4, <1>5 DEF PublisherStream, BeforeRead
  <2>2. CASE Untouched(c) /\ client[c].pc \notin Tested \ {"failed"}
    <3>1. pipe[c].cells = << >> /\ session[c].written = << >>
      BY <2>2 DEF Untouched
    <3>2. pipe[c].writers = {}
      BY <1>6, <3>1 DEF ReadPipe, CanRead
    <3>3. client[c].pc \in {"done", "failed"}
      BY <1>4, <1>5, <3>2, GoneWithoutWriter DEF Gone
    <3>none. PICK none : none = << >>
      OBVIOUS
    <3>4. none \in Seq(Texts) /\ Carries(pipe[c].cells, "9", none) /\ "9" \in Octets
      BY <1>10, <3>1, <3>none, CarriesNone, TestFacts
    <3>5. pipe'[c].cells = << >>
      BY <1>2, <1>6, <1>10, <3>4, <3>none, ReadsOne
    <3>. QED
      BY <1>9, <2>1, <2>2, <3>1, <3>3, <3>5 DEF NothingSent, Tested
  <2>3. CASE AfterTest(c, PublisherTest, "9") /\ client[c].pc \in Tested
    <3>1. pipe'[c].cells = << >> /\ session[c].written = << >>
      BY <1>2, <1>6, <1>7, <1>10, <1>15, <2>3, ReadsTest, TestFacts
    <3>. QED
      BY <1>9, <2>1, <2>3, <3>1 DEF NothingSent
  <2>. QED
    BY <2>1, <2>2, <2>3
<1>16. ASSUME ~ x PROVE Flows(c, "9")' /\ Behind(c)' /\ session'[c].received \in Seq(Texts)
  <2>1. Flows(c, "9")' /\ Behind(c)'
    BY <1>15, <1>16, NothingFlows
  <2>none. PICK none : none = << >>
    OBVIOUS
  <2>2. none \in Seq(Texts)
    BY <2>none
  <2>. QED
    BY <1>15, <1>16, <2>1, <2>2, <2>none DEF NothingSent
<1>17. StreamTypes(c)'
  BY <1>1, <1>7, <1>9, <1>10, <1>11, <1>16 DEF StreamTypes
<1>18. PublisherStream(c)'
  BY <1>1, <1>5, <1>9, <1>13, <1>15, <1>16 DEF PublisherStream, BeforeRead
<1>19. Stream(c)'
  BY <1>1, <1>5, <1>14, <1>17, <1>18
  DEF Stream, PUBLISH, SUBSCRIBE, CREATE, REMOVE, LIST, Codes, BoxCodes
<1>. QED
  BY <1>1, <1>13, <1>19 DEF EndsForAReason, Running

LEMMA WorkerStoresStreams ==
    ASSUME TypeInv, Sessions, Sessions', \A d \in Clients : Stream(d),
           NEW w \in Workers, WorkerStores(w)
    PROVE  (\A d \in Clients : Stream(d)') /\ EndsForAReason
PROOF
<1>1. /\ Running /\ worker[w].pc = "p_next" /\ UNCHANGED <<client, left>>
  BY DEF WorkerStores, At, Running, UnchangedByWorkers
<1>2. InSession(w) /\ Shape /\ Ends
  BY <1>1 DEF InSession, TypeInv, Typed
<1>3. PICK c \in Clients : c = path(w)
  BY <1>2 DEF Sessions
<1>4. /\ Stage(c) = "p_next" /\ StreamTypes(c) /\ Met(c)
      /\ WorkerRole(w) /\ worker[w].code = client[c].code
  BY <1>1, <1>2, <1>3, Served
<1>5. client[c].code = PUBLISH /\ PublisherStream(c)
  BY <1>1, <1>4 DEF WorkerRole, Stream
<1>6. pipe[c].cells \in Seq(Octets) /\ left[c] \in Seq(Texts) /\ session[c].written \in Seq(Texts)
  BY <1>4 DEF StreamTypes
<1>7. ASSUME ReadPipe(c)
      PROVE  /\ \A d \in Clients \ {c} : pipe'[d] = pipe[d]
             /\ pipe'[c].made = pipe[c].made /\ pipe'[c].opened = pipe[c].opened
             /\ pipe'[c].cells \in Seq(Octets)
  BY <1>2, <1>6, <1>7, ReadFacts
<1>8. ASSUME ReadPipe(c), Stage(c)' \in {"p_next", "close"}, StreamTypes(c)', PublisherStream(c)'
      PROVE  Stream(c)'
  <2>1. Met(c)'
    BY <1>1, <1>4, <1>7, <1>8 DEF Met
  <2>. QED
    BY <1>1, <1>5, <1>8, <2>1
    DEF Stream, PUBLISH, SUBSCRIBE, CREATE, REMOVE, LIST, Codes, BoxCodes
<1>9. CASE /\ Taken(c) # << >> /\ ReadPipe(c) /\ Received(c, TextOf(Taken(c)))
           /\ UNCHANGED <<worker, process>>
  <2>1. PICK text : text = TextOf(Taken(c))
    OBVIOUS
  <2>2. /\ session'[c].received = Append(session[c].received, text)
        /\ session'[c].written = session[c].written
        /\ session'[c].joined = session[c].joined
        /\ \A d \in Clients \ {c} : session'[d] = session[d]
        /\ \A d \in Clients : session'[d].served = session[d].served
    BY <1>2, <1>9, <2>1, ReceivedFacts
  <2>3. Got(c, text)
    BY <2>2 DEF Got
  <2>4. \A d \in Clients : Stage(d)' = Stage(d)
    BY <1>9, <2>2, StagesStayAtTheEnd
  <2>5. \A d \in Clients \ {c} : Stream(d)'
    BY <1>1, <1>7, <1>9, <2>2, <2>4, OthersKeepStream
  <2>6. ASSUME ~ session[c].joined
        PROVE  /\ session'[c].received \in Seq(Texts) /\ client[c].pc \in Tested
               /\ Flows(c, "9")' /\ Behind(c)'
    <3>1. session[c].received \in Seq(Texts)
      BY <1>4, <2>6 DEF StreamTypes
    <3>2. Flows(c, "9") /\ client[c].pc \in Tested /\ "9" \in Octets
      BY <1>1, <1>4, <1>5, <2>6, TestFacts DEF PublisherStream
    <3>3. PICK some \in Texts : /\ Taken(c) = Message("9", some)
                                /\ Got(c, some) => Flows(c, "9")'
      BY <1>2, <1>6, <1>9, <3>1, <3>2, GotFlows
    <3>4. some = text
      BY <2>1, <3>2, <3>3, TextIsFound
    <3>5. Flows(c, "9")' /\ session'[c].received \in Seq(Texts)
      BY <2>2, <2>3, <3>1, <3>3, <3>4
    <3>. QED
      BY <3>2, <3>5 DEF Flows, Behind
  <2>7. StreamTypes(c)'
    BY <1>1, <1>4, <1>6, <1>7, <1>9, <2>2, <2>6 DEF StreamTypes
  <2>8. PublisherStream(c)'
    BY <1>1, <1>4, <1>5, <2>2, <2>4, <2>6 DEF PublisherStream, BeforeRead
  <2>9. Stream(c)'
    BY <1>4, <1>8, <1>9, <2>4, <2>7, <2>8
  <2>. QED
    BY <1>1, <1>9, <2>5, <2>9 DEF EndsForAReason, Running
<1>10. CASE ReadPipe(c) /\ WorkerGoesOn(w, "close") /\ UNCHANGED <<process, session>>
  <2>1. OnlyFor(c)
    BY <1>1, <1>7, <1>10 DEF OnlyFor
  <2>2. Stage(c)' = "close" /\ \A d \in Clients \ {c} : Stream(d)'
    <3>1. "close" \in WorkerLabels
      BY DEF WorkerLabels, SessionPCs
    <3>. QED
      BY <1>2, <1>3, <1>10, <2>1, <3>1, GoesOnKeepsOthers
  <2>3. Behind(c)' <=> Behind(c)
    BY <1>10, SameBehind DEF SameSession
  <2>4. StreamTypes(c)'
    BY <1>1, <1>4, <1>6, <1>7, <1>10, <2>3 DEF StreamTypes
  <2>5. PublisherStream(c)'
    BY <1>1, <1>5, <2>2 DEF PublisherStream, BeforeRead
  <2>6. Stream(c)'
    BY <1>8, <1>10, <2>2, <2>4, <2>5
  <2>. QED
    BY <1>1, <1>10, <2>2, <2>6 DEF EndsForAReason, Running
<1>11. CASE BrokerEnds("memory fault") /\ UNCHANGED <<worker, session>>
  <2>1. AllClosed /\ process' = "memory fault"
    BY <1>11 DEF BrokerEnds, AllClosed
  <2>. QED
    BY <1>1, <1>11, <2>1, EndKeepsStreams DEF EndsForAReason, Running
<1>. QED
  BY <1>3, <1>9, <1>10, <1>11 DEF WorkerStores

\* A subscriber that is gone left because of a SIGINT.
LEMMA GoneSubscriber ==
    ASSUME TypeInv, NEW c \in Clients, Stream(c), client[c].code = SUBSCRIBE, Running,
           Stage(c) \notin {"before", "open", "opening", "after"}, ~ Writable(c)
    PROVE  Gone(c) /\ Blamed(c)
PROOF
<1>1. client[c].code \in Codes \ {PUBLISH} /\ Met(c) /\ SubscriberStream(c)
  BY DEF Stream, Codes, BoxCodes, PUBLISH, SUBSCRIBE, CREATE, REMOVE, LIST
<1>2. Gone(c)
  BY <1>1, GoneWithoutReader
<1>. QED
  BY <1>1, <1>2 DEF Gone, Blamed, Client, SubscriberStream

LEMMA WorkerSendsTestStreams ==
    ASSUME TypeInv, Sessions, Sessions', \A d \in Clients : Stream(d),
           NEW w \in Workers, WorkerSendsTest(w)
    PROVE  (\A d \in Clients : Stream(d)') /\ EndsForAReason
PROOF
<1>1. /\ Running /\ worker[w].pc = "s_test" /\ UNCHANGED <<client, left, session>>
  BY DEF WorkerSendsTest, At, Running, UnchangedByWorkers
<1>2. InSession(w) /\ Ends
  BY <1>1 DEF InSession, TypeInv, Typed
<1>3. PICK c \in Clients : c = path(w)
  BY <1>2 DEF Sessions
<1>4. /\ Stage(c) = "s_test" /\ StreamTypes(c) /\ Met(c)
      /\ WorkerRole(w) /\ worker[w].code = client[c].code
  BY <1>1, <1>2, <1>3, Served
<1>5. client[c].code = SUBSCRIBE /\ SubscriberStream(c)
  BY <1>1, <1>4 DEF WorkerRole, Stream
<1>6. SameSession(c) /\ (Behind(c)' <=> Behind(c))
  BY <1>1, SameBehind DEF SameSession
<1>7. ASSUME WorkerGoesOn(w, "s_read"), process' = process,
             \A d \in Clients \ {c} : pipe'[d] = pipe[d],
             pipe'[c].made = pipe[c].made, pipe'[c].opened = pipe[c].opened,
             pipe'[c].cells \in Seq(Octets),
             client[c].pc \in {"start", "send", "open", "opening", "test"} =>
                AfterTest(c, SubscriberTest, "10")'
      PROVE  (\A d \in Clients : Stream(d)') /\ EndsForAReason
  <2>1. OnlyFor(c)
    BY <1>1, <1>7 DEF OnlyFor
  <2>2. Stage(c)' = "s_read" /\ \A d \in Clients \ {c} : Stream(d)'
    <3>1. "s_read" \in WorkerLabels
      BY DEF WorkerLabels, SessionPCs
    <3>. QED
      BY <1>2, <1>3, <1>7, <2>1, <3>1, GoesOnKeepsOthers
  <2>3. StreamTypes(c)'
    BY <1>1, <1>4, <1>6, <1>7 DEF StreamTypes
  <2>4. Met(c)'
    BY <1>1, <1>4, <1>7, <2>2 DEF Met
  <2>5. SubscriberStream(c)'
    BY <1>1, <1>4, <1>5, <1>7, <2>2 DEF SubscriberStream, Sending, Pushing
  <2>6. Stream(c)'
    BY <1>1, <1>5, <2>3, <2>4, <2>5
    DEF Stream, PUBLISH, SUBSCRIBE, CREATE, REMOVE, LIST, Codes, BoxCodes
  <2>. QED
    BY <1>1, <1>7, <2>2, <2>6 DEF EndsForAReason, Running
<1>8. CASE WritePipe(c, SubscriberTest) /\ WorkerGoesOn(w, "s_read") /\ process' = process
  <2>1. /\ \A d \in Clients \ {c} : pipe'[d] = pipe[d]
        /\ pipe'[c].made = pipe[c].made /\ pipe'[c].opened = pipe[c].opened
        /\ pipe'[c].cells = pipe[c].cells \o SubscriberTest
    BY <1>2, <1>8, WriteFacts
  <2>2. pipe'[c].cells \in Seq(Octets)
    <3>1. pipe[c].cells \in Seq(Octets) /\ SubscriberTest \in Seq(Octets)
      BY <1>4, TestFacts DEF StreamTypes
    <3>. QED
      BY <2>1, <3>1, ConcatProperties
  <2>3. ASSUME client[c].pc \in {"start", "send", "open", "opening", "test"}
        PROVE  AfterTest(c, SubscriberTest, "10")'
    <3>1. Untouched(c)
      BY <1>4, <1>5, <2>3 DEF SubscriberStream, Sending, Pushing
    <3>. QED
      BY <1>6, <2>1, <3>1, TestIsWritten, TestFacts
  <2>. QED
    BY <1>7, <1>8, <2>1, <2>2, <2>3
<1>9. CASE ~ Writable(c)
  <2>1. Gone(c) /\ Blamed(c)
    BY <1>1, <1>4, <1>5, <1>9, GoneSubscriber
  <2>2. CASE WorkerGoesOn(w, "s_read") /\ UNCHANGED <<process, pipe>>
    BY <1>4, <1>7, <2>1, <2>2 DEF Gone, StreamTypes
  <2>3. CASE BrokerEnds("killed") /\ UNCHANGED worker
    <3>1. AllClosed /\ process' = "killed"
      BY <2>3 DEF BrokerEnds, AllClosed
    <3>2. \A d \in Clients : Stream(d)'
      BY <1>1, <2>3, <3>1, EndKeepsStreams DEF Running
    <3>. QED
      BY <2>1, <3>2 DEF EndsForAReason
  <2>. QED
    BY <1>3, <1>9, <2>2, <2>3 DEF WorkerSendsTest, WorkerWrites, WritePipe
<1>. QED
  BY <1>3, <1>8, <1>9 DEF WorkerSendsTest, WorkerWrites, processVars

LEMMA WorkerSendsStreams ==
    ASSUME TypeInv, Sessions, Sessions', \A d \in Clients : Stream(d), DOMAIN left = Clients,
           NEW w \in Workers, WorkerSends(w)
    PROVE  (\A d \in Clients : Stream(d)') /\ EndsForAReason
PROOF
<1>1. /\ Running /\ worker[w].pc \in {"s_replay", "s_push"} /\ UNCHANGED client
  BY DEF WorkerSends, At, Running, UnchangedByWorkers
<1>2. InSession(w) /\ Shape /\ Ends
  BY <1>1 DEF InSession, TypeInv, Typed
<1>3. PICK c \in Clients : c = path(w)
  BY <1>2 DEF Sessions
<1>4. /\ Stage(c) = worker[w].pc /\ StreamTypes(c) /\ Met(c)
      /\ WorkerRole(w) /\ worker[w].code = client[c].code
  BY <1>1, <1>2, <1>3, Served
<1>5. client[c].code = SUBSCRIBE /\ SubscriberStream(c)
  BY <1>1, <1>4 DEF WorkerRole, Stream
<1>6. left[c] # << >> /\ left[c] \in Seq(Texts) /\ left' = [left EXCEPT ![c] = Tail(@)]
  BY <1>3, <1>4 DEF WorkerSends, StreamTypes
<1>7. PICK text \in Texts : text = Head(left[c])
  BY <1>6
<1>8. left'[c] \in Seq(Texts) /\ \A d \in Clients \ {c} : left'[d] = left[d]
  BY <1>6
<1>9. /\ session'[c].written = Append(session[c].written, text)
      /\ session'[c].received = session[c].received
      /\ session'[c].joined = session[c].joined
      /\ \A d \in Clients \ {c} : session'[d] = session[d]
      /\ \A d \in Clients : session'[d].served = session[d].served
  <2>1. WasWritten(c, text)
    BY <1>3, <1>7 DEF WorkerSends
  <2>. QED
    BY <1>2, <2>1, WrittenFacts
<1>10. /\ pipe[c].cells \in Seq(Octets) /\ session[c].written \in Seq(Texts)
       /\ session'[c].written \in Seq(Texts) /\ "10" \in Octets
  BY <1>4, <1>7, <1>9, TestFacts DEF StreamTypes
<1>11. ~ session[c].joined => session[c].received \in Seq(Texts) /\ Behind(c)'
  <2>. SUFFICES ASSUME ~ session[c].joined
                PROVE  session[c].received \in Seq(Texts) /\ Behind(c)'
    OBVIOUS
  <2>1. session[c].received \in Seq(Texts) /\ Behind(c) /\ SameButWritten(c)
    BY <1>4, <1>9 DEF StreamTypes, SameButWritten
  <2>. QED
    BY <1>7, <1>9, <2>1, StillBehind
<1>12. ASSUME Stage(c)' \in {"s_replay", "s_wait", "s_push", "close"}, process' = process \/ Gone(c),
              pipe'[c].made = pipe[c].made, pipe'[c].opened \subseteq pipe[c].opened,
              pipe'[c].cells \in Seq(Octets), Gone(c) \/ Sent(c, "10", text),
              Gone(c) \/ Stage(c)' \in Pushing
       PROVE  Stream(c)'
  <2>1. StreamTypes(c)'
    BY <1>4, <1>8, <1>9, <1>10, <1>11, <1>12 DEF StreamTypes
  <2>2. Met(c)'
    BY <1>1, <1>4, <1>12 DEF Met, Gone
  <2>3. SubscriberStream(c)'
    <3>1. CASE Gone(c)
      BY <1>1, <1>4, <1>5, <1>12, <3>1 DEF SubscriberStream, Gone
    <3>2. CASE Sent(c, "10", text) /\ Stage(c)' \in Pushing /\ process' = process
      <4>1. /\ AfterTest(c, SubscriberTest, "10") => AfterTest(c, SubscriberTest, "10")'
            /\ session[c].received \in Seq(Texts) => (Flows(c, "10") => Flows(c, "10")')
            /\ session[c].received \in Seq(Texts) => (Shows(c) => Shows(c)')
        BY <1>1, <1>7, <1>10, <3>2, SentFlows, TestFacts
      <4>2. Stage(c) \in Pushing /\ Stage(c)' \in Pushing /\ Running' = Running
        BY <1>1, <1>4, <3>2 DEF Running, Pushing
      <4>3. /\ Stage(c) \in Sending /\ Stage(c)' \in Sending
            /\ Stage(c) # "after" /\ Stage(c)' # "after"
        BY <4>2 DEF Sending, Pushing
      <4>. QED
        BY <1>1, <1>5, <1>9, <1>11, <3>2, <4>1, <4>2, <4>3 DEF SubscriberStream
    <3>. QED
      BY <1>12, <3>1, <3>2
  <2>. QED
    BY <1>1, <1>5, <2>1, <2>2, <2>3
    DEF Stream, PUBLISH, SUBSCRIBE, CREATE, REMOVE, LIST, Codes, BoxCodes
<1>13. ASSUME NEW label \in WorkerLabels, WorkerGoesOn(w, label), process' = process,
              \A d \in Clients \ {c} : pipe'[d] = pipe[d]
       PROVE  Stage(c)' = label /\ \A d \in Clients \ {c} : Stream(d)'
  <2>1. OnlyFor(c)
    BY <1>1, <1>8, <1>9, <1>13 DEF OnlyFor
  <2>. QED
    BY <1>2, <1>3, <1>13, <2>1, GoesOnKeepsOthers
<1>14. {"s_replay", "s_wait", "s_push", "close"} \subseteq WorkerLabels
  BY DEF WorkerLabels, SessionPCs
<1>15. CASE /\ WritePipe(c, Message("10", text)) /\ process' = process
            /\ WorkerGoesOn(w, IF worker[w].pc = "s_push" THEN "s_wait" ELSE "s_replay")
  <2>1. /\ \A d \in Clients \ {c} : pipe'[d] = pipe[d]
        /\ pipe'[c].made = pipe[c].made /\ pipe'[c].opened = pipe[c].opened
        /\ pipe'[c].cells = pipe[c].cells \o Message("10", text)
    BY <1>2, <1>15, WriteFacts
  <2>2. Sent(c, "10", text)
    BY <1>9, <2>1 DEF Sent, SameButWritten
  <2>3. pipe'[c].cells \in Seq(Octets)
    BY <1>7, <1>10, <2>2, SentFlows
  <2>4. PICK label \in WorkerLabels :
            /\ label = IF worker[w].pc = "s_push" THEN "s_wait" ELSE "s_replay"
            /\ label \in {"s_replay", "s_wait"} /\ label \in Pushing
    BY <1>1, <1>14 DEF Pushing
  <2>5. Stage(c)' = label /\ \A d \in Clients \ {c} : Stream(d)'
    BY <1>13, <1>15, <2>1, <2>4
  <2>6. Stream(c)'
    BY <1>4, <1>12, <1>15, <2>1, <2>2, <2>3, <2>4, <2>5
  <2>. QED
    BY <1>1, <1>15, <2>5, <2>6 DEF EndsForAReason, Running
<1>16. CASE ~ Writable(c)
  <2>1. Gone(c) /\ Blamed(c)
    BY <1>1, <1>4, <1>5, <1>16, GoneSubscriber
  <2>2. ASSUME NEW label \in {"s_replay", "close"}, WorkerGoesOn(w, label), UNCHANGED <<process, pipe>>
        PROVE  (\A d \in Clients : Stream(d)') /\ EndsForAReason
    <3>1. Stage(c)' = label /\ \A d \in Clients \ {c} : Stream(d)'
      BY <1>13, <1>14, <2>2
    <3>2. Stream(c)'
      BY <1>10, <1>12, <2>1, <2>2, <3>1
    <3>. QED
      BY <2>1, <3>1, <3>2 DEF EndsForAReason
  <2>3. CASE BrokerEnds("killed") /\ UNCHANGED worker
    <3>1. AllClosed /\ process' = "killed" /\ ~ Running'
      BY <2>3 DEF BrokerEnds, AllClosed, Running
    <3>2. \A d \in Clients : Stage(d)' = Stage(d)
      BY <1>9, <2>3, StagesStayAtTheEnd
    <3>3. \A d \in Clients \ {c} : Stream(d)'
      BY <1>1, <1>8, <1>9, <3>1, <3>2, EndKeepsStream DEF SameSession
    <3>none. PICK none : none = << >>
      OBVIOUS
    <3>4. none \in Seq(Octets)
      BY <3>none
    <3>5. /\ pipe'[c].made = pipe[c].made /\ pipe'[c].opened \subseteq pipe[c].opened
          /\ pipe'[c].cells \in Seq(Octets)
      BY <1>10, <3>1, <3>4, <3>none, CellsAtTheEnd DEF KeptCells
    <3>6. Stream(c)'
      BY <1>1, <1>4, <1>12, <2>1, <3>2, <3>5
    <3>. QED
      BY <2>1, <3>3, <3>6 DEF EndsForAReason
  <2>4. \/ \E label \in {"s_replay", "close"} : WorkerGoesOn(w, label) /\ UNCHANGED <<process, pipe>>
        \/ BrokerEnds("killed") /\ UNCHANGED worker
    BY <1>3, <1>16 DEF WorkerSends, WorkerWrites, WritePipe
  <2>. QED
    BY <2>2, <2>3, <2>4
<1>. QED
  BY <1>3, <1>7, <1>15, <1>16 DEF WorkerSends, WorkerWrites, processVars

\* A manager that is gone before the last response was killed.
LEMMA GoneManager ==
    ASSUME TypeInv, NEW c \in Clients, Stream(c), client[c].code \in {CREATE, REMOVE, LIST}, Running,
           Stage(c) \in {"m_respond", "l_respond"}, ~ Writable(c)
    PROVE  client[c].pc = "failed" /\ Gone(c) /\ Blamed(c)
PROOF
<1>1. client[c].code \in Codes \ {PUBLISH} /\ Met(c) /\ (ManagerStream(c) \/ ListStream(c))
  BY DEF Stream, Codes, BoxCodes, PUBLISH, SUBSCRIBE, CREATE, REMOVE, LIST
<1>2. Gone(c)
  BY <1>1, GoneWithoutReader
<1>. QED
  BY <1>1, <1>2 DEF Gone, Blamed, Client, ManagerStream, ListStream, Responded

LEMMA WorkerRespondsStreams ==
    ASSUME TypeInv, Sessions, Sessions', \A d \in Clients : Stream(d),
           NEW w \in Workers, WorkerResponds(w)
    PROVE  (\A d \in Clients : Stream(d)') /\ EndsForAReason
PROOF
<1>1. /\ Running /\ worker[w].pc = "m_respond" /\ UNCHANGED <<client, left>>
  BY DEF WorkerResponds, Responds, At, Running, UnchangedByWorkers
<1>2. InSession(w) /\ Shape /\ Ends
  BY <1>1 DEF InSession, TypeInv, Typed
<1>3. PICK c \in Clients : c = path(w)
  BY <1>2 DEF Sessions
<1>4. /\ Stage(c) = "m_respond" /\ StreamTypes(c) /\ Met(c)
      /\ WorkerRole(w) /\ worker[w].code = client[c].code
  BY <1>1, <1>2, <1>3, Served
<1>5. client[c].code \in {CREATE, REMOVE} /\ ManagerStream(c)
  BY <1>1, <1>4 DEF WorkerRole, Stream
<1>text. PICK text : text = IF session[c].granted = "yes" THEN <<"OK">> ELSE <<"ERROR">>
  OBVIOUS
<1>6. text \in Texts
  <2>1. text = <<"OK">> \/ text = <<"ERROR">>
    BY <1>text
  <2>2. CASE text = <<"OK">>
    BY <2>2 DEF Texts
  <2>3. CASE text = <<"ERROR">>
    BY <2>3 DEF Texts
  <2>. QED
    BY <2>1, <2>2, <2>3
<1>7. PICK code \in Octets : code = IF worker[w].code = CREATE THEN "4" ELSE "6"
  BY TestFacts
<1>8. code = ResponseCode(c)
  BY <1>4, <1>7 DEF ResponseCode
<1>9. Responds(w, Message(code, text), "close", text)
  BY <1>3, <1>text, <1>7 DEF WorkerResponds
<1>10. CASE /\ WritePipe(c, Message(code, text)) /\ WorkerGoesOn(w, "close")
            /\ WasWritten(c, text) /\ process' = process
  <2>1. /\ \A d \in Clients \ {c} : pipe'[d] = pipe[d]
        /\ pipe'[c].made = pipe[c].made /\ pipe'[c].opened = pipe[c].opened
        /\ pipe'[c].cells = pipe[c].cells \o Message(code, text)
    BY <1>2, <1>10, WriteFacts
  <2>2. /\ session'[c].written = Append(session[c].written, text)
        /\ session'[c].received = session[c].received
        /\ session'[c].joined = session[c].joined
        /\ \A d \in Clients \ {c} : session'[d] = session[d]
    BY <1>2, <1>10, WrittenFacts
  <2>3. Sent(c, code, text)
    BY <2>1, <2>2 DEF Sent, SameButWritten
  <2>4. OnlyFor(c)
    BY <1>1, <1>10, <2>1, <2>2 DEF OnlyFor
  <2>5. Stage(c)' = "close" /\ \A d \in Clients \ {c} : Stream(d)'
    <3>1. "close" \in WorkerLabels
      BY DEF WorkerLabels, SessionPCs
    <3>. QED
      BY <1>2, <1>3, <1>10, <2>4, <3>1, GoesOnKeepsOthers
  <2>6. /\ pipe[c].cells \in Seq(Octets) /\ session[c].written \in Seq(Texts)
        /\ left[c] \in Seq(Texts) /\ session[c].joined \in BOOLEAN /\ ~ session[c].joined
        /\ session[c].received \in Seq(Texts) /\ Behind(c)
    BY <1>4, <1>5 DEF StreamTypes, ManagerStream
  <2>7. /\ pipe'[c].cells \in Seq(Octets) /\ session'[c].written \in Seq(Texts)
        /\ Carries(pipe[c].cells, code, session[c].written) =>
             Carries(pipe'[c].cells, code, session'[c].written)
    BY <1>6, <2>3, <2>6, SentFlows
  <2>8. Behind(c)'
    BY <1>6, <2>2, <2>6, StillBehind DEF SameButWritten
  <2>9. StreamTypes(c)'
    BY <1>1, <2>2, <2>6, <2>7, <2>8 DEF StreamTypes
  <2>10. Met(c)'
    BY <1>1, <1>4, <2>1, <2>5 DEF Met
  <2>11. Len(session'[c].written) = 1
    <3>1. Len(session[c].written) = 0
      BY <1>4, <1>5 DEF ManagerStream, Responded
    <3>. QED
      BY <2>2, <2>6, <3>1
  <2>12. ResponseCode(c)' = code
    BY <1>1, <1>8 DEF ResponseCode
  <2>13. ManagerStream(c)'
    BY <1>1, <1>4, <1>5, <1>8, <1>10, <2>2, <2>5, <2>7, <2>11, <2>12
    DEF ManagerStream, Responded, Through, Running
  <2>14. Stream(c)'
    BY <1>1, <1>5, <2>9, <2>10, <2>13
    DEF Stream, PUBLISH, SUBSCRIBE, CREATE, REMOVE, LIST, Codes, BoxCodes
  <2>. QED
    BY <1>1, <1>10, <2>5, <2>14 DEF EndsForAReason, Running
<1>11. CASE /\ ~ Writable(c) /\ UNCHANGED <<worker, session>>
            /\ BrokerEnds(IF sigpipe = "caught" THEN "failed" ELSE "killed")
  <2>1. Blamed(c)
    BY <1>1, <1>4, <1>5, <1>11, GoneManager
  <2>2. AllClosed /\ ~ Running'
    BY <1>11 DEF BrokerEnds, AllClosed, Running
  <2>3. \A d \in Clients : Stream(d)'
    BY <1>1, <1>11, <2>2, EndKeepsStreams
  <2>. QED
    BY <2>1, <2>3 DEF EndsForAReason
<1>. QED
  BY <1>3, <1>9, <1>10, <1>11 DEF Responds

LEMMA WorkerListsStreams ==
    ASSUME TypeInv, Sessions, Sessions', \A d \in Clients : Stream(d), DOMAIN left = Clients,
           NEW w \in Workers, WorkerLists(w)
    PROVE  (\A d \in Clients : Stream(d)') /\ EndsForAReason
PROOF
<1>1. /\ Running /\ worker[w].pc = "l_respond" /\ UNCHANGED client
  BY DEF WorkerLists, Responds, At, Running, UnchangedByWorkers
<1>2. InSession(w) /\ Shape /\ Ends
  BY <1>1 DEF InSession, TypeInv, Typed
<1>3. PICK c \in Clients : c = path(w)
  BY <1>2 DEF Sessions
<1>4. /\ Stage(c) = "l_respond" /\ StreamTypes(c) /\ Met(c)
      /\ WorkerRole(w) /\ worker[w].code = client[c].code
  BY <1>1, <1>2, <1>3, Served
<1>5. client[c].code = LIST /\ ListStream(c)
  BY <1>1, <1>4 DEF WorkerRole, Stream
<1>6. /\ pipe[c].cells \in Seq(Octets) /\ session[c].written \in Seq(Texts)
      /\ left[c] \in Seq(Texts) /\ session[c].joined \in BOOLEAN /\ ~ session[c].joined
      /\ session[c].received \in Seq(Texts) /\ Behind(c)
  BY <1>4, <1>5 DEF StreamTypes, ListStream
<1>7. CASE /\ left[c] = << >> /\ WorkerGoesOn(w, "close")
           /\ UNCHANGED <<process, pipe, left, session>>
  <2>1. "close" \in WorkerLabels \ {"open", "opening"} /\ SameSession(c)
    BY <1>7 DEF WorkerLabels, SessionPCs, SameSession
  <2>2. \A d \in Clients : Stream(d)'
    BY <1>1, <1>2, <1>3, <1>7, <2>1, MovesKeepStreams
  <2>. QED
    BY <1>1, <1>7, <2>2 DEF EndsForAReason, Running
<1>8. ASSUME left[c] # << >>, left' = [left EXCEPT ![c] = Tail(@)],
             NEW text \in Texts, Responds(w, Message("8", text), "l_respond", text)
      PROVE  (\A d \in Clients : Stream(d)') /\ EndsForAReason
  <2>1. left'[c] \in Seq(Texts) /\ \A d \in Clients \ {c} : left'[d] = left[d]
    BY <1>6, <1>8
  <2>2. CASE /\ WritePipe(c, Message("8", text)) /\ WorkerGoesOn(w, "l_respond")
             /\ WasWritten(c, text) /\ process' = process
    <3>1. /\ \A d \in Clients \ {c} : pipe'[d] = pipe[d]
          /\ pipe'[c].made = pipe[c].made /\ pipe'[c].opened = pipe[c].opened
          /\ pipe'[c].cells = pipe[c].cells \o Message("8", text)
      BY <1>2, <2>2, WriteFacts
    <3>2. /\ session'[c].written = Append(session[c].written, text)
          /\ session'[c].received = session[c].received
          /\ session'[c].joined = session[c].joined
          /\ \A d \in Clients \ {c} : session'[d] = session[d]
      BY <1>2, <2>2, WrittenFacts
    <3>3. Sent(c, "8", text)
      BY <3>1, <3>2 DEF Sent, SameButWritten
    <3>4. OnlyFor(c)
      BY <1>1, <2>1, <2>2, <3>1, <3>2 DEF OnlyFor
    <3>5. Stage(c)' = "l_respond" /\ \A d \in Clients \ {c} : Stream(d)'
      <4>1. "l_respond" \in WorkerLabels
        BY DEF WorkerLabels, SessionPCs
      <4>. QED
        BY <1>2, <1>3, <2>2, <3>4, <4>1, GoesOnKeepsOthers
    <3>6. /\ pipe'[c].cells \in Seq(Octets) /\ session'[c].written \in Seq(Texts)
          /\ Flows(c, "8") => Flows(c, "8")'
      <4>1. "8" \in Octets
        BY TestFacts
      <4>. QED
        BY <1>6, <1>8, <3>3, <4>1, SentFlows
    <3>7. Behind(c)'
      BY <1>6, <1>8, <3>2, StillBehind DEF SameButWritten
    <3>8. StreamTypes(c)'
      BY <1>1, <1>6, <2>1, <3>2, <3>6, <3>7 DEF StreamTypes
    <3>9. Met(c)'
      BY <1>1, <1>4, <3>1, <3>5 DEF Met
    <3>10. ListStream(c)'
      BY <1>1, <1>4, <1>5, <2>2, <3>2, <3>5, <3>6 DEF ListStream, Responded, Running
    <3>11. Stream(c)'
      BY <1>1, <1>5, <3>8, <3>9, <3>10
      DEF Stream, PUBLISH, SUBSCRIBE, CREATE, REMOVE, LIST, Codes, BoxCodes
    <3>. QED
      BY <1>1, <2>2, <3>5, <3>11 DEF EndsForAReason, Running
  <2>3. CASE /\ ~ Writable(c) /\ UNCHANGED <<worker, session>>
             /\ BrokerEnds(IF sigpipe = "caught" THEN "failed" ELSE "killed")
    <3>1. client[c].pc = "failed" /\ Blamed(c)
      BY <1>1, <1>4, <1>5, <2>3, GoneManager
    <3>2. AllClosed /\ ~ Running'
      BY <2>3 DEF BrokerEnds, AllClosed, Running
    <3>3. \A d \in Clients : session'[d].served = session[d].served
      BY <2>3
    <3>4. \A d \in Clients : Stage(d)' = Stage(d)
      BY <2>3, <3>3, StagesStayAtTheEnd
    <3>5. \A d \in Clients \ {c} : Stream(d)'
      BY <1>1, <2>1, <2>3, <3>2, <3>4, EndKeepsStream DEF SameSession
    <3>none. PICK none : none = << >>
      OBVIOUS
    <3>6. none \in Seq(Octets)
      BY <3>none
    <3>7. /\ pipe'[c].made = pipe[c].made /\ pipe'[c].opened \subseteq pipe[c].opened
          /\ pipe'[c].cells \in Seq(Octets)
      BY <1>6, <3>2, <3>6, <3>none, CellsAtTheEnd DEF KeptCells
    <3>8. Behind(c)'
      BY <1>6, <2>3, SameBehind DEF SameSession
    <3>9. StreamTypes(c)'
      BY <1>1, <1>6, <2>1, <2>3, <3>7, <3>8 DEF StreamTypes
    <3>10. Met(c)'
      BY <1>1, <1>4, <3>1, <3>4, <3>7 DEF Met, WithPipe
    <3>11. ListStream(c)'
      BY <1>1, <1>4, <1>5, <2>3, <3>1, <3>4 DEF ListStream, Responded, Through
    <3>12. Stream(c)'
      BY <1>1, <1>5, <3>9, <3>10, <3>11
      DEF Stream, PUBLISH, SUBSCRIBE, CREATE, REMOVE, LIST, Codes, BoxCodes
    <3>. QED
      BY <3>1, <3>5, <3>12 DEF EndsForAReason
  <2>. QED
    BY <1>3, <1>8, <2>2, <2>3 DEF Responds
<1>9. ASSUME left[c] # << >>, left' = [left EXCEPT ![c] = Tail(@)],
             Responds(w, Message("8", Head(left[c])), "l_respond", Head(left[c]))
      PROVE  (\A d \in Clients : Stream(d)') /\ EndsForAReason
  <2>1. PICK text \in Texts : text = Head(left[c])
    BY <1>6, <1>9
  <2>. QED
    BY <1>8, <1>9, <2>1
<1>. QED
  BY <1>3, <1>7, <1>9 DEF WorkerLists, processVars

LEMMA WorkerClosesStreams ==
    ASSUME TypeInv, Sessions, Sessions', \A d \in Clients : Stream(d),
           NEW w \in Workers, WorkerCloses(w)
    PROVE  (\A d \in Clients : Stream(d)') /\ EndsForAReason
PROOF
<1>1. /\ Running /\ worker[w].pc = "close" /\ UNCHANGED <<client, left, session, process>>
  BY DEF WorkerCloses, At, Running, UnchangedByWorkers, processVars
<1>2. InSession(w) /\ Shape /\ Ends
  BY <1>1 DEF InSession, TypeInv, Typed
<1>3. PICK c \in Clients : c = path(w)
  BY <1>2 DEF Sessions
<1>4. Stage(c) = "close" /\ StreamTypes(c) /\ Met(c) /\ client[c].code \in Codes
  BY <1>1, <1>2, <1>3, Served
<1>5. /\ \A v \in Workers \ {w} : worker'[v] = worker[v]
      /\ worker'[w].pc = "dequeue"
  BY <1>2 DEF WorkerCloses, Shape, WorkerFields
<1>6. Stage(c)' = "after"
  <2>1. ASSUME NEW v \in Workers PROVE ~ Serves(v, c)'
    <3>1. CASE v = w
      BY <1>5, <3>1 DEF Serves, InSession
    <3>2. CASE v # w
      BY <1>2, <1>3, <1>5, <3>2 DEF Serves, InSession, path, Sessions
    <3>. QED
      BY <3>1, <3>2
  <2>2. session'[c].served = 1
    BY <1>1, <1>2, <1>3 DEF Sessions
  <2>3. Sessions' => StageKnown'
    BY StageOf, PTL
  <2>. QED
    BY <2>1, <2>2, <2>3 DEF StageKnown
<1>7. ASSUME NEW d \in Clients, d # c PROVE Stage(d)' = Stage(d)
  <2>1. \A v \in Workers : Serves(v, d)' = Serves(v, d) /\ (Serves(v, d) => worker'[v].pc = worker[v].pc)
    BY <1>1, <1>3, <1>5, <1>7 DEF Serves, InSession, path
  <2>. QED
    BY <1>1, <2>1, StageStays
<1>8. PICK q : q = Closing(pipe[c], {w})
  OBVIOUS
<1>9. pipe' = [pipe EXCEPT ![c] = q]
  BY <1>3, <1>8 DEF WorkerCloses
<1>10. pipe'[c] = q /\ \A d \in Clients \ {c} : pipe'[d] = pipe[d]
  BY <1>2, <1>9 DEF Ends
<1>11. DOMAIN pipe[c] = PipeFields /\ PipeEnds(c) /\ c # w /\ client[c].pc \in ClientPCs
  BY <1>2, ClientAssumption DEF Ends, PipeEnds, TypeInv, Typed, ClientPlaces
<1>12. /\ q.readers = pipe[c].readers \ {w} /\ q.writers = pipe[c].writers \ {w}
       /\ q.opened = pipe[c].opened \ {w} /\ q.made = pipe[c].made
       /\ q.readers = {} /\ q.writers = {} => q.cells = << >>
       /\ q.readers # {} \/ q.writers # {} => q.cells = pipe[c].cells
  BY <1>8, <1>11 DEF Closing, PipeFields
<1>13. q.cells = pipe[c].cells \/ (q.cells = << >> /\ Gone(c))
  <2>1. CASE client[c].pc \in WithPipe
    BY <1>11, <1>12, <2>1 DEF PipeEnds
  <2>2. CASE client[c].pc \notin WithPipe
    BY <1>4, <1>11, <1>12, <2>2 DEF Met, Gone, WithPipe
  <2>. QED
    BY <2>1, <2>2
<1>14. SameSession(c) /\ (Behind(c)' <=> Behind(c)) /\ Running' = Running
  BY <1>1, SameBehind DEF SameSession, Running
<1>15. StreamTypes(c)'
  <2>none. PICK none : none = << >>
    OBVIOUS
  <2>1. none \in Seq(Octets)
    BY <2>none
  <2>2. pipe'[c].cells \in Seq(Octets)
    BY <1>4, <1>10, <1>13, <2>none, <2>1 DEF StreamTypes
  <2>. QED
    BY <1>1, <1>4, <1>14, <2>2 DEF StreamTypes
<1>16. Met(c)'
  BY <1>1, <1>4, <1>6, <1>10, <1>12, <1>13 DEF Met
<1>17. Gone(c) \/ pipe'[c].cells = pipe[c].cells
  BY <1>10, <1>13
<1>18. pipe'[c].cells = pipe[c].cells =>
         /\ \A test, code : AfterTest(c, test, code)' <=> AfterTest(c, test, code)
         /\ \A code : Flows(c, code)' <=> Flows(c, code)
         /\ Untouched(c)' <=> Untouched(c)
         /\ Shows(c)' <=> Shows(c)
  BY <1>1, <1>14, SameFlow
<1>19. PublisherStream(c) => PublisherStream(c)'
  BY <1>1, <1>4, <1>6 DEF PublisherStream, BeforeRead
<1>20. SubscriberStream(c) => SubscriberStream(c)'
  BY <1>1, <1>4, <1>6, <1>14, <1>17, <1>18 DEF SubscriberStream, Sending, Pushing, SameSession, Gone
<1>21. ManagerStream(c) => ManagerStream(c)'
  BY <1>1, <1>4, <1>6, <1>14, <1>17
  DEF ManagerStream, Responded, Through, SameSession, Gone, Carries, ResponseCode
<1>22. ListStream(c) => ListStream(c)'
  BY <1>1, <1>4, <1>6, <1>14, <1>17, <1>18 DEF ListStream, Responded, Through, SameSession, Gone
<1>23. Stream(c)'
  BY <1>1, <1>15, <1>16, <1>19, <1>20, <1>21, <1>22 DEF Stream
<1>24. ASSUME NEW d \in Clients, d # c PROVE Stream(d)'
  BY <1>1, <1>7, <1>10, <1>24, OthersKeepStream
<1>. QED
  BY <1>1, <1>23, <1>24 DEF EndsForAReason, Running

LEMMA SessionKeepsStreams ==
    ASSUME TypeInv, Sessions, Sessions', \A d \in Clients : Stream(d), DOMAIN left = Clients,
           NEW w \in Workers, SessionStep(w)
    PROVE  (\A d \in Clients : Stream(d)') /\ EndsForAReason
PROOF
  BY WorkerOpensStreams, PipeOpenedStreams, WorkerDecidesStreams, WorkerReadsTestStreams,
     WorkerStoresStreams, WorkerSendsTestStreams, WorkerReadsStreams, WorkerSendsStreams,
     WorkerReplayedStreams,
     WorkerRespondsStreams, WorkerListsStreams, WorkerClosesStreams
  DEF SessionStep

------------------------------------------------------------------------------
(* Copies, and the main thread *)

\* A worker that has copied a request comes to its client.
LEMMA CopiesStages ==
    ASSUME Shape, Sessions, Sessions', NEW w \in Workers, WorkerCopies(w), UNCHANGED session,
           NEW d \in Clients
    PROVE  Stage(d)' = Stage(d) \/ (Stage(d) = "before" /\ Stage(d)' = "open")
PROOF
<1>1. ~ InSession(w) /\ \A v \in Workers \ {w} : worker'[v] = worker[v]
  BY DEF WorkerCopies, WorkerDequeue, CopyCode, CopyPath, CopyName, At, InSession, Shape
<1>2. InSession(w)' => worker'[w].pc = "open"
  BY DEF WorkerCopies, WorkerDequeue, CopyCode, CopyPath, CopyName, At, InSession, Shape, WorkerFields
<1>3. StageKnown /\ (Sessions' => StageKnown')
  BY StageOf, PTL
<1>4. CASE ~ Serves(w, d)'
  <2>1. \A v \in Workers : Serves(v, d)' = Serves(v, d) /\ (Serves(v, d) => worker'[v].pc = worker[v].pc)
    BY <1>1, <1>4 DEF Serves, InSession, path
  <2>. QED
    BY <2>1, StageStays
<1>5. CASE Serves(w, d)'
  <2>1. Stage(d)' = "open" /\ session'[d].served = 0
    BY <1>2, <1>3, <1>5 DEF StageKnown, Serves, Sessions
  <2>2. ASSUME NEW v \in Workers PROVE ~ Serves(v, d)
    <3>1. CASE v = w
      BY <1>1, <3>1 DEF Serves
    <3>2. CASE v # w
      BY <1>1, <1>5, <3>2 DEF Serves, InSession, path, Sessions
    <3>. QED
      BY <3>1, <3>2
  <2>3. Stage(d) = "before"
    BY <1>3, <2>1, <2>2 DEF StageKnown
  <2>. QED
    BY <2>1, <2>3
<1>. QED
  BY <1>4, <1>5

LEMMA CopiesKeepStreams ==
    ASSUME TypeInv, Sessions, Sessions', \A d \in Clients : Stream(d),
           NEW w \in Workers, WorkerCopies(w), UNCHANGED clientVars
    PROVE  \A d \in Clients : Stream(d)'
PROOF
<1>. SUFFICES ASSUME NEW d \in Clients PROVE Stream(d)'
  OBVIOUS
<1>1. UNCHANGED <<client, pipe, left, session, process>>
  BY DEF clientVars, WorkerCopies, WorkerDequeue, CopyCode, CopyPath, CopyName, processVars
<1>2. Stage(d)' = Stage(d) \/ (Stage(d) = "before" /\ Stage(d)' = "open")
  BY <1>1, CopiesStages DEF TypeInv
<1>3. Kept(d)
  BY <1>1, <1>2 DEF Kept, KeptCells, SameSession, Running
<1>. QED
  BY <1>3, KeptStream

LEMMA NothingChanges ==
    ASSUME TypeInv, Sessions, Sessions', \A d \in Clients : Stream(d),
           UNCHANGED <<client, pipe, left, session, process, worker>>
    PROVE  \A d \in Clients : Stream(d)'
PROOF
<1>. SUFFICES ASSUME NEW d \in Clients PROVE Stream(d)'
  OBVIOUS
<1>1. \A e \in Clients : session'[e].served = session[e].served
  OBVIOUS
<1>2. Stage(d)' = Stage(d)
  BY <1>1, StagesStayAtTheEnd
<1>. QED
  BY <1>2, OthersKeepStream

LEMMA MainKeepsStreams ==
    ASSUME TypeInv, Sessions, Sessions', \A d \in Clients : Stream(d),
           MainStep \/ BrokerGetsSigint \/ UNCHANGED vars
    PROVE  (\A d \in Clients : Stream(d)') /\ process' \in {process, "exited"} /\ UNCHANGED client
PROOF
<1>1. CASE BrokerReturn /\ pipe' = [c \in Clients |-> Closing(pipe[c], Workers)]
           /\ UNCHANGED <<client, left, sigints, session>>
  <2>1. AllClosed /\ process' = "exited" /\ UNCHANGED worker
    BY <1>1 DEF BrokerReturn, AllClosed
  <2>. QED
    BY <1>1, <2>1, EndKeepsStreams DEF Running
<1>2. CASE ~ (BrokerReturn /\ pipe' = [c \in Clients |-> Closing(pipe[c], Workers)]
              /\ UNCHANGED <<client, left, sigints, session>>)
  <2>1. UNCHANGED <<client, pipe, left, session, process, worker>>
    BY <1>2 DEF MainStep, BrokerGetsSigint, BrokerSigint, BrokerStep, BrokerOpen, BrokerTest,
         BrokerRead, Read, BrokerCopy, BrokerEnqueue, BrokerUnlink, BrokerDestroy, vars,
         clientVars, registrationVars, processVars
  <2>. QED
    BY <2>1, NothingChanges
<1>. QED
  BY <1>1, <1>2

------------------------------------------------------------------------------
(* The invariant *)

LEMMA InitStreams ==
    SystemInit => SInv
PROOF
<1>. SUFFICES ASSUME SystemInit PROVE SInv
  OBVIOUS
<1>1. PICK s \in Scenarios : ClientsInit(s)
  BY DEF SystemInit
<1>2. Init /\ IInv /\ TypeInv
  BY InitInv, InitTypes DEF SystemInit
<1>3. DOMAIN left = Clients
  BY <1>1, ScenarioAssumption DEF ClientsInit
<1>4. Reason
  BY <1>2 DEF Init, Reason
<1>5. ASSUME NEW c \in Clients PROVE Stream(c)
  <2>none. PICK none : none = << >>
    OBVIOUS
  <2>1. /\ none \in Seq(Octets) /\ none \in Seq(Texts) /\ none \o none = none
        /\ Len(none) = 0
    BY <2>none, ConcatEmptySeq
  <2>2. /\ pipe[c].cells = none /\ pipe[c].opened = {}
        /\ session[c].written = none /\ session[c].received = none
        /\ session[c].joined = FALSE /\ session[c].served = 0
        /\ client[c].code = s.codes[c] /\ left[c] = s.texts[c]
        /\ client[c].code \in Codes => client[c].pc = "start"
    BY <1>1, <2>none DEF ClientsInit, NoPipe
  <2>3. Stage(c) = "before"
    <3>1. \A w \in Workers : ~ Serves(w, c)
      BY <1>2 DEF Init, Serves, InSession
    <3>. QED
      BY <2>2, <3>1 DEF Stage
  <2>4. left[c] \in Seq(Texts)
    <3>1. PICK R : R = Range(s.texts[c])
      OBVIOUS
    <3>2. R \subseteq Texts
      BY <3>1 DEF Texts
    <3>3. left[c] \in Seq(R)
      BY <1>1, <2>2, <3>1, TextAssumption
    <3>. QED
      BY <3>2, <3>3
  <2>5. \A code : Carries(pipe[c].cells, code, none)
    BY <2>none, <2>1, <2>2, CarriesNone
  <2>6. Ahead(c, none)
    BY <2>1, <2>2 DEF Ahead
  <2>7. Behind(c) /\ (\A code : Flows(c, code)) /\ Untouched(c)
    BY <2>none, <2>1, <2>2, <2>5, <2>6 DEF Behind, Flows, Untouched
  <2>8. StreamTypes(c)
    BY <2>1, <2>2, <2>4, <2>7 DEF StreamTypes
  <2>9. client[c].code \in Codes => Met(c)
    BY <2>none, <2>2, <2>3 DEF Met, WithPipe
  <2>10. client[c].code \in Codes => PublisherStream(c) /\ SubscriberStream(c)
    BY <2>none, <2>2, <2>3, <2>7 DEF PublisherStream, SubscriberStream, Tested, BeforeRead, Sending, Pushing
  <2>11. client[c].code \in {CREATE, REMOVE} => ManagerStream(c)
    <3>1. client[c].code \in {CREATE, REMOVE} => left[c] = << >>
      BY <1>1, <2>2, ScenarioAssumption
    <3>2. client[c].code \in {CREATE, REMOVE} => client[c].pc = "start"
      BY <2>2 DEF Codes, BoxCodes
    <3>. QED
      BY <2>none, <2>1, <2>2, <2>3, <2>5, <3>1, <3>2 DEF ManagerStream, Responded, Through
  <2>12. client[c].code = LIST => ListStream(c)
    <3>1. client[c].code = LIST => client[c].pc = "start"
      BY <2>2 DEF Codes
    <3>. QED
      BY <2>2, <2>3, <2>7, <3>1 DEF ListStream, Responded, Through
  <2>. QED
    BY <2>8, <2>9, <2>10, <2>11, <2>12 DEF Stream, Codes, BoxCodes
<1>. QED
  BY <1>2, <1>3, <1>4, <1>5 DEF SInv, Streams

\* A client that is done or has failed takes no more steps.
LEMMA GoneStay ==
    ASSUME TypeInv, NEW c \in Clients, NEW d \in Clients, Blamed(d),
           ClientStep(c) \/ PublisherReadsLine(c) \/ ClientSigint(c)
    PROVE  Blamed(d)'
PROOF
<1>1. Shape
  BY DEF TypeInv
<1>2. client[c].pc \notin {"done", "failed"}
  BY DEF ClientStep, OpenRegister, SendRequest, OpenPipe, PipeOpened, PublisherStep,
         PublisherSleeps, PublisherTests, PublisherLoop, PublisherWrites, PublisherReadsLine,
         SubscriberStep, SubscriberTests, SubscriberReads, SubscriberPrints, ManagerReads,
         ManagerLists, CloseClient, ClientSigint, Client
<1>3. c # d
  BY <1>2 DEF Blamed, Client
<1>4. client'[d] = client[d]
  BY <1>1, <1>3
  DEF Shape, ClientStep, OpenRegister, SendRequest, OpenPipe, PipeOpened, PublisherStep,
      PublisherSleeps, PublisherTests, PublisherLoop, PublisherWrites, PublisherReadsLine,
      SubscriberStep, SubscriberTests, SubscriberReads, SubscriberPrints, ManagerReads,
      ManagerLists, CloseClient, ClientSigint, GoOn, Dies
<1>. QED
  BY <1>4 DEF Blamed, Client

\* A step of the system keeps the streams and the reason.
StreamsAndReason ==
    /\ \A d \in Clients : Stream(d)'
    /\ process' \in {"failed", "killed"} => \E d \in Clients : Blamed(d)'

LEMMA NextKeepsStreams ==
    ASSUME TypeInv, Sessions, Sessions', DOMAIN left = Clients, \A d \in Clients : Stream(d),
           process \in {"failed", "killed"} => \E d \in Clients : Blamed(d),
           [Next]_vars
    PROVE  StreamsAndReason
PROOF
<1>1. ASSUME MainStep \/ BrokerGetsSigint \/ UNCHANGED vars PROVE StreamsAndReason
  <2>1. (\A d \in Clients : Stream(d)') /\ process' \in {process, "exited"} /\ UNCHANGED client
    BY <1>1, MainKeepsStreams
  <2>2. \A d \in Clients : Blamed(d) => Blamed(d)'
    BY <2>1 DEF Blamed, Client
  <2>. QED
    BY <2>1, <2>2 DEF StreamsAndReason
<1>2. ASSUME NEW w \in Workers, WorkerCopies(w), UNCHANGED clientVars PROVE StreamsAndReason
  <2>1. \A d \in Clients : Stream(d)'
    BY <1>2, CopiesKeepStreams
  <2>2. process' = process /\ UNCHANGED client
    BY <1>2 DEF clientVars, WorkerCopies, WorkerDequeue, CopyCode, CopyPath, CopyName, processVars
  <2>3. \A d \in Clients : Blamed(d) => Blamed(d)'
    BY <2>2 DEF Blamed, Client
  <2>. QED
    BY <2>1, <2>2, <2>3 DEF StreamsAndReason
<1>3. ASSUME NEW w \in Workers, SessionStep(w) PROVE StreamsAndReason
  <2>1. (\A d \in Clients : Stream(d)') /\ EndsForAReason
    BY <1>3, SessionKeepsStreams
  <2>2. UNCHANGED client
    BY <1>3
    DEF SessionStep, WorkerOpens, PipeOpenedToWorker, WorkerDecides, WorkerReadsTest, WorkerStores,
        WorkerSendsTest, WorkerReadsBox, WorkerReplayed, WorkerWaits, WorkerReads, WorkerSends,
        WorkerResponds, WorkerLists, Responds, WorkerCloses, UnchangedByWorkers
  <2>3. \A d \in Clients : Blamed(d) => Blamed(d)'
    BY <2>2 DEF Blamed, Client
  <2>. QED
    BY <2>1, <2>3 DEF StreamsAndReason, EndsForAReason
<1>4. ASSUME NEW c \in Clients, ClientStep(c) \/ PublisherReadsLine(c) \/ ClientSigint(c)
      PROVE  StreamsAndReason
  <2>1. \A d \in Clients : Stream(d)'
    BY <1>4, ClientKeepsStreams
  <2>2. process' = process
    BY <1>4
    DEF ClientStep, OpenRegister, SendRequest, OpenPipe, PipeOpened, PublisherStep,
        PublisherSleeps, PublisherTests, PublisherLoop, PublisherWrites, PublisherReadsLine,
        SubscriberStep, SubscriberTests, SubscriberReads, SubscriberPrints, ManagerReads,
        ManagerLists, CloseClient, ClientSigint, WriteRegister, registrationVars, processVars
  <2>3. \A d \in Clients : Blamed(d) => Blamed(d)'
    BY <1>4, GoneStay
  <2>. QED
    BY <2>1, <2>2, <2>3 DEF StreamsAndReason
<1>. QED
  BY <1>1, <1>2, <1>3, <1>4 DEF Next, WorkerStep

\* What was a mishap stays one, and the texts stay there.
LEMMA MishapsStay ==
    ASSUME TypeInv, DOMAIN left = Clients, [Next]_vars
    PROVE  mishaps \subseteq mishaps' /\ DOMAIN left' = Clients
PROOF
<1>1. CASE MainStep \/ BrokerGetsSigint \/ UNCHANGED vars
  BY <1>1 DEF MainStep, BrokerGetsSigint, BrokerSigint, BrokerStep, BrokerOpen, BrokerTest,
         BrokerRead, Read, BrokerCopy, BrokerEnqueue, BrokerUnlink, BrokerDestroy, BrokerReturn,
         vars, clientVars, registrationVars
<1>2. ASSUME NEW w \in Workers, WorkerStep(w)
      PROVE  mishaps \subseteq mishaps' /\ DOMAIN left' = Clients
  <2>1. CASE WorkerCopies(w) /\ UNCHANGED clientVars
    BY <2>1 DEF clientVars, WorkerCopies, WorkerDequeue, CopyCode, CopyPath, CopyName
  <2>2. CASE SessionStep(w)
    BY <2>2
    DEF SessionStep, WorkerOpens, PipeOpenedToWorker, WorkerDecides, WorkerReadsTest, WorkerStores,
        WorkerSendsTest, WorkerReadsBox, WorkerReplayed, WorkerWaits, WorkerReads, WorkerSends,
        WorkerResponds, WorkerLists, Responds, WorkerCloses, UnchangedByWorkers
  <2>. QED
    BY <1>2, <2>1, <2>2 DEF WorkerStep
<1>3. ASSUME NEW c \in Clients, ClientStep(c) \/ PublisherReadsLine(c) \/ ClientSigint(c)
      PROVE  mishaps \subseteq mishaps' /\ DOMAIN left' = Clients
  BY <1>3
  DEF ClientStep, OpenRegister, SendRequest, OpenPipe, PipeOpened, PublisherStep,
      PublisherSleeps, PublisherTests, PublisherLoop, PublisherWrites, PublisherReadsLine,
      SubscriberStep, SubscriberTests, SubscriberReads, SubscriberPrints, ManagerReads,
      ManagerLists, CloseClient, ClientSigint, WriteRegister, registrationVars
<1>. QED
  BY <1>1, <1>2, <1>3 DEF Next

LEMMA NextKeepsSInv ==
    SInv /\ [Next]_vars => SInv'
PROOF
<1>. SUFFICES ASSUME SInv, [Next]_vars PROVE SInv'
  OBVIOUS
<1>1. IInv /\ TypeInv /\ DOMAIN left = Clients /\ Streams /\ Reason
  BY DEF SInv
<1>2. IInv' /\ TypeInv'
  BY <1>1, NextKeepsInv, NextKeepsTypes
<1>3. mishaps \subseteq mishaps' /\ DOMAIN left' = Clients
  BY <1>1, MishapsStay
<1>4. ASSUME mishaps' = {} PROVE StreamsAndReason
  <2>1. mishaps = {}
    BY <1>3, <1>4
  <2>2. Sessions /\ Sessions'
    BY <1>1, <1>2, <1>4, <2>1 DEF IInv, InOnePlace
  <2>3. /\ \A d \in Clients : Stream(d)
        /\ process \in {"failed", "killed"} => \E d \in Clients : Blamed(d)
    BY <1>1, <2>1 DEF Streams, Reason, Blamed
  <2>. QED
    BY <1>1, <2>2, <2>3, NextKeepsStreams
<1>5. Streams' /\ Reason'
  BY <1>4 DEF StreamsAndReason, Streams, Reason, Blamed
<1>. QED
  BY <1>2, <1>3, <1>5 DEF SInv

------------------------------------------------------------------------------
(* What follows *)

\* However many clients, workers and texts there are, and whoever stops when:
\* without a mishap what one end of a client's pipe gets is the beginning of what
\* the other end wrote, unless the test string was read together with a message.
THEOREM TextsInOrder == Spec => []TextsArriveInOrder
PROOF
<1>1. SInv => TextsArriveInOrder
  <2>. SUFFICES ASSUME SInv, NEW c \in Clients, mishaps = {}, ~ session[c].joined
                PROVE  IsPrefix(session[c].received, session[c].written)
    BY DEF TextsArriveInOrder
  <2>1. session[c].received \in Seq(Texts) /\ Behind(c)
    BY DEF SInv, Streams, Stream, StreamTypes
  <2>2. PICK texts \in Seq(Texts) : Ahead(c, texts)
    BY <2>1 DEF Behind
  <2>3. PICK received \in Seq(Texts) : received = session[c].received
    BY <2>1
  <2>4. IsPrefix(received, received \o texts)
    BY ReceivedIsPrefix
  <2>. QED
    BY <2>2, <2>3, <2>4 DEF Ahead
<1>. QED
  BY <1>1, InitStreams, NextKeepsSInv, PTL DEF Spec

\* Without a mishap a manager that is through has got what the broker wrote:
\* the response to its one request, or all the boxes.
THEOREM OutcomesAreSeen == Spec => []ManagersSeeTheOutcome
PROOF
<1>1. SInv => ManagersSeeTheOutcome
  <2>. SUFFICES ASSUME SInv, NEW c \in Clients, client[c].code \in {CREATE, REMOVE, LIST},
                       Client(c, "done"), mishaps = {}, process = "running"
                PROVE  /\ session[c].received = session[c].written
                       /\ session[c].served = 1 /\ left[c] = << >>
    BY DEF ManagersSeeTheOutcome
  <2>1. Stream(c) /\ Sessions /\ Waiting
    BY DEF SInv, Streams, IInv, InOnePlace
  <2>2. /\ session[c].received = session[c].written
        /\ Stage(c) \in Responded /\ left[c] = << >>
    BY <2>1 DEF Stream, ManagerStream, ListStream, Client, Running
  <2>3. session[c].served = 1
    <3>1. CASE \E w \in Workers : Serves(w, c)
      <4>1. PICK w \in Workers : Serves(w, c)
        BY <3>1
      <4>2. worker[w].pc \in Responded
        BY <2>1, <2>2, <4>1, StageOf DEF StageKnown
      <4>. QED
        BY <2>1, <4>1, <4>2 DEF Serves, Sessions, Responded
    <3>2. CASE \A w \in Workers : ~ Serves(w, c)
      BY <2>1, <2>2, <3>2, StageOf DEF StageKnown, Responded, Waiting
    <3>. QED
      BY <3>1, <3>2
  <2>. QED
    BY <2>2, <2>3
<1>. QED
  BY <1>1, InitStreams, NextKeepsSInv, PTL DEF Spec

\* The broker fails or is killed only after a mishap, or because of a client that
\* was interrupted; it exits, or works on freed tables, only after a SIGINT.
THEOREM NoEndWithoutReason == Spec => []BrokerEndsForAReason
PROOF
<1>1. SInv => BrokerEndsForAReason
  BY DEF SInv, Reason, BrokerEndsForAReason, TypeInv, Typed, MainPlaces
<1>. QED
  BY <1>1, InitStreams, NextKeepsSInv, PTL DEF Spec
===============================================================================
