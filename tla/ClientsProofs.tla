---------------------------- MODULE ClientsProofs ----------------------------
(***************************************************************************)
(* Requests are served as they were sent, for any number of clients and    *)
(* workers, as long as there is no mishap.  Without one, the request of a  *)
(* client is in one place: the register pipe, the main thread's buffer on  *)
(* its way in or out, or a session.                                        *)
(*                                                                         *)
(* Who has the ends of the clients' pipes open, whatever becomes of        *)
(* requests.  A client or a worker has its end open where its program has, *)
(* and what each thread works on fits its place in its program.            *)
(***************************************************************************)
EXTENDS Clients, SequenceTheorems, FiniteSetTheorems, TLAPS

WorkerFields == {"pc", "code", "path", "name"}
ClientFields == {"pc", "code", "name", "end", "data"}
SessionFields == {"served", "granted", "written", "received", "joined", "early"}

Cells == Codes \cup Clients \cup BoxNames

Early == {"start", "send"}

Shape ==
    /\ DOMAIN worker = Workers /\ \A w \in Workers : DOMAIN worker[w] = WorkerFields
    /\ DOMAIN client = Clients /\ \A c \in Clients : DOMAIN client[c] = ClientFields
    /\ DOMAIN session = Clients /\ \A c \in Clients : DOMAIN session[c] = SessionFields
    /\ DOMAIN buffer = BufferCells
    /\ register \in Seq(Cells)
    /\ \A c \in Clients :
        client[c].name \in BoxNames /\ (client[c].pc # "done" => client[c].code \in Codes)

\* The cells of c's request.
Size(c) == IF client[c].code = LIST THEN 2 ELSE 3
Cell(c, i) == CASE i = 1 -> client[c].code [] i = 2 -> c [] i = 3 -> client[c].name

\* A request starts where there is a code; requests follow each other.
Starts == {i \in 1 .. Len(register) : register[i] \in Codes}

RequestAt(i, c) ==
    /\ i + Size(c) - 1 <= Len(register)
    /\ \A j \in 1 .. Size(c) : register[i + j - 1] = Cell(c, j)
    /\ i + Size(c) <= Len(register) => i + Size(c) \in Starts

Framed ==
    /\ register # << >> => 1 \in Starts
    /\ \A i \in Starts : \E c \in Clients : RequestAt(i, c)
    /\ \A i, j \in Starts : register[i + 1] = register[j + 1] => i = j

\* Where a request can be.
InRegister(c) == \E i \in Starts : register[i + 1] = c

InBuffer(c) == \A i \in 1 .. Size(c) : buffer[i] = Cell(c, i)

\* The first k cells of c's request are in the buffer, the others to come.
Arriving(c, k) ==
    /\ Len(incoming) = Size(c) - k /\ k < Size(c)
    /\ \A j \in 1 .. Size(c) - k : incoming[j] = <<k + j, Cell(c, k + j)>>
    /\ \A i \in 1 .. k : buffer[i] = Cell(c, i)

\* There is somebody who has still to copy from the buffer.
Busy == queue # << >> \/ \E w \in Workers : Copying(w)

\* c's request is neither in the pipe nor in a session, and was not before.
Underway(c) ==
    /\ client[c].code \in Codes /\ client[c].pc \notin Early
    /\ session[c].served = 0
    /\ ~ InRegister(c)
    /\ \A w \in Workers : InSession(w) => path(w) # c

Reading ==
    /\ main = "copy" =>
         /\ incoming \in Seq(Nat \X Cells)
         /\ \E c \in Clients, k \in 0 .. 2 :
              /\ Arriving(c, k) /\ Underway(c)
              /\ Busy => k = 0 /\ buffer[2] # c
    /\ main = "enqueue" => ~ Busy /\ \E c \in Clients : InBuffer(c) /\ Underway(c)

\* One worker at a time is served from the buffer.
Serving ==
    /\ queue \in {<< >>, <<"buffer">>}
    /\ Busy => \E c \in Clients : InBuffer(c) /\ Underway(c)
    /\ \A w \in Workers : Copying(w) =>
        /\ queue = << >>
        /\ \A v \in Workers : Copying(v) => v = w
        /\ worker[w].pc \in {"path", "name"} => worker[w].code = buffer[1]
        /\ worker[w].pc = "name" => worker[w].code # LIST /\ worker[w].path = buffer[2]

\* A session before and after the client's pipe is open.
Sessions ==
    /\ \A w \in Workers : InSession(w) =>
        /\ path(w) \in Clients
        /\ worker[w].code = client[path(w)].code /\ worker[w].code \in Codes
        /\ worker[w].code # LIST => worker[w].name = client[path(w)].name
        /\ client[path(w)].pc \notin Early
        /\ ~ InRegister(path(w))
        /\ session[path(w)].served = IF worker[w].pc \in {"open", "opening"} THEN 0 ELSE 1
    /\ \A v, w \in Workers : InSession(v) /\ InSession(w) /\ path(v) = path(w) => v = w

\* A client whose request is still to be read has not been served.
Waiting ==
    \A c \in Clients :
        /\ session[c].served \in {0, 1}
        /\ client[c].pc \in Early => session[c].served = 0 /\ ~ InRegister(c)
        /\ InRegister(c) => session[c].served = 0 /\ client[c].code \in Codes

InOnePlace == Framed /\ Reading /\ Serving /\ Sessions /\ Waiting

IInv == Shape /\ (mishaps = {} => InOnePlace)

\* Codes are told from the other cells, and list requests from the others.
LEMMA CellFacts ==
    /\ \A c \in Clients : c \notin Codes
    /\ \A n \in BoxNames : n \notin Codes
    /\ LIST \in Codes /\ LIST \notin BoxCodes /\ Codes = BoxCodes \cup {LIST}
    /\ Codes \subseteq Cells /\ Clients \subseteq Cells /\ BoxNames \subseteq Cells
PROOF
  BY CellAssumption
  DEF Cells, Codes, BoxCodes, LIST, PUBLISH, SUBSCRIBE, CREATE, REMOVE

\* What a client writes is its request.
LEMMA RequestCells ==
    ASSUME NEW c \in Clients, client[c].code \in Codes, client[c].name \in BoxNames
    PROVE  LET request == Request(client[c].code, c, client[c].name)
           IN  /\ request \in Seq(Cells)
               /\ Len(request) = Size(c)
               /\ \A j \in 1 .. Size(c) : request[j] = Cell(c, j) /\ Cell(c, j) \in Cells
PROOF
<1>1. CASE client[c].code = LIST
  BY <1>1, CellFacts DEF Request, Size, Cell
<1>2. CASE client[c].code # LIST
  BY <1>2, CellFacts DEF Request, Size, Cell
<1>. QED
  BY <1>1, <1>2

\* What read() takes without a mishap is the first request.
LEMMA TakenIsARequest ==
    ASSUME Shape, Framed, register # << >>,
           NEW n \in Nat, Len(register) < 3 => n = Len(register), Len(register) >= 3 => n = 3,
           SubSeq(register, 1, n) \in Requests
    PROVE  \E c \in Clients : RequestAt(1, c) /\ n = Size(c)
PROOF
<1>. DEFINE taken == SubSeq(register, 1, n)
            L == Len(register)
<1>1. PICK c \in Clients : RequestAt(1, c)
  BY DEF Framed
<1>2. L \in Nat /\ n \in Nat /\ n <= L /\ (L < 3 => n = L) /\ (L >= 3 => n = 3)
  BY DEF Shape
<1>3. Len(taken) = n /\ \A i \in 1 .. n : taken[i] = register[i]
  BY <1>2 DEF Shape
<1>4. Size(c) \in {2, 3} /\ Size(c) <= L
  BY <1>1, <1>2 DEF RequestAt, Size
<1>5. taken \in Requests
  OBVIOUS
<1>. HIDE DEF taken, L
<1>6. CASE Size(c) = 3
  BY <1>1, <1>2, <1>4, <1>6
<1>7. CASE Size(c) = 2 /\ n # 2
  <2>1. n = 3
    BY <1>2, <1>4, <1>7
  <2>2. taken[1] = LIST
    <3>1. client[c].code = LIST
      BY <1>7 DEF Size
    <3>2. register[1 + 1 - 1] = Cell(c, 1)
      BY <1>1, <1>7 DEF RequestAt
    <3>. QED
      BY <1>3, <2>1, <3>1, <3>2 DEF Cell
  <2>3. Len(taken) = 3
    BY <1>3, <2>1
  <2>4. taken \notin {<<LIST, p>> : p \in Clients}
    BY <2>3
  <2>5. PICK code \in BoxCodes, p \in Clients, name \in BoxNames : taken = <<code, p, name>>
    BY <1>5, <2>4 DEF Requests
  <2>6. LIST \in BoxCodes
    BY <2>2, <2>5
  <2>. QED
    BY <2>6, CellFacts
<1>. QED
  BY <1>1, <1>4, <1>6, <1>7

FirstIsTaken(c) ==
    RequestAt(1, c) /\ register' = SubSeq(register, Size(c) + 1, Len(register))

\* Taking the first request away leaves requests.
LEMMA FramedWithoutFirst ==
    ASSUME Shape, Framed, NEW c \in Clients, FirstIsTaken(c), UNCHANGED client
    PROVE  /\ Framed'
           /\ InRegister(c) /\ ~ InRegister(c)'
           /\ \A d \in Clients : InRegister(d)' => InRegister(d)
PROOF
<1>. DEFINE s == Size(c)
            L == Len(register)
<1>1. L \in Nat /\ s \in {2, 3} /\ s <= L
  BY DEF Shape, Size, RequestAt, FirstIsTaken
<1>2. /\ register' \in Seq(Cells)
      /\ Len(register') = L - s
      /\ \A i \in 1 .. L - s : register'[i] = register[i + s]
  <2>1. register \in Seq(Cells) /\ register' = SubSeq(register, s + 1, L)
    BY DEF Shape, FirstIsTaken
  <2>. HIDE DEF s
  <2>. QED
    BY <1>1, <2>1
<1>. HIDE DEF s, L
<1>3. \A i : i \in Starts' <=> i \in 1 .. L - s /\ i + s \in Starts
  BY <1>1, <1>2 DEF Starts, L
<1>4. \A d \in Clients : Size(d)' = Size(d) /\ Size(d) \in {2, 3}
                        /\ \A j \in 1 .. 3 : Cell(d, j)' = Cell(d, j)
  BY DEF Size, Cell
<1>5. \A i \in Starts' : \E d \in Clients : RequestAt(i, d)'
  <2>. SUFFICES ASSUME NEW i \in Starts' PROVE \E d \in Clients : RequestAt(i, d)'
    OBVIOUS
  <2>1. PICK d \in Clients : RequestAt(i + s, d)
    BY <1>3 DEF Framed
  <2>2. i \in 1 .. L - s
    BY <1>3
  <2>3. i + Size(d) - 1 <= L - s
    BY <1>1, <1>4, <2>1, <2>2 DEF RequestAt, L
  <2>4. \A j \in 1 .. Size(d) : register'[i + j - 1] = Cell(d, j)
    <3>. SUFFICES ASSUME NEW j \in 1 .. Size(d) PROVE register'[i + j - 1] = Cell(d, j)
      OBVIOUS
    <3>1. i + j - 1 \in 1 .. L - s
      BY <1>1, <1>4, <2>2, <2>3
    <3>2. register'[i + j - 1] = register[(i + s) + j - 1]
      BY <1>1, <1>2, <1>4, <2>2, <3>1
    <3>. QED
      BY <2>1, <3>2 DEF RequestAt
  <2>5. i + Size(d) <= L - s => i + Size(d) \in Starts'
    <3>. SUFFICES ASSUME i + Size(d) <= L - s PROVE i + Size(d) \in Starts'
      OBVIOUS
    <3>1. (i + s) + Size(d) \in Starts
      BY <1>1, <1>4, <2>1, <2>2 DEF RequestAt, L
    <3>. QED
      BY <1>1, <1>3, <1>4, <2>2, <3>1
  <2>6. RequestAt(i, d)'
    BY <1>2, <1>4, <2>3, <2>4, <2>5 DEF RequestAt
  <2>. QED
    BY <2>6
<1>6. register' # << >> => 1 \in Starts'
  <2>. SUFFICES ASSUME register' # << >> PROVE 1 \in Starts'
    OBVIOUS
  <2>1. 1 + s <= L
    BY <1>1, <1>2, EmptySeq
  <2>2. 1 + s \in Starts
    BY <2>1 DEF RequestAt, FirstIsTaken, s, L
  <2>. QED
    BY <1>1, <1>3, <2>1, <2>2
<1>7. \A i \in Starts' : register'[i + 1] = register[(i + s) + 1]
  <2>. SUFFICES ASSUME NEW i \in Starts' PROVE register'[i + 1] = register[(i + s) + 1]
    OBVIOUS
  <2>1. PICK d \in Clients : RequestAt(i, d)'
    BY <1>5
  <2>2. i + 1 \in 1 .. L - s
    BY <1>1, <1>2, <1>3, <1>4, <2>1 DEF RequestAt
  <2>. QED
    BY <1>1, <1>2, <1>3, <2>2
<1>8. \A i, j \in Starts' : register'[i + 1] = register'[j + 1] => i = j
  BY <1>1, <1>3, <1>7 DEF Framed
<1>9. 1 \in Starts /\ register[1 + 1] = c
  <2>1. register # << >>
    BY <1>1 DEF L
  <2>2. 2 \in 1 .. Size(c) /\ register[1 + 2 - 1] = Cell(c, 2)
    BY <1>1 DEF RequestAt, FirstIsTaken, s
  <2>. QED
    BY <2>1, <2>2 DEF Framed, Cell
<1>10. \A i \in Starts' : register'[i + 1] # c
  BY <1>1, <1>3, <1>7, <1>9 DEF Framed
<1>. QED
  BY <1>3, <1>5, <1>6, <1>7, <1>8, <1>9, <1>10 DEF Framed, InRegister

RequestIsAdded(c) ==
    register' = register \o Request(client[c].code, c, client[c].name)

SameRequests ==
    \A c \in Clients : client'[c].code = client[c].code /\ client'[c].name = client[c].name

\* A request behind the others leaves requests.
LEMMA FramedWithOneMore ==
    ASSUME Shape, Framed, NEW c \in Clients, client[c].code \in Codes,
           RequestIsAdded(c), ~ InRegister(c), SameRequests
    PROVE  /\ register' \in Seq(Cells)
           /\ Framed'
           /\ \A d \in Clients : InRegister(d)' => d = c \/ InRegister(d)
PROOF
<1>. DEFINE s == Size(c)
            request == Request(client[c].code, c, client[c].name)
<1>0. PICK L : L = Len(register)
  OBVIOUS
<1>1. /\ request \in Seq(Cells) /\ Len(request) = s
      /\ \A j \in 1 .. s : request[j] = Cell(c, j)
  BY RequestCells DEF Shape
<1>2. L \in Nat /\ s \in {2, 3} /\ register \in Seq(Cells) /\ register' = register \o request
  BY <1>0 DEF Shape, Size, RequestIsAdded
<1>. HIDE DEF request, s
<1>3. /\ register' \in Seq(Cells)
      /\ Len(register') = L + s
      /\ \A i \in 1 .. L : register'[i] = register[i]
  BY <1>1, <1>2, ConcatProperties, <1>0
<1>4. \A j \in 1 .. s : register'[L + j] = Cell(c, j)
  <2>. SUFFICES ASSUME NEW j \in 1 .. s PROVE register'[L + j] = Cell(c, j)
    OBVIOUS
  <2>1. L + j > L /\ L + j <= L + s /\ L + j - L = j /\ L + j \in 1 .. L + s
    BY <1>2
  <2>2. register'[L + j] = request[L + j - L]
    BY <1>1, <1>2, <2>1, ConcatProperties, <1>0
  <2>. QED
    BY <1>1, <2>1, <2>2
<1>5. \A d \in Clients : Size(d)' = Size(d) /\ Size(d) \in {2, 3}
                        /\ \A j \in 1 .. 3 : Cell(d, j)' = Cell(d, j)
  BY DEF Size, Cell, SameRequests
<1>6. \A i : i \in Starts' <=> i \in Starts \/ i = L + 1
  <2>1. register'[L + 1] \in Codes
    <3>1. 1 \in 1 .. s /\ Cell(c, 1) = client[c].code
      BY <1>2 DEF Cell
    <3>. QED
      BY <1>4, <3>1
  <2>2. \A j \in 2 .. s : register'[L + j] \notin Codes
    <3>1. \A j \in 2 .. s : j \in 1 .. s /\ j \in {2, 3}
      BY <1>2
    <3>2. Cell(c, 2) = c /\ Cell(c, 3) = client[c].name
      BY DEF Cell
    <3>. QED
      BY <1>4, <3>1, <3>2, CellFacts DEF Shape
  <2>3. \A i \in 1 .. L + s : i \in 1 .. L \/ \E j \in 1 .. s : i = L + j
    <3>. SUFFICES ASSUME NEW i \in 1 .. L + s, i \notin 1 .. L PROVE \E j \in 1 .. s : i = L + j
      OBVIOUS
    <3>1. i - L \in 1 .. s /\ i = L + (i - L)
      BY <1>2
    <3>. QED
      BY <3>1
  <2>4. ASSUME NEW i \in Starts' PROVE i \in Starts \/ i = L + 1
    <3>1. i \in 1 .. L + s /\ register'[i] \in Codes
      BY <1>3, <2>4 DEF Starts
    <3>2. CASE i \in 1 .. L
      BY <1>3, <3>1, <3>2, <1>0 DEF Starts
    <3>3. ASSUME NEW j \in 1 .. s, i = L + j PROVE i = L + 1
      <4>1. j \notin 2 .. s
        BY <2>2, <3>1, <3>3
      <4>. QED
        BY <1>2, <3>3, <4>1
    <3>. QED
      BY <2>3, <3>1, <3>2, <3>3
  <2>5. \A i \in Starts : i \in Starts'
    BY <1>2, <1>3, <1>0 DEF Starts
  <2>6. L + 1 \in Starts'
    BY <1>2, <1>3, <2>1 DEF Starts
  <2>. QED
    BY <2>4, <2>5, <2>6
<1>7. RequestAt(L + 1, c)'
  <2>1. (L + 1) + s - 1 <= L + s
    BY <1>2
  <2>2. \A j \in 1 .. s : register'[(L + 1) + j - 1] = Cell(c, j)
    <3>. SUFFICES ASSUME NEW j \in 1 .. s PROVE register'[(L + 1) + j - 1] = Cell(c, j)
      OBVIOUS
    <3>1. (L + 1) + j - 1 = L + j
      BY <1>2
    <3>. QED
      BY <1>4, <3>1
  <2>3. ~ ((L + 1) + s <= L + s)
    BY <1>2
  <2>. QED
    <3>1. Size(c)' = s /\ \A j \in 1 .. s : j \in 1 .. 3 /\ Cell(c, j)' = Cell(c, j)
      BY <1>2, <1>5 DEF s
    <3>2. \A j \in 1 .. s : register'[(L + 1) + j - 1] = Cell(c, j)'
      BY <2>2, <3>1
    <3>. QED
      BY <1>3, <2>1, <2>3, <3>1, <3>2 DEF RequestAt
<1>8. \A i \in Starts, d \in Clients : RequestAt(i, d) => RequestAt(i, d)'
  <2>. SUFFICES ASSUME NEW i \in Starts, NEW d \in Clients, RequestAt(i, d)
                PROVE  RequestAt(i, d)'
    OBVIOUS
  <2>1. i \in 1 .. L /\ i + Size(d) - 1 <= L
    BY <1>0 DEF RequestAt, Starts
  <2>2. \A j \in 1 .. Size(d) : register'[i + j - 1] = Cell(d, j)
    <3>. SUFFICES ASSUME NEW j \in 1 .. Size(d) PROVE register'[i + j - 1] = Cell(d, j)
      OBVIOUS
    <3>1. i + j - 1 \in 1 .. L
      BY <1>2, <1>5, <2>1
    <3>. QED
      BY <1>3, <3>1 DEF RequestAt
  <2>3. i + Size(d) <= L + s => i + Size(d) \in Starts'
    <3>1. CASE i + Size(d) <= L
      BY <1>6, <3>1, <1>0 DEF RequestAt
    <3>2. CASE ~ (i + Size(d) <= L)
      <4>1. i \in Nat /\ L \in Nat /\ Size(d) \in Nat
        BY <1>2, <1>5, <2>1
      <4>2. i + Size(d) - 1 <= L /\ ~ (i + Size(d) <= L)
        BY <2>1, <3>2
      <4>3. i + Size(d) = L + 1
        BY <4>1, <4>2
      <4>. QED
        BY <1>6, <4>3
    <3>. QED
      BY <3>1, <3>2
  <2>4. i + Size(d) - 1 <= L + s
    BY <1>2, <1>5, <2>1
  <2>. QED
    BY <1>3, <1>5, <2>2, <2>3, <2>4 DEF RequestAt
<1>9. \A i \in Starts' : \E d \in Clients : RequestAt(i, d)'
  BY <1>6, <1>7, <1>8 DEF Framed
<1>10. \A i \in Starts : register'[i + 1] = register[i + 1]
  <2>. SUFFICES ASSUME NEW i \in Starts PROVE register'[i + 1] = register[i + 1]
    OBVIOUS
  <2>1. PICK d \in Clients : RequestAt(i, d)
    BY DEF Framed
  <2>2. i + 1 \in 1 .. L
    BY <1>2, <1>5, <2>1, <1>0 DEF RequestAt, Starts
  <2>. QED
    BY <1>3, <2>2
<1>11. register'[(L + 1) + 1] = c
  <2>1. (L + 1) + 1 = L + 2 /\ 2 \in 1 .. s
    BY <1>2
  <2>. QED
    BY <1>4, <2>1 DEF Cell
<1>12. \A i, j \in Starts' : register'[i + 1] = register'[j + 1] => i = j
  BY <1>6, <1>10, <1>11 DEF Framed, InRegister
<1>13. 1 \in Starts'
  <2>1. CASE register = << >>
    <3>1. L + 1 = 1
      BY <2>1, <1>0
    <3>. QED
      BY <1>6, <3>1
  <2>2. CASE register # << >>
    BY <1>6, <2>2 DEF Framed
  <2>. QED
    BY <2>1, <2>2
<1>14. \A d \in Clients : InRegister(d)' => d = c \/ InRegister(d)
  BY <1>6, <1>10, <1>11 DEF InRegister
<1>. QED
  BY <1>3, <1>9, <1>12, <1>13, <1>14 DEF Framed

\* A worker is where it was, as far as requests are concerned.
SameWorker(w) ==
    /\ worker'[w].code = worker[w].code
    /\ worker'[w].path = worker[w].path
    /\ worker'[w].name = worker[w].name
    /\ InSession(w)' = InSession(w)
    /\ Copying(w) \/ Copying(w)' => worker'[w].pc = worker[w].pc
    /\ worker'[w].pc \in {"open", "opening"} <=> worker[w].pc \in {"open", "opening"}

SameClient(c) ==
    /\ client'[c].code = client[c].code
    /\ client'[c].name = client[c].name
    /\ client'[c].pc \in Early => client[c].pc \in Early
    /\ session'[c].served = session[c].served

\* A step that moves no request.
Elsewhere ==
    /\ UNCHANGED <<register, buffer, incoming, queue>>
    /\ mishaps \subseteq mishaps'
    /\ mishaps' = {} => (main' \in {"copy", "enqueue"} => main' = main)
    /\ \A w \in Workers : SameWorker(w)
    /\ \A c \in Clients : SameClient(c)

\* A step that moves no request keeps the invariant.
LEMMA ElsewhereKeepsInv ==
    ASSUME IInv, Shape', mishaps' = {} => Elsewhere
    PROVE  IInv'
PROOF
<1>. SUFFICES ASSUME mishaps' = {}, Elsewhere PROVE InOnePlace'
  BY DEF IInv
<1>1. InOnePlace
  BY DEF IInv, Elsewhere
<1>2. \A c \in Clients :
        /\ Size(c)' = Size(c)
        /\ \A i : Cell(c, i)' = Cell(c, i)
  BY DEF Elsewhere, SameClient, Size, Cell
<1>3. Starts' = Starts
  BY DEF Elsewhere, Starts
<1>4. \A c \in Clients : InRegister(c)' = InRegister(c)
  BY <1>3 DEF Elsewhere, InRegister
<1>5. \A c \in Clients : \A i : RequestAt(i, c)' = RequestAt(i, c)
  BY <1>2, <1>3 DEF Elsewhere, RequestAt
<1>6. Framed'
  BY <1>1, <1>3, <1>5 DEF InOnePlace, Framed, Elsewhere
<1>7. Busy' = Busy
  BY DEF Busy, Elsewhere, SameWorker, Copying
<1>8. \A c \in Clients : Underway(c) => Underway(c)'
  BY <1>4 DEF Underway, Elsewhere, SameWorker, SameClient, InSession, path
<1>9. \A c \in Clients : InBuffer(c)' = InBuffer(c)
  BY <1>2 DEF InBuffer, Elsewhere
<1>10. \A c \in Clients, k \in 0 .. 2 : Arriving(c, k)' = Arriving(c, k)
  BY <1>2 DEF Arriving, Elsewhere
<1>11. Reading'
  BY <1>1, <1>7, <1>8, <1>9, <1>10 DEF InOnePlace, Reading, Elsewhere
<1>12. Serving'
  BY <1>1, <1>7, <1>8, <1>9 DEF InOnePlace, Serving, Elsewhere, SameWorker, Copying
<1>13. Sessions'
  BY <1>1, <1>4 DEF InOnePlace, Sessions, Elsewhere, SameWorker, SameClient, InSession, path
<1>14. Waiting'
  BY <1>1, <1>4 DEF InOnePlace, Waiting, Elsewhere, SameClient
<1>. QED
  BY <1>6, <1>11, <1>12, <1>13, <1>14 DEF InOnePlace

------------------------------------------------------------------------------
(* The main thread *)

\* Nothing about the sessions and the clients changes.
MainOnly == UNCHANGED <<worker, client, session>>

\* What a step of main leaves as it was.
LEMMA MainOnlyFacts ==
    ASSUME MainOnly
    PROVE  /\ \A c \in Clients :
                /\ Size(c)' = Size(c)
                /\ \A i : Cell(c, i)' = Cell(c, i)
                /\ (InRegister(c)' => InRegister(c)) /\ Underway(c) => Underway(c)'
           /\ \A w \in Workers : Copying(w)' = Copying(w)
           /\ (\A c \in Clients : InRegister(c)' => InRegister(c)) =>
                (Sessions => Sessions') /\ (Waiting => Waiting')
PROOF
<1>1. \A c \in Clients : Size(c)' = Size(c) /\ \A i : Cell(c, i)' = Cell(c, i)
  BY DEF MainOnly, Size, Cell
<1>2. \A w \in Workers : Copying(w)' = Copying(w) /\ InSession(w)' = InSession(w)
                          /\ path(w)' = path(w)
  BY DEF MainOnly, Copying, InSession, path
<1>3. \A c \in Clients : (InRegister(c)' => InRegister(c)) /\ Underway(c) => Underway(c)'
  BY <1>2 DEF MainOnly, Underway
<1>4. ASSUME \A c \in Clients : InRegister(c)' => InRegister(c)
      PROVE  (Sessions => Sessions') /\ (Waiting => Waiting')
  BY <1>2, <1>4 DEF MainOnly, Sessions, Waiting
<1>. QED
  BY <1>1, <1>2, <1>3, <1>4

\* Main reads the first request, and nobody has it any more in the pipe.
LEMMA ReadKeepsInv ==
    ASSUME IInv, BrokerRead, MainOnly
    PROVE  IInv'
PROOF
<1>1. PICK n :
        /\ n = IF Len(register) < 3 THEN Len(register) ELSE 3
        /\ incoming' = [i \in 1 .. n |-> <<i, SubSeq(register, 1, n)[i]>>]
        /\ register' = SubSeq(register, n + 1, Len(register))
        /\ mishaps' = IF SubSeq(register, 1, n) \in Requests
                      THEN mishaps ELSE mishaps \cup {"misread"}
  <2>1. Cardinality(BufferCells) = 3
    <3>1. Cardinality(1 .. 3) = IF 1 > 3 THEN 0 ELSE 3 - 1 + 1
      BY FS_Interval, 1 \in Int, 3 \in Int
    <3>. QED
      BY <3>1 DEF BufferCells
  <2>. QED
    BY <2>1 DEF BrokerRead, Read
<1>2. register # << >> /\ main' = "copy" /\ UNCHANGED <<buffer, queue>>
  BY DEF BrokerRead, Read, queueVars
<1>3. register \in Seq(Cells) /\ Shape
  BY DEF IInv, Shape
<1>4. n \in Nat /\ n <= Len(register) /\ (Len(register) < 3 => n = Len(register))
      /\ (Len(register) >= 3 => n = 3)
  BY <1>1, <1>3
<1>5. register' \in Seq(Cells)
  BY <1>1, <1>3, <1>4
<1>6. Shape'
  BY <1>2, <1>3, <1>5 DEF Shape, MainOnly
<1>. SUFFICES ASSUME mishaps' = {} PROVE InOnePlace'
  BY <1>6 DEF IInv
<1>7. mishaps = {} /\ SubSeq(register, 1, n) \in Requests
  BY <1>1
<1>8. InOnePlace
  BY <1>7 DEF IInv
<1>9. PICK c \in Clients : RequestAt(1, c) /\ n = Size(c)
  BY <1>2, <1>3, <1>4, <1>7, <1>8, TakenIsARequest DEF InOnePlace
<1>10. Framed' /\ InRegister(c) /\ ~ InRegister(c)'
       /\ \A d \in Clients : InRegister(d)' => InRegister(d)
  BY <1>1, <1>3, <1>8, <1>9, FramedWithoutFirst DEF InOnePlace, FirstIsTaken, MainOnly
<1>11. Underway(c)'
  BY <1>8, <1>10 DEF InOnePlace, Underway, Waiting, Sessions, MainOnly, InSession, path
<1>12. Serving'
  BY <1>2, <1>8, <1>10, MainOnlyFacts DEF InOnePlace, Serving, Busy, MainOnly, InBuffer
<1>13. /\ incoming' \in Seq(Nat \X Cells)
       /\ Len(incoming') = n
       /\ \A j \in 1 .. n : incoming'[j] = <<j, Cell(c, j)>>
  <2>1. \A j \in 1 .. n : SubSeq(register, 1, n)[j] = Cell(c, j) /\ Cell(c, j) \in Cells
    <3>. SUFFICES ASSUME NEW j \in 1 .. n
                  PROVE  SubSeq(register, 1, n)[j] = Cell(c, j) /\ Cell(c, j) \in Cells
      OBVIOUS
    <3>1. SubSeq(register, 1, n)[j] = register[j] /\ register[j] \in Cells
      BY <1>3, <1>4
    <3>2. register[1 + j - 1] = Cell(c, j) /\ 1 + j - 1 = j
      BY <1>9 DEF RequestAt
    <3>. QED
      BY <3>1, <3>2
  <2>2. incoming' = [j \in 1 .. n |-> <<j, Cell(c, j)>>]
    BY <1>1, <2>1
  <2>. QED
    BY <1>4, <2>1, <2>2
<1>14. Busy' => buffer'[2] # c
  <2>. SUFFICES ASSUME Busy' PROVE buffer'[2] # c
    OBVIOUS
  <2>1. PICK d \in Clients : InBuffer(d) /\ Underway(d)
    BY <1>2, <1>8, MainOnlyFacts DEF InOnePlace, Serving, Busy
  <2>2. 2 \in 1 .. Size(d)
    BY DEF Size
  <2>. QED
    BY <1>2, <1>10, <2>1, <2>2 DEF InBuffer, Underway, Cell
<1>15. Arriving(c, 0)'
  <2>1. Size(c)' = n /\ n \in {2, 3} /\ \A j : Cell(c, j)' = Cell(c, j)
    <3>1. Size(c) \in {2, 3}
      BY DEF Size
    <3>. QED
      BY <1>9, <3>1, MainOnlyFacts
  <2>2. n - 0 = n /\ 0 < n /\ \A j \in 1 .. n : 0 + j = j
    BY <2>1
  <2>3. \A j \in 1 .. n : incoming'[j] = <<0 + j, Cell(c, 0 + j)>>
    BY <1>13, <2>2
  <2>4. \A i \in 1 .. 0 : FALSE
    OBVIOUS
  <2>. QED
    BY <1>13, <2>1, <2>2, <2>3, <2>4 DEF Arriving
<1>16. Reading'
  BY <1>2, <1>11, <1>13, <1>14, <1>15 DEF Reading
<1>. QED
  BY <1>8, <1>10, <1>12, <1>16, MainOnlyFacts DEF InOnePlace

\* Main has a request that nobody else works on; a cell of it is copied.
LEMMA CopyKeepsInv ==
    ASSUME IInv, BrokerCopy, MainOnly
    PROVE  IInv'
PROOF
<1>1. /\ main = "copy" /\ UNCHANGED <<register, queue>>
      /\ buffer' = [buffer EXCEPT ![Head(incoming)[1]] = Head(incoming)[2]]
      /\ incoming' = Tail(incoming)
      /\ main' = IF Tail(incoming) = << >> THEN "enqueue" ELSE "copy"
      /\ mishaps' = IF Busy THEN mishaps \cup {"overrun"} ELSE mishaps
  BY DEF BrokerCopy, Main, queueVars, Busy
<1>2. Shape'
  BY <1>1 DEF IInv, Shape, MainOnly
<1>. SUFFICES ASSUME mishaps' = {} PROVE InOnePlace'
  BY <1>2 DEF IInv
<1>3. mishaps = {} /\ ~ Busy
  BY <1>1
<1>4. InOnePlace
  BY <1>3 DEF IInv
<1>5. ~ Busy'
  BY <1>1, <1>3, MainOnlyFacts DEF Busy
<1>6. PICK c \in Clients, k \in 0 .. 2 : Arriving(c, k) /\ Underway(c)
  BY <1>1, <1>4 DEF InOnePlace, Reading
<1>7. Starts' = Starts /\ \A d \in Clients : InRegister(d)' = InRegister(d)
  BY <1>1 DEF Starts, InRegister
<1>8. Underway(c)'
  BY <1>6, <1>7, MainOnlyFacts
<1>9. Framed'
  BY <1>1, <1>4, <1>7, MainOnlyFacts DEF InOnePlace, Framed, RequestAt
<1>10. Serving'
  BY <1>1, <1>4, <1>5 DEF InOnePlace, Serving, Busy
<1>11. Size(c) \in {2, 3} /\ k < Size(c) /\ Size(c)' = Size(c) /\ \A i : Cell(c, i)' = Cell(c, i)
  <2>1. k < Size(c)
    BY <1>6 DEF Arriving
  <2>. QED
    BY <2>1, MainOnlyFacts DEF Size
<1>12. /\ incoming \in Seq(Nat \X Cells) /\ Len(incoming) = Size(c) - k
       /\ incoming[1] = <<k + 1, Cell(c, k + 1)>>
  BY <1>1, <1>4, <1>6, <1>11 DEF InOnePlace, Reading, Arriving
<1>13. /\ incoming' \in Seq(Nat \X Cells) /\ Len(incoming') = Size(c) - (k + 1)
       /\ \A j \in 1 .. Size(c) - (k + 1) : incoming'[j] = incoming[j + 1]
       /\ buffer' = [buffer EXCEPT ![k + 1] = Cell(c, k + 1)]
  <2>. DEFINE rest == Tail(incoming)
  <2>1. Len(incoming) # 0 /\ Size(c) \in Nat /\ k \in Nat /\ Size(c) - (k + 1) = Size(c) - k - 1
    BY <1>11, <1>12
  <2>2. incoming # << >>
    BY <2>1, EmptySeq
  <2>3. /\ rest \in Seq(Nat \X Cells) /\ Len(rest) = Len(incoming) - 1
        /\ Head(incoming) = incoming[1]
        /\ \A j \in 1 .. Len(rest) : rest[j] = incoming[j + 1]
    BY <1>12, <2>2, HeadTailProperties
  <2>4. Head(incoming)[1] = k + 1 /\ Head(incoming)[2] = Cell(c, k + 1)
    BY <1>12, <2>3
  <2>5. incoming' = rest
    BY <1>1
  <2>. HIDE DEF rest
  <2>. QED
    BY <1>1, <1>12, <2>1, <2>3, <2>4, <2>5
<1>14. \A i \in 1 .. k + 1 : buffer'[i] = Cell(c, i)
  <2>1. \A i \in 1 .. k : buffer[i] = Cell(c, i)
    BY <1>6 DEF Arriving
  <2>2. k + 1 \in BufferCells /\ DOMAIN buffer = BufferCells
    BY DEF BufferCells, IInv, Shape
  <2>3. \A i \in 1 .. k + 1 : i \in BufferCells /\ (i = k + 1 \/ i \in 1 .. k)
    BY DEF BufferCells
  <2>. QED
    BY <1>13, <2>1, <2>2, <2>3
<1>15. CASE incoming' = << >>
  <2>1. Size(c) = k + 1 /\ main' = "enqueue"
    <3>1. Size(c) - (k + 1) = 0
      BY <1>13, <1>15, EmptySeq
    <3>2. main' = "enqueue"
      BY <1>1, <1>15
    <3>. QED
      BY <1>11, <3>1, <3>2
  <2>2. InBuffer(c)'
    BY <1>11, <1>14, <2>1 DEF InBuffer
  <2>. QED
    BY <1>4, <1>5, <1>7, <1>8, <1>9, <1>10, <2>1, <2>2, MainOnlyFacts DEF InOnePlace, Reading
<1>16. CASE incoming' # << >>
  <2>1. k + 1 < Size(c) /\ k + 1 \in 0 .. 2 /\ main' = "copy"
    <3>1. Size(c) - (k + 1) # 0
      BY <1>13, <1>16, EmptySeq
    <3>2. main' = "copy"
      BY <1>1, <1>16
    <3>. QED
      BY <1>11, <3>1, <3>2
  <2>2. \A j \in 1 .. Size(c) - (k + 1) : incoming'[j] = <<(k + 1) + j, Cell(c, (k + 1) + j)>>
    <3>. SUFFICES ASSUME NEW j \in 1 .. Size(c) - (k + 1)
                  PROVE  incoming'[j] = <<(k + 1) + j, Cell(c, (k + 1) + j)>>
      OBVIOUS
    <3>1. j + 1 \in 1 .. Size(c) - k /\ k + (j + 1) = (k + 1) + j
      BY <1>11
    <3>2. incoming[j + 1] = <<k + (j + 1), Cell(c, k + (j + 1))>>
      BY <1>6, <3>1 DEF Arriving
    <3>. QED
      BY <1>13, <3>1, <3>2
  <2>3. Arriving(c, k + 1)'
    BY <1>11, <1>13, <1>14, <2>1, <2>2 DEF Arriving
  <2>4. Reading'
    BY <1>5, <1>8, <1>13, <2>1, <2>3 DEF Reading
  <2>. QED
    BY <1>4, <1>7, <1>9, <1>10, <2>4, MainOnlyFacts DEF InOnePlace
<1>. QED
  BY <1>15, <1>16

\* The request that main has read is in the buffer when its address is enqueued.
LEMMA EnqueueKeepsInv ==
    ASSUME IInv, BrokerEnqueue, MainOnly
    PROVE  IInv'
PROOF
<1>1. /\ main = "enqueue" /\ main' = "test" /\ queue' = Append(queue, "buffer")
      /\ UNCHANGED <<register, buffer, incoming, mishaps>>
  BY DEF BrokerEnqueue, Main, Queue!Put
<1>2. Shape'
  BY <1>1 DEF IInv, Shape, MainOnly
<1>. SUFFICES ASSUME mishaps' = {} PROVE InOnePlace'
  BY <1>2 DEF IInv
<1>3. InOnePlace
  BY <1>1 DEF IInv
<1>4. PICK c \in Clients : ~ Busy /\ InBuffer(c) /\ Underway(c)
  BY <1>1, <1>3 DEF InOnePlace, Reading
<1>5. queue' = <<"buffer">>
  <2>1. queue = << >>
    BY <1>4 DEF Busy
  <2>. QED
    BY <1>1, <2>1
<1>6. Starts' = Starts /\ \A d \in Clients : InRegister(d)' = InRegister(d)
  BY <1>1 DEF Starts, InRegister
<1>7. Framed'
  BY <1>1, <1>3, <1>6, MainOnlyFacts DEF InOnePlace, Framed, RequestAt
<1>8. InBuffer(c)' /\ Underway(c)'
  BY <1>1, <1>4, <1>6, MainOnlyFacts DEF InBuffer
<1>9. Serving'
  BY <1>4, <1>5, <1>8, MainOnlyFacts DEF Serving, Busy
<1>10. Reading'
  BY <1>1 DEF Reading
<1>. QED
  BY <1>3, <1>6, <1>7, <1>9, <1>10, MainOnlyFacts DEF InOnePlace

\* The main thread's other steps move no request.
LEMMA MainKeepsInv ==
    ASSUME IInv, MainStep
    PROVE  IInv'
PROOF
<1>1. MainOnly
  BY DEF MainStep, BrokerStep, BrokerOpen, BrokerTest, BrokerRead, Read, BrokerCopy, BrokerEnqueue,
         BrokerUnlink, BrokerDestroy, BrokerReturn, clientVars, MainOnly
<1>2. CASE BrokerRead
  BY <1>1, <1>2, ReadKeepsInv
<1>3. CASE BrokerCopy
  BY <1>1, <1>3, CopyKeepsInv
<1>4. CASE BrokerEnqueue
  BY <1>1, <1>4, EnqueueKeepsInv
<1>5. CASE (\E opens \in BOOLEAN : BrokerOpen(opens)) \/ BrokerTest \/ BrokerUnlink
           \/ BrokerDestroy \/ BrokerReturn
  <2>1. UNCHANGED <<register, buffer, incoming, queue, mishaps>>
        /\ (main' \in {"copy", "enqueue"} => main' = main)
    BY <1>5 DEF BrokerOpen, BrokerTest, BrokerUnlink, BrokerDestroy, BrokerReturn, mainVars, queueVars
  <2>2. Shape'
    BY <1>1, <2>1 DEF IInv, Shape, MainOnly
  <2>3. Elsewhere
    BY <1>1, <2>1 DEF Elsewhere, MainOnly, SameWorker, SameClient, InSession, Copying
  <2>. QED
    BY <2>2, <2>3, ElsewhereKeepsInv
<1>. QED
  BY <1>2, <1>3, <1>4, <1>5 DEF MainStep, BrokerStep

------------------------------------------------------------------------------
(* The workers' copies *)

\* Only w and the queue change; w is in no session before.
CopyOnly(w) ==
    /\ UNCHANGED <<register, main, buffer, incoming, mishaps, client, session>>
    /\ \A v \in Workers \ {w} : worker'[v] = worker[v]
    /\ ~ InSession(w)

\* What a step of w's copying leaves as it was.
LEMMA CopyOnlyFacts ==
    ASSUME IInv, NEW w \in Workers, CopyOnly(w)
    PROVE  /\ \A c \in Clients :
                /\ Size(c)' = Size(c)
                /\ \A i : Cell(c, i)' = Cell(c, i)
                /\ InRegister(c)' = InRegister(c)
                /\ InBuffer(c)' = InBuffer(c)
                /\ \A k \in 0 .. 2 : Arriving(c, k)' = Arriving(c, k)
                /\ Underway(c) /\ (InSession(w)' => path(w)' # c) => Underway(c)'
           /\ \A v \in Workers \ {w} :
                /\ Copying(v)' = Copying(v)
                /\ InSession(v)' = InSession(v)
                /\ path(v)' = path(v)
           /\ Framed => Framed'
           /\ Waiting => Waiting'
           /\ ~ InSession(w)' /\ Sessions => Sessions'
PROOF
<1>1. \A c \in Clients : Size(c)' = Size(c) /\ \A i : Cell(c, i)' = Cell(c, i)
  BY DEF CopyOnly, Size, Cell
<1>2. Starts' = Starts /\ \A c \in Clients : InRegister(c)' = InRegister(c)
  BY DEF CopyOnly, Starts, InRegister
<1>3. \A c \in Clients : InBuffer(c)' = InBuffer(c)
  BY <1>1 DEF CopyOnly, InBuffer
<1>4. \A c \in Clients, k \in 0 .. 2 : Arriving(c, k)' = Arriving(c, k)
  BY <1>1 DEF CopyOnly, Arriving
<1>5. \A v \in Workers \ {w} : Copying(v)' = Copying(v) /\ InSession(v)' = InSession(v)
                               /\ path(v)' = path(v)
  BY DEF CopyOnly, Copying, InSession, path
<1>6. \A c \in Clients : Underway(c) /\ (InSession(w)' => path(w)' # c) => Underway(c)'
  BY <1>2, <1>5 DEF CopyOnly, Underway
<1>7. Framed => Framed'
  <2>1. \A c \in Clients : \A i : RequestAt(i, c)' = RequestAt(i, c)
    BY <1>1, <1>2 DEF CopyOnly, RequestAt
  <2>. QED
    BY <1>2, <2>1 DEF CopyOnly, Framed
<1>8. Waiting => Waiting'
  BY <1>2 DEF CopyOnly, Waiting
<1>9. ~ InSession(w)' /\ Sessions => Sessions'
  BY <1>2, <1>5 DEF CopyOnly, Sessions
<1>. QED
  BY <1>1, <1>2, <1>3, <1>4, <1>5, <1>6, <1>7, <1>8, <1>9

\* A worker takes the buffer's address: nobody else is at it.
LEMMA DequeueKeepsInv ==
    ASSUME IInv, NEW w \in Workers, WorkerDequeue(w), UNCHANGED clientVars
    PROVE  IInv'
PROOF
<1>1. /\ worker[w].pc = "dequeue" /\ queue # << >> /\ queue' = Tail(queue)
      /\ worker' = [worker EXCEPT ![w].pc = "code"]
      /\ UNCHANGED <<register, main, buffer, incoming, mishaps, client, session>>
  BY DEF WorkerDequeue, At, Queue!Take, mainVars, clientVars
<1>2. Shape'
  BY <1>1 DEF IInv, Shape, WorkerFields
<1>. SUFFICES ASSUME mishaps = {} PROVE InOnePlace'
  BY <1>1, <1>2 DEF IInv
<1>3. InOnePlace
  BY DEF IInv
<1>4. CopyOnly(w)
  BY <1>1 DEF CopyOnly, InSession, IInv, Shape
<1>5. worker'[w].pc = "code" /\ ~ InSession(w)' /\ Copying(w)'
  BY <1>1 DEF InSession, Copying, IInv, Shape, WorkerFields
<1>6. queue = <<"buffer">> /\ queue' = << >>
  <2>1. queue \in {<< >>, <<"buffer">>}
    BY <1>3, Zenon DEF InOnePlace, Serving
  <2>2. queue = <<"buffer">>
    BY <1>1, <2>1
  <2>. QED
    BY <1>1, <2>2
<1>7. \A v \in Workers : ~ Copying(v)
  BY <1>1, <1>3 DEF InOnePlace, Serving
<1>8. Busy /\ main # "enqueue"
  BY <1>1, <1>3 DEF Busy, InOnePlace, Reading
<1>9. PICK c \in Clients : InBuffer(c) /\ Underway(c)
  BY <1>3, <1>8 DEF InOnePlace, Serving
<1>10. Serving'
  BY <1>4, <1>5, <1>6, <1>7, <1>9, CopyOnlyFacts DEF Serving
<1>11. Reading'
  <2>1. CASE main = "copy"
    <3>1. PICK d \in Clients, k \in 0 .. 2 :
            Arriving(d, k) /\ Underway(d) /\ k = 0 /\ buffer[2] # d
      BY <1>3, <1>8, <2>1 DEF InOnePlace, Reading
    <3>2. Arriving(d, k)' /\ Underway(d)'
      BY <1>4, <1>5, <3>1, CopyOnlyFacts
    <3>. QED
      BY <1>1, <1>3, <2>1, <3>1, <3>2 DEF InOnePlace, Reading
  <2>. QED
    BY <1>1, <1>8, <2>1 DEF Reading
<1>. QED
  BY <1>3, <1>4, <1>5, <1>10, <1>11, CopyOnlyFacts DEF InOnePlace

\* Before and after a copy that is not the last one.
LEMMA CopyingKeepsInv ==
    ASSUME IInv, Shape', NEW w \in Workers, CopyOnly(w), UNCHANGED queue,
           Copying(w), Copying(w)',
           mishaps = {} =>
             /\ worker'[w].pc \in {"path", "name"} => worker'[w].code = buffer[1]
             /\ worker'[w].pc = "name" => worker'[w].code # LIST /\ worker'[w].path = buffer[2]
    PROVE  IInv'
PROOF
<1>. SUFFICES ASSUME mishaps = {} PROVE InOnePlace'
  BY DEF IInv, CopyOnly
<1>1. InOnePlace
  BY DEF IInv
<1>2. Busy /\ Busy' /\ ~ InSession(w)'
  BY DEF Busy, Copying, InSession
<1>3. \A c \in Clients : Underway(c) => Underway(c)'
  BY <1>2, CopyOnlyFacts
<1>4. UNCHANGED <<main, buffer, incoming>>
  BY DEF CopyOnly
<1>5. Serving'
  BY <1>1, <1>2, <1>3, <1>4, CopyOnlyFacts DEF InOnePlace, Serving
<1>6. Reading'
  BY <1>1, <1>2, <1>3, <1>4, CopyOnlyFacts DEF InOnePlace, Reading
<1>. QED
  BY <1>1, <1>2, <1>5, <1>6, CopyOnlyFacts DEF InOnePlace

\* The last copy of a request begins its session.
LEMMA CopiedKeepsInv ==
    ASSUME IInv, Shape', NEW w \in Workers, CopyOnly(w), UNCHANGED queue,
           Copying(w), worker'[w].pc = "open",
           mishaps = {} =>
             /\ worker'[w].code = buffer[1] /\ worker'[w].path = buffer[2]
             /\ buffer[1] # LIST => worker'[w].name = buffer[3]
    PROVE  IInv'
PROOF
<1>. SUFFICES ASSUME mishaps = {} PROVE InOnePlace'
  BY DEF IInv, CopyOnly
<1>1. InOnePlace
  BY DEF IInv
<1>2. Busy /\ queue = << >> /\ InSession(w)' /\ ~ Copying(w)'
  BY <1>1 DEF Busy, Copying, InSession, InOnePlace, Serving
<1>3. UNCHANGED <<main, buffer, incoming, client, session>>
  BY DEF CopyOnly
<1>4. PICK c \in Clients : InBuffer(c) /\ Underway(c)
  BY <1>1, <1>2 DEF InOnePlace, Serving
<1>5. /\ worker'[w].code = client[c].code /\ path(w)' = c
      /\ client[c].code # LIST => worker'[w].name = client[c].name
  <2>1. 1 \in 1 .. Size(c) /\ 2 \in 1 .. Size(c) /\ (client[c].code # LIST => 3 \in 1 .. Size(c))
    BY DEF Size
  <2>2. buffer[1] = Cell(c, 1) /\ buffer[2] = Cell(c, 2)
        /\ (client[c].code # LIST => buffer[3] = Cell(c, 3))
    BY <1>4, <2>1 DEF InBuffer
  <2>. QED
    BY <2>2 DEF Cell, path
<1>6. \A v \in Workers : ~ Copying(v)'
  BY <1>1, <1>2, CopyOnlyFacts DEF InOnePlace, Serving
<1>7. Serving' /\ ~ Busy'
  BY <1>2, <1>6 DEF Serving, Busy
<1>8. \A v \in Workers \ {w} : InSession(v)' => InSession(v) /\ path(v)' = path(v) /\ path(v) # c
  BY <1>4, CopyOnlyFacts DEF Underway
<1>9. Sessions'
  <2>1. \A d \in Clients : InRegister(d)' = InRegister(d)
    BY CopyOnlyFacts
  <2>2. \A v \in Workers \ {w} : worker'[v] = worker[v]
    BY DEF CopyOnly
  <2>3. c \in Clients /\ client[c].code \in Codes /\ client[c].pc \notin Early
        /\ ~ InRegister(c) /\ session[c].served = 0
    BY <1>4 DEF Underway
  <2>. QED
    BY <1>1, <1>3, <1>5, <1>8, <2>1, <2>2, <2>3 DEF InOnePlace, Sessions
<1>10. Reading'
  <2>1. CASE main = "copy"
    <3>1. PICK d \in Clients, k \in 0 .. 2 :
            Arriving(d, k) /\ Underway(d) /\ k = 0 /\ buffer[2] # d
      BY <1>1, <1>2, <2>1 DEF InOnePlace, Reading
    <3>2. buffer[2] = c
      <4>1. 2 \in 1 .. Size(c)
        BY DEF Size
      <4>. QED
        BY <1>4, <4>1 DEF InBuffer, Cell
    <3>3. Arriving(d, k)' /\ Underway(d)'
      BY <1>5, <3>1, <3>2, CopyOnlyFacts
    <3>. QED
      BY <1>1, <1>3, <1>7, <2>1, <3>3 DEF InOnePlace, Reading
  <2>2. main # "enqueue"
    BY <1>1, <1>2 DEF InOnePlace, Reading
  <2>. QED
    BY <1>3, <2>1, <2>2 DEF Reading
<1>. QED
  BY <1>1, <1>7, <1>9, <1>10, CopyOnlyFacts DEF InOnePlace

\* Each step of a worker up to its session.
LEMMA CopiesKeepInv ==
    ASSUME IInv, NEW w \in Workers, WorkerCopies(w), UNCHANGED clientVars
    PROVE  IInv'
PROOF
<1>1. CASE WorkerDequeue(w)
  BY <1>1, DequeueKeepsInv
<1>2. Shape
  BY DEF IInv
<1>3. ASSUME Copying(w), UNCHANGED <<register, mainVars, queueVars, mishaps>>,
             \A v \in Workers \ {w} : worker'[v] = worker[v]
      PROVE  CopyOnly(w) /\ UNCHANGED queue
  BY <1>3 DEF CopyOnly, Copying, InSession, mainVars, queueVars, clientVars
<1>4. ASSUME Copying(w), mishaps = {}
      PROVE  /\ buffer[1] \in Codes
             /\ worker[w].pc \in {"path", "name"} => worker[w].code = buffer[1]
             /\ worker[w].pc = "name" => worker[w].code # LIST /\ worker[w].path = buffer[2]
  <2>1. InOnePlace /\ Busy
    BY <1>4 DEF IInv, Busy
  <2>2. PICK c \in Clients : InBuffer(c) /\ Underway(c)
    BY <2>1 DEF InOnePlace, Serving
  <2>3. buffer[1] = client[c].code
    BY <2>2 DEF InBuffer, Size, Cell
  <2>. QED
    BY <1>4, <2>1, <2>2, <2>3 DEF InOnePlace, Serving, Underway
<1>5. CASE CopyCode(w)
  <2>1. /\ worker[w].pc = "code" /\ Copying(w)
        /\ worker' = [worker EXCEPT ![w].pc = IF buffer[1] \in Codes THEN "path" ELSE "dequeue",
                                    ![w].code = buffer[1]]
        /\ UNCHANGED <<register, mainVars, queueVars, mishaps, client, session>>
    BY <1>5 DEF CopyCode, At, Copying, clientVars
  <2>2. Shape'
    BY <1>2, <2>1 DEF Shape, WorkerFields, mainVars
  <2>3. CopyOnly(w) /\ UNCHANGED queue
    BY <1>2, <1>3, <2>1 DEF Shape
  <2>4. worker'[w].pc = (IF buffer[1] \in Codes THEN "path" ELSE "dequeue")
        /\ worker'[w].code = buffer[1]
    BY <1>2, <2>1 DEF Shape, WorkerFields
  <2>5. CASE buffer[1] \in Codes
    <3>1. worker'[w].pc = "path" /\ Copying(w)'
      BY <2>4, <2>5 DEF Copying
    <3>2. worker'[w].pc # "name"
      BY <3>1
    <3>. QED
      BY <2>1, <2>2, <2>3, <2>4, <3>1, <3>2, CopyingKeepsInv
  <2>6. CASE buffer[1] \notin Codes
    BY <1>4, <2>1, <2>2, <2>6 DEF IInv
  <2>. QED
    BY <2>5, <2>6
<1>6. CASE CopyPath(w)
  <2>1. /\ worker[w].pc = "path" /\ Copying(w)
        /\ worker' = [worker EXCEPT ![w].pc = IF worker[w].code = LIST THEN "open" ELSE "name",
                                    ![w].path = buffer[2]]
        /\ UNCHANGED <<register, mainVars, queueVars, mishaps, client, session>>
    BY <1>6 DEF CopyPath, At, Copying, clientVars
  <2>2. Shape'
    BY <1>2, <2>1 DEF Shape, WorkerFields, mainVars
  <2>3. CopyOnly(w) /\ UNCHANGED queue
    BY <1>2, <1>3, <2>1 DEF Shape
  <2>4. worker'[w].pc = (IF worker[w].code = LIST THEN "open" ELSE "name")
        /\ worker'[w].code = worker[w].code /\ worker'[w].path = buffer[2]
    BY <1>2, <2>1 DEF Shape, WorkerFields
  <2>5. CASE worker[w].code = LIST
    BY <1>4, <2>1, <2>2, <2>3, <2>4, <2>5, CopiedKeepsInv
  <2>6. CASE worker[w].code # LIST
    BY <1>4, <2>1, <2>2, <2>3, <2>4, <2>6, CopyingKeepsInv DEF Copying
  <2>. QED
    BY <2>5, <2>6
<1>7. CASE CopyName(w)
  <2>1. /\ worker[w].pc = "name" /\ Copying(w)
        /\ worker' = [worker EXCEPT ![w].pc = "open", ![w].name = buffer[3]]
        /\ UNCHANGED <<register, mainVars, queueVars, mishaps, client, session>>
    BY <1>7 DEF CopyName, At, Copying, clientVars
  <2>2. Shape'
    BY <1>2, <2>1 DEF Shape, WorkerFields, mainVars
  <2>3. CopyOnly(w) /\ UNCHANGED queue
    BY <1>2, <1>3, <2>1 DEF Shape
  <2>4. worker'[w].pc = "open" /\ worker'[w].name = buffer[3]
        /\ worker'[w].code = worker[w].code /\ worker'[w].path = worker[w].path
    BY <1>2, <2>1 DEF Shape, WorkerFields
  <2>. QED
    BY <1>4, <2>1, <2>2, <2>3, <2>4, CopiedKeepsInv
<1>. QED
  BY <1>1, <1>5, <1>6, <1>7 DEF WorkerCopies

------------------------------------------------------------------------------
(* The sessions *)

ServedTheSame ==
    /\ DOMAIN session' = Clients
    /\ \A c \in Clients :
        DOMAIN session'[c] = SessionFields /\ session'[c].served = session[c].served

\* A worker goes from one place of its session to another.
GoesOn(w) ==
    \/ worker' = worker
    \/ \E label :
        /\ WorkerGoesOn(w, label)
        /\ mishaps = {} =>
            /\ InSession(w)
            /\ label \notin {"dequeue", "code", "path", "name"}
            /\ label \in {"open", "opening"} <=> worker[w].pc \in {"open", "opening"}

\* A step inside a session moves no request.
LEMMA GoesOnKeepsInv ==
    ASSUME IInv, NEW w \in Workers, UnchangedByWorkers, GoesOn(w), ServedTheSame
    PROVE  IInv'
PROOF
<1>1. Shape
  BY DEF IInv
<1>2. UNCHANGED <<register, main, buffer, incoming, queue, mishaps, client>>
  BY DEF UnchangedByWorkers, mainVars, queueVars
<1>3. DOMAIN worker' = Workers /\ \A v \in Workers : DOMAIN worker'[v] = WorkerFields
  BY <1>1 DEF Shape, GoesOn, WorkerGoesOn, WorkerFields
<1>4. Shape'
  BY <1>1, <1>2, <1>3 DEF Shape, ServedTheSame
<1>5. ASSUME mishaps = {} PROVE \A v \in Workers : SameWorker(v)
  <2>1. CASE worker' = worker
    BY <2>1 DEF SameWorker, InSession, Copying
  <2>2. ASSUME NEW label, WorkerGoesOn(w, label), InSession(w),
               label \notin {"dequeue", "code", "path", "name"},
               label \in {"open", "opening"} <=> worker[w].pc \in {"open", "opening"}
        PROVE  \A v \in Workers : SameWorker(v)
    <3>1. \A v \in Workers \ {w} : worker'[v] = worker[v]
      BY <1>1, <2>2 DEF Shape, WorkerGoesOn
    <3>2. worker'[w].pc = label /\ worker'[w].code = worker[w].code
          /\ worker'[w].path = worker[w].path /\ worker'[w].name = worker[w].name
      BY <1>1, <2>2 DEF Shape, WorkerGoesOn, WorkerFields
    <3>3. SameWorker(w)
      BY <2>2, <3>2 DEF SameWorker, InSession, Copying
    <3>4. \A v \in Workers \ {w} : SameWorker(v)
      BY <3>1 DEF SameWorker, InSession, Copying
    <3>. QED
      BY <3>3, <3>4
  <2>. QED
    BY <1>5, <2>1, <2>2 DEF GoesOn
<1>6. mishaps' = {} => Elsewhere
  BY <1>2, <1>5 DEF Elsewhere, SameClient, ServedTheSame
<1>. QED
  BY <1>4, <1>6, ElsewhereKeepsInv

\* The client is served when its pipe is open at both ends.
LEMMA PipeOpenedKeepsInv ==
    ASSUME IInv, NEW w \in Workers, PipeOpenedToWorker(w)
    PROVE  IInv'
PROOF
<1>1. /\ worker[w].pc = "opening" /\ worker' = [worker EXCEPT ![w].pc = "decide"]
      /\ session' = [session EXCEPT ![path(w)].served = @ + 1]
      /\ UNCHANGED <<register, main, buffer, incoming, queue, mishaps, client>>
  BY DEF PipeOpenedToWorker, At, WorkerGoesOn, UnchangedByWorkers, mainVars, queueVars
<1>2. Shape
  BY DEF IInv
<1>3. Shape'
  BY <1>1, <1>2 DEF Shape, WorkerFields, SessionFields
<1>. SUFFICES ASSUME mishaps = {} PROVE InOnePlace'
  BY <1>1, <1>3 DEF IInv
<1>4. InOnePlace
  BY DEF IInv
<1>5. /\ \A v \in Workers \ {w} : worker'[v] = worker[v]
      /\ worker'[w].pc = "decide" /\ worker'[w].code = worker[w].code
      /\ worker'[w].path = worker[w].path /\ worker'[w].name = worker[w].name
  BY <1>1, <1>2 DEF Shape, WorkerFields
<1>6. \A v \in Workers : InSession(v)' = InSession(v) /\ Copying(v)' = Copying(v) /\ path(v)' = path(v)
                         /\ (Copying(v) => v # w)
  BY <1>1, <1>5 DEF InSession, Copying, path
<1>7. /\ path(w) \in Clients /\ session[path(w)].served = 0 /\ client[path(w)].pc \notin Early
      /\ ~ InRegister(path(w)) /\ InSession(w)
  BY <1>1, <1>4 DEF InOnePlace, Sessions, InSession
<1>8. /\ session'[path(w)].served = 1
      /\ \A c \in Clients \ {path(w)} : session'[c].served = session[c].served
  BY <1>1, <1>2, <1>7 DEF Shape, SessionFields
<1>9. \A c \in Clients : Size(c)' = Size(c) /\ \A i : Cell(c, i)' = Cell(c, i)
  BY <1>1 DEF Size, Cell
<1>10. Starts' = Starts /\ \A c \in Clients : InRegister(c)' = InRegister(c)
  BY <1>1 DEF Starts, InRegister
<1>11. \A c \in Clients : Underway(c) => Underway(c)'
  BY <1>1, <1>6, <1>7, <1>8, <1>10 DEF Underway
<1>12. Framed'
  <2>1. \A c \in Clients : \A i : RequestAt(i, c)' = RequestAt(i, c)
    BY <1>1, <1>9, <1>10 DEF RequestAt
  <2>. QED
    BY <1>1, <1>4, <1>10, <2>1 DEF InOnePlace, Framed
<1>13. /\ Busy' = Busy
       /\ \A c \in Clients : InBuffer(c)' = InBuffer(c)
       /\ \A c \in Clients, k \in 0 .. 2 : Arriving(c, k)' = Arriving(c, k)
  BY <1>1, <1>6, <1>9 DEF Busy, InBuffer, Arriving
<1>14. Reading'
  BY <1>1, <1>4, <1>11, <1>13 DEF InOnePlace, Reading
<1>15. Serving'
  BY <1>1, <1>4, <1>5, <1>6, <1>11, <1>13 DEF InOnePlace, Serving
<1>16. Sessions'
  <2>1. \A v \in Workers \ {w} : InSession(v) => path(v) # path(w)
    BY <1>4, <1>7 DEF InOnePlace, Sessions
  <2>. QED
    BY <1>1, <1>4, <1>5, <1>6, <1>7, <1>8, <1>10, <2>1 DEF InOnePlace, Sessions
<1>17. Waiting'
  BY <1>1, <1>4, <1>7, <1>8, <1>10 DEF InOnePlace, Waiting
<1>. QED
  BY <1>12, <1>14, <1>15, <1>16, <1>17 DEF InOnePlace

\* A session less.
LEMMA ClosesKeepsInv ==
    ASSUME IInv, NEW w \in Workers, WorkerCloses(w)
    PROVE  IInv'
PROOF
<1>1. /\ worker[w].pc = "close"
      /\ worker' = [worker EXCEPT ![w] = [pc |-> "dequeue", code |-> Unset,
                                         path |-> Unset, name |-> Unset]]
      /\ UNCHANGED <<register, main, buffer, incoming, queue, mishaps, client, session>>
  BY DEF WorkerCloses, At, UnchangedByWorkers, mainVars, queueVars
<1>2. Shape
  BY DEF IInv
<1>3. Shape'
  BY <1>1, <1>2 DEF Shape, WorkerFields
<1>. SUFFICES ASSUME mishaps = {} PROVE InOnePlace'
  BY <1>1, <1>3 DEF IInv
<1>4. InOnePlace
  BY DEF IInv
<1>5. /\ \A v \in Workers \ {w} : worker'[v] = worker[v]
      /\ worker'[w].pc = "dequeue"
  BY <1>1, <1>2 DEF Shape
<1>6. /\ \A v \in Workers : Copying(v)' = Copying(v) /\ (Copying(v) => v # w)
      /\ \A v \in Workers : InSession(v)' => InSession(v) /\ v # w /\ path(v)' = path(v)
  BY <1>1, <1>5 DEF InSession, Copying, path
<1>7. \A c \in Clients : Size(c)' = Size(c) /\ \A i : Cell(c, i)' = Cell(c, i)
  BY <1>1 DEF Size, Cell
<1>8. Starts' = Starts /\ \A c \in Clients : InRegister(c)' = InRegister(c)
  BY <1>1 DEF Starts, InRegister
<1>9. \A c \in Clients : Underway(c) => Underway(c)'
  BY <1>1, <1>6, <1>8 DEF Underway
<1>10. Framed'
  <2>1. \A c \in Clients : \A i : RequestAt(i, c)' = RequestAt(i, c)
    BY <1>1, <1>7, <1>8 DEF RequestAt
  <2>. QED
    BY <1>1, <1>4, <1>8, <2>1 DEF InOnePlace, Framed
<1>11. /\ Busy' = Busy
       /\ \A c \in Clients : InBuffer(c)' = InBuffer(c)
       /\ \A c \in Clients, k \in 0 .. 2 : Arriving(c, k)' = Arriving(c, k)
  BY <1>1, <1>6, <1>7 DEF Busy, InBuffer, Arriving
<1>12. Reading'
  BY <1>1, <1>4, <1>9, <1>11 DEF InOnePlace, Reading
<1>13. Serving'
  BY <1>1, <1>4, <1>5, <1>6, <1>9, <1>11 DEF InOnePlace, Serving
<1>14. Sessions'
  BY <1>1, <1>4, <1>5, <1>6, <1>8 DEF InOnePlace, Sessions
<1>15. Waiting'
  BY <1>1, <1>4, <1>8 DEF InOnePlace, Waiting
<1>. QED
  BY <1>10, <1>12, <1>13, <1>14, <1>15 DEF InOnePlace

\* Each step of a session.
LEMMA SessionKeepsInv ==
    ASSUME IInv, NEW w \in Workers, SessionStep(w)
    PROVE  IInv'
PROOF
<1>1. Shape /\ (mishaps = {} => Sessions)
  BY DEF IInv, InOnePlace
<1>2. ASSUME UNCHANGED session PROVE ServedTheSame
  BY <1>1, <1>2 DEF Shape, ServedTheSame
<1>3. ASSUME NEW x, NEW c,
             \/ session' = [session EXCEPT ![c].granted = x]
             \/ session' = [session EXCEPT ![c].joined = x]
      PROVE  ServedTheSame
  BY <1>1, <1>3 DEF Shape, ServedTheSame, SessionFields
<1>4. ASSUME NEW c, NEW text, Received(c, text) \/ WasWritten(c, text) PROVE ServedTheSame
  <2>1. CASE Received(c, text)
    BY <1>1, <2>1 DEF Shape, ServedTheSame, SessionFields, Received
  <2>2. CASE WasWritten(c, text)
    BY <1>1, <2>2 DEF Shape, ServedTheSame, SessionFields, WasWritten
  <2>. QED
    BY <1>4, <2>1, <2>2
<1>5. ASSUME UNCHANGED worker PROVE GoesOn(w)
  BY <1>5 DEF GoesOn
<1>. DEFINE Labels == {"decide", "close", "p_test", "p_next", "s_test", "s_read", "s_replay",
                       "s_wait", "s_push", "m_respond", "l_respond"}
<1>6. ASSUME NEW label \in Labels, WorkerGoesOn(w, label), worker[w].pc \in Labels
      PROVE  GoesOn(w)
  BY <1>6 DEF GoesOn, InSession
<1>7. \A label : At(w, label) => worker[w].pc = label
  BY DEF At
<1>8. CASE WorkerOpens(w)
  <2>1. worker[w].pc = "open" /\ (UNCHANGED worker \/ WorkerGoesOn(w, "opening"))
    BY <1>7, <1>8 DEF WorkerOpens
  <2>2. GoesOn(w)
    BY <2>1 DEF GoesOn, InSession
  <2>. QED
    BY <1>2, <1>8, <2>2, GoesOnKeepsInv DEF WorkerOpens
<1>9. CASE WorkerDecides(w)
  <2>1. worker[w].pc = "decide"
    BY <1>7, <1>9 DEF WorkerDecides
  <2>2. mishaps = {} => worker[w].code \in Codes
    BY <1>1, <2>1 DEF Sessions, InSession
  <2>3. worker[w].code \in Codes => Granted(worker[w].code) \in Labels
    BY DEF Granted, Codes, BoxCodes, PUBLISH, SUBSCRIBE, CREATE, REMOVE, LIST
  <2>4. ASSUME WorkerGoesOn(w, Granted(worker[w].code)) PROVE GoesOn(w)
    <3>. DEFINE label == Granted(worker[w].code)
    <3>1. WorkerGoesOn(w, label) /\ (mishaps = {} => label \in Labels)
      BY <2>2, <2>3, <2>4
    <3>. HIDE DEF label
    <3>. QED
      BY <2>1, <3>1 DEF GoesOn, InSession
  <2>5. GoesOn(w)
    <3>1. \/ UNCHANGED worker \/ WorkerGoesOn(w, Granted(worker[w].code))
          \/ WorkerGoesOn(w, "m_respond") \/ WorkerGoesOn(w, "close")
      BY <1>9 DEF WorkerDecides
    <3>. QED
      BY <1>5, <1>6, <2>1, <2>4, <3>1
  <2>6. ServedTheSame
    BY <1>2, <1>3, <1>9 DEF WorkerDecides
  <2>. QED
    BY <1>9, <2>5, <2>6, GoesOnKeepsInv DEF WorkerDecides
<1>10. CASE WorkerReadsTest(w)
  <2>1. worker[w].pc = "p_test" /\ WorkerGoesOn(w, "p_next")
    BY <1>7, <1>10 DEF WorkerReadsTest
  <2>2. GoesOn(w) /\ ServedTheSame
    BY <1>3, <1>6, <1>10, <2>1 DEF WorkerReadsTest
  <2>. QED
    BY <1>10, <2>2, GoesOnKeepsInv DEF WorkerReadsTest
<1>11. CASE WorkerStores(w)
  <2>1. worker[w].pc = "p_next" /\ (UNCHANGED worker \/ WorkerGoesOn(w, "close"))
    BY <1>7, <1>11 DEF WorkerStores
  <2>2. GoesOn(w) /\ ServedTheSame
    BY <1>2, <1>4, <1>5, <1>6, <1>11, <2>1 DEF WorkerStores
  <2>. QED
    BY <1>11, <2>2, GoesOnKeepsInv DEF WorkerStores
<1>12. ASSUME NEW cells, NEW sent \in Labels, NEW failed \in Labels,
              WorkerWrites(w, cells, sent, failed), worker[w].pc \in Labels
       PROVE  GoesOn(w)
  <2>1. UNCHANGED worker \/ WorkerGoesOn(w, sent) \/ WorkerGoesOn(w, failed)
    BY <1>12 DEF WorkerWrites
  <2>. QED
    BY <1>5, <1>6, <1>12, <2>1
<1>13. CASE WorkerSendsTest(w)
  <2>1. worker[w].pc = "s_test" /\ WorkerWrites(w, SubscriberTest, "s_read", "s_read")
    BY <1>7, <1>13 DEF WorkerSendsTest
  <2>2. GoesOn(w) /\ ServedTheSame
    BY <1>2, <1>12, <1>13, <2>1 DEF WorkerSendsTest
  <2>. QED
    BY <1>13, <2>2, GoesOnKeepsInv DEF WorkerSendsTest
<1>14. CASE WorkerSends(w)
  <2>1. worker[w].pc \in {"s_replay", "s_push"}
    BY <1>7, <1>14 DEF WorkerSends
  <2>2. WorkerWrites(w, Message("10", Head(left[path(w)])),
                     IF worker[w].pc = "s_push" THEN "s_wait" ELSE "s_replay",
                     IF worker[w].pc = "s_push" THEN "close" ELSE "s_replay")
    BY <1>14 DEF WorkerSends
  <2>3. /\ worker[w].pc \in Labels
        /\ (IF worker[w].pc = "s_push" THEN "s_wait" ELSE "s_replay") \in Labels
        /\ (IF worker[w].pc = "s_push" THEN "close" ELSE "s_replay") \in Labels
    BY <2>1
  <2>4. GoesOn(w) /\ ServedTheSame
    BY <1>4, <1>12, <1>14, <2>2, <2>3 DEF WorkerSends
  <2>. QED
    BY <1>14, <2>4, GoesOnKeepsInv DEF WorkerSends
<1>15. CASE WorkerReplayed(w)
  <2>1. worker[w].pc = "s_replay" /\ WorkerGoesOn(w, "s_wait")
    BY <1>7, <1>15 DEF WorkerReplayed
  <2>2. GoesOn(w) /\ ServedTheSame
    BY <1>2, <1>6, <1>15, <2>1 DEF WorkerReplayed
  <2>. QED
    BY <1>15, <2>2, GoesOnKeepsInv DEF WorkerReplayed
<1>19. ASSUME NEW label \in Labels, WorkerReads(w, label), worker[w].pc \in Labels
       PROVE  GoesOn(w) /\ ServedTheSame /\ UnchangedByWorkers
  BY <1>2, <1>5, <1>6, <1>19 DEF WorkerReads
<1>20. CASE WorkerReadsBox(w)
  <2>1. worker[w].pc = "s_read" /\ WorkerReads(w, "s_replay")
    BY <1>7, <1>20 DEF WorkerReadsBox
  <2>. QED
    BY <1>19, <2>1, GoesOnKeepsInv
<1>21. CASE WorkerWaits(w)
  <2>1. worker[w].pc = "s_wait" /\ WorkerReads(w, "s_push")
    BY <1>7, <1>21 DEF WorkerWaits
  <2>. QED
    BY <1>19, <2>1, GoesOnKeepsInv
<1>16. ASSUME NEW cells, NEW label \in Labels, NEW text,
              Responds(w, cells, label, text), worker[w].pc \in Labels
       PROVE  GoesOn(w) /\ ServedTheSame /\ UnchangedByWorkers
  BY <1>2, <1>4, <1>5, <1>6, <1>16 DEF Responds
<1>17. CASE WorkerResponds(w)
  <2>1. worker[w].pc = "m_respond" /\ \E cells, text : Responds(w, cells, "close", text)
    BY <1>7, <1>17 DEF WorkerResponds
  <2>. QED
    BY <1>16, <2>1, GoesOnKeepsInv
<1>18. CASE WorkerLists(w)
  <2>1. worker[w].pc = "l_respond"
    BY <1>7, <1>18 DEF WorkerLists
  <2>2. CASE \E cells, text : Responds(w, cells, "l_respond", text)
    BY <1>16, <2>1, <2>2, GoesOnKeepsInv
  <2>3. CASE WorkerGoesOn(w, "close") /\ UnchangedByWorkers /\ UNCHANGED session
    BY <1>2, <1>6, <2>1, <2>3, GoesOnKeepsInv
  <2>. QED
    BY <1>18, <2>2, <2>3 DEF WorkerLists
<1>. QED
  BY <1>8, <1>9, <1>10, <1>11, <1>13, <1>14, <1>15, <1>17, <1>18, <1>20, <1>21,
     PipeOpenedKeepsInv, ClosesKeepsInv
  DEF SessionStep

------------------------------------------------------------------------------
(* The clients *)

\* Clients go on, and their requests stay what they were.
ClientsGoOn ==
    /\ DOMAIN client' = Clients
    /\ \A c \in Clients :
        /\ DOMAIN client'[c] = ClientFields
        /\ client'[c].code = client[c].code
        /\ client'[c].name = client[c].name
        /\ client'[c].pc \in Early => client[c].pc \in Early
        /\ client'[c].pc # "done" => client[c].pc # "done"

\* A client's step that leaves the register pipe alone moves no request.
LEMMA ClientsGoOnKeepsInv ==
    ASSUME IInv, UNCHANGED registrationVars, ClientsGoOn, ServedTheSame
    PROVE  IInv'
PROOF
<1>1. UNCHANGED <<register, main, buffer, incoming, queue, worker, mishaps>>
  BY DEF registrationVars, mainVars, queueVars
<1>2. Shape'
  BY <1>1 DEF IInv, Shape, ClientsGoOn, ServedTheSame
<1>3. Elsewhere
  BY <1>1 DEF Elsewhere, SameWorker, SameClient, InSession, Copying, ClientsGoOn, ServedTheSame
<1>. QED
  BY <1>2, <1>3, ElsewhereKeepsInv

\* The request goes to the register pipe, behind those that are there.
LEMMA SendKeepsInv ==
    ASSUME IInv, NEW c \in Clients, client[c].pc = "send",
           register' = register \o Request(client[c].code, c, client[c].name),
           client' = [client EXCEPT ![c].pc = "open"],
           UNCHANGED <<main, buffer, incoming, queue, worker, mishaps, session>>
    PROVE  IInv'
PROOF
<1>1. Shape /\ client[c].code \in Codes
  BY DEF IInv, Shape
<1>2. RequestIsAdded(c) /\ SameRequests
  BY <1>1 DEF RequestIsAdded, SameRequests, Shape, ClientFields
<1>3. register' \in Seq(Cells)
  <2>1. register \in Seq(Cells) /\ Request(client[c].code, c, client[c].name) \in Seq(Cells)
    BY <1>1, RequestCells DEF Shape
  <2>. QED
    BY <2>1, ConcatProperties
<1>4. Shape'
  BY <1>1, <1>3 DEF Shape, ClientFields
<1>. SUFFICES ASSUME mishaps = {} PROVE InOnePlace'
  BY <1>4 DEF IInv
<1>5. InOnePlace
  BY DEF IInv
<1>6. session[c].served = 0 /\ ~ InRegister(c)
  BY <1>5 DEF InOnePlace, Waiting, Early
<1>7. Framed' /\ \A d \in Clients : InRegister(d)' => d = c \/ InRegister(d)
  BY <1>1, <1>2, <1>5, <1>6, FramedWithOneMore DEF InOnePlace
<1>8. \A d \in Clients :
        /\ client'[d].pc \in Early => client[d].pc \in Early /\ d # c
        /\ client[d].pc \notin Early => client'[d].pc \notin Early /\ d # c
  BY <1>1 DEF Shape, ClientFields, Early
<1>9. \A d \in Clients : Size(d)' = Size(d) /\ \A i : Cell(d, i)' = Cell(d, i)
  BY <1>2 DEF SameRequests, Size, Cell
<1>10. \A w \in Workers : InSession(w)' = InSession(w) /\ Copying(w)' = Copying(w) /\ path(w)' = path(w)
  BY DEF InSession, Copying, path
<1>11. \A d \in Clients : Underway(d) => Underway(d)'
  BY <1>2, <1>7, <1>8, <1>10 DEF Underway, SameRequests
<1>12. /\ Busy' = Busy
       /\ \A d \in Clients : InBuffer(d)' = InBuffer(d)
       /\ \A d \in Clients, k \in 0 .. 2 : Arriving(d, k)' = Arriving(d, k)
  BY <1>9, <1>10 DEF Busy, InBuffer, Arriving
<1>13. Reading'
  BY <1>5, <1>11, <1>12 DEF InOnePlace, Reading
<1>14. Serving'
  BY <1>5, <1>10, <1>11, <1>12 DEF InOnePlace, Serving
<1>15. Sessions'
  BY <1>2, <1>5, <1>7, <1>8, <1>10 DEF InOnePlace, Sessions, SameRequests
<1>16. Waiting'
  BY <1>1, <1>2, <1>5, <1>6, <1>7, <1>8 DEF InOnePlace, Waiting, SameRequests
<1>. QED
  BY <1>7, <1>13, <1>14, <1>15, <1>16 DEF InOnePlace

Notes(c, label, x) == client' = [client EXCEPT ![c].pc = label, ![c].end = x]

\* The other steps of clients, SIGINT included, touch no request.
LEMMA ClientKeepsInv ==
    ASSUME IInv, NEW c \in Clients,
           ClientStep(c) \/ PublisherReadsLine(c) \/ ClientSigint(c)
    PROVE  IInv'
PROOF
<1>1. Shape
  BY DEF IInv
<1>2. ASSUME UNCHANGED session PROVE ServedTheSame
  BY <1>1, <1>2 DEF Shape, ServedTheSame
<1>3. ASSUME NEW x,
             \/ session' = [session EXCEPT ![c].early = x]
             \/ session' = [session EXCEPT ![c].joined = x]
      PROVE  ServedTheSame
  BY <1>1, <1>3 DEF Shape, ServedTheSame, SessionFields
<1>4. ASSUME NEW text, Received(c, text) \/ WasWritten(c, text) PROVE ServedTheSame
  <2>1. CASE Received(c, text)
    BY <1>1, <2>1 DEF Shape, ServedTheSame, SessionFields, Received
  <2>2. CASE WasWritten(c, text)
    BY <1>1, <2>2 DEF Shape, ServedTheSame, SessionFields, WasWritten
  <2>. QED
    BY <1>4, <2>1, <2>2
<1>5. ASSUME NEW label, label \in Early => client[c].pc \in Early, client[c].pc # "done",
             \/ client' = [client EXCEPT ![c].pc = label]
             \/ \E x : client' = [client EXCEPT ![c].pc = label, ![c].data = x]
      PROVE  ClientsGoOn
  BY <1>1, <1>5 DEF Shape, ClientsGoOn, ClientFields, Early
<1>noted. ASSUME NEW label, label \in Early => client[c].pc \in Early, client[c].pc # "done",
                 NEW x, Notes(c, label, x)
          PROVE  ClientsGoOn
  BY <1>1, <1>noted DEF Notes, Shape, ClientsGoOn, ClientFields, Early
<1>6. ASSUME NEW label, label \notin Early, client[c].pc # "done", GoOn(c, label)
      PROVE  ClientsGoOn
  BY <1>5, <1>6 DEF GoOn
<1>7. ASSUME client[c].pc # "done", Dies(c) PROVE ClientsGoOn
  BY <1>6, <1>7 DEF Dies, Early
<1>8. \A label : Client(c, label) => client[c].pc = label
  BY DEF Client
<1>9. CASE OpenRegister(c)
  <2>1. client[c].pc = "start" /\ (GoOn(c, "send") \/ GoOn(c, "failed"))
    BY <1>8, <1>9 DEF OpenRegister
  <2>2. ClientsGoOn
    BY <1>5, <2>1 DEF GoOn, Early
  <2>. QED
    BY <1>2, <1>9, <2>2, ClientsGoOnKeepsInv DEF OpenRegister
<1>10. CASE SendRequest(c)
  <2>1. client[c].pc = "send" /\ UNCHANGED session
    BY <1>8, <1>10 DEF SendRequest
  <2>2. CASE WriteRegister(Request(client[c].code, c, client[c].name)) /\ GoOn(c, "open")
    BY <2>1, <2>2, SendKeepsInv DEF WriteRegister, GoOn, mainVars, queueVars
  <2>3. CASE GoOn(c, "failed") /\ UNCHANGED registrationVars
    <3>1. ClientsGoOn
      BY <1>6, <2>1, <2>3 DEF Early
    <3>. QED
      BY <1>2, <2>1, <2>3, <3>1, ClientsGoOnKeepsInv
  <2>. QED
    BY <1>10, <2>2, <2>3 DEF SendRequest
<1>11. CASE OpenPipe(c)
  <2>1. ClientsGoOn
    BY <1>6, <1>8, <1>11 DEF OpenPipe, Early
  <2>. QED
    BY <1>2, <1>11, <2>1, ClientsGoOnKeepsInv DEF OpenPipe
<1>12. CASE PipeOpened(c)
  <2>1. client[c].pc = "opening" /\ client[c].code \in Codes
    BY <1>1, <1>8, <1>12 DEF PipeOpened, Shape
  <2>2. PICK label : label \in {"sleep", "test", "response", "list"}
                     /\ \E x : Notes(c, label, x)
    <3>. DEFINE label == CASE client[c].code = PUBLISH -> "sleep"
                           [] client[c].code = SUBSCRIBE -> "test"
                           [] client[c].code \in {CREATE, REMOVE} -> "response"
                           [] client[c].code = LIST -> "list"
                x == IF client[c].code = SUBSCRIBE THEN 0 ELSE client[c].end
    <3>1. label \in {"sleep", "test", "response", "list"}
      BY <2>1 DEF Codes, BoxCodes, PUBLISH, SUBSCRIBE, CREATE, REMOVE, LIST
    <3>2. Notes(c, label, x)
      BY <1>12 DEF PipeOpened, Notes
    <3>. QED
      BY <3>1, <3>2
  <2>3. ClientsGoOn
    BY <1>noted, <2>1, <2>2 DEF Early
  <2>. QED
    BY <1>2, <1>12, <2>3, ClientsGoOnKeepsInv DEF PipeOpened
<1>13. CASE CloseClient(c)
  <2>1. ClientsGoOn
    BY <1>6, <1>8, <1>13 DEF CloseClient, Early
  <2>. QED
    BY <1>2, <1>13, <2>1, ClientsGoOnKeepsInv DEF CloseClient
<1>14. CASE PublisherSleeps(c)
  <2>1. client[c].pc = "sleep" /\ Notes(c, "test", 0)
    BY <1>8, <1>14 DEF PublisherSleeps, Notes
  <2>2. ClientsGoOn
    BY <1>noted, <2>1 DEF Early
  <2>. QED
    BY <1>2, <1>14, <2>2, ClientsGoOnKeepsInv DEF PublisherSleeps
<1>15. CASE PublisherTests(c)
  <2>1. client[c].pc = "test" /\ (GoOn(c, "loop") \/ Notes(c, "loop", 1))
    BY <1>8, <1>15 DEF PublisherTests, Notes
  <2>2. ClientsGoOn
    BY <1>noted, <1>6, <2>1 DEF Early
  <2>. QED
    BY <1>3, <1>15, <2>2, ClientsGoOnKeepsInv DEF PublisherTests
<1>16. CASE PublisherLoop(c)
  <2>1. client[c].pc = "loop" /\ (GoOn(c, "fgets") \/ GoOn(c, "close"))
    BY <1>8, <1>16 DEF PublisherLoop
  <2>2. ClientsGoOn
    BY <1>6, <2>1 DEF Early
  <2>. QED
    BY <1>2, <1>16, <2>2, ClientsGoOnKeepsInv DEF PublisherLoop
<1>17. CASE PublisherReadsLine(c)
  <2>1. client[c].pc = "fgets" /\ (GoOn(c, "close")
          \/ client' = [client EXCEPT ![c].pc = "write", ![c].data = Head(left[c])])
    BY <1>8, <1>17 DEF PublisherReadsLine
  <2>2. ClientsGoOn
    BY <1>5, <1>6, <2>1 DEF Early
  <2>. QED
    BY <1>2, <1>17, <2>2, ClientsGoOnKeepsInv DEF PublisherReadsLine
<1>18. CASE PublisherWrites(c)
  <2>1. client[c].pc = "write" /\ (GoOn(c, "loop") \/ Dies(c))
    BY <1>8, <1>18 DEF PublisherWrites
  <2>2. ClientsGoOn
    BY <1>6, <1>7, <2>1 DEF Early
  <2>. QED
    BY <1>2, <1>4, <1>18, <2>2, ClientsGoOnKeepsInv DEF PublisherWrites
<1>19. CASE SubscriberTests(c)
  <2>1. client[c].pc = "test" /\ (GoOn(c, "first") \/ GoOn(c, "close"))
    BY <1>8, <1>19 DEF SubscriberTests
  <2>2. ClientsGoOn
    BY <1>6, <2>1 DEF Early
  <2>. QED
    BY <1>2, <1>3, <1>19, <2>2, ClientsGoOnKeepsInv DEF SubscriberTests
<1>20. CASE SubscriberReads(c)
  <2>1. client[c].pc \in {"first", "read"} /\ \E label \in {"close", "print"} : \E x :
          client' = [client EXCEPT ![c].pc = label, ![c].data = x]
    BY <1>8, <1>20 DEF SubscriberReads
  <2>2. ClientsGoOn
    BY <1>5, <2>1 DEF Early
  <2>. QED
    BY <1>2, <1>20, <2>2, ClientsGoOnKeepsInv DEF SubscriberReads
<1>21. CASE SubscriberPrints(c)
  <2>1. client[c].pc = "print" /\ (GoOn(c, "read") \/ GoOn(c, "close"))
    BY <1>8, <1>21 DEF SubscriberPrints
  <2>2. ClientsGoOn
    BY <1>6, <2>1 DEF Early
  <2>. QED
    BY <1>2, <1>4, <1>21, <2>2, ClientsGoOnKeepsInv DEF SubscriberPrints
<1>22. CASE ManagerReads(c)
  <2>1. ClientsGoOn
    BY <1>6, <1>8, <1>22 DEF ManagerReads, Early
  <2>. QED
    BY <1>2, <1>4, <1>22, <2>1, ClientsGoOnKeepsInv DEF ManagerReads
<1>23. CASE ManagerLists(c)
  <2>1. client[c].pc = "list" /\ (GoOn(c, "list") \/ GoOn(c, "close"))
    BY <1>8, <1>23 DEF ManagerLists
  <2>2. ClientsGoOn
    BY <1>6, <2>1 DEF Early
  <2>. QED
    BY <1>2, <1>4, <1>23, <2>2, ClientsGoOnKeepsInv DEF ManagerLists
<1>24. CASE ClientSigint(c)
  <2>1. client[c].pc # "done"
    BY <1>24 DEF ClientSigint
  <2>2. ASSUME Dies(c) PROVE ClientsGoOn
    BY <1>7, <2>1, <2>2
  <2>3. ASSUME NEW label, Notes(c, label, 1), label = client[c].pc \/ label \in {"close", "print"}
        PROVE  ClientsGoOn
    BY <1>noted, <2>1, <2>3 DEF Early
  <2>4. Dies(c) \/ \E label : /\ Notes(c, label, 1)
                              /\ label = client[c].pc \/ label \in {"close", "print"}
    BY <1>24 DEF ClientSigint, Notes
  <2>5. ClientsGoOn
    BY <2>2, <2>3, <2>4
  <2>. QED
    BY <1>2, <1>24, <2>5, ClientsGoOnKeepsInv DEF ClientSigint
<1>. QED
  BY <1>9, <1>10, <1>11, <1>12, <1>13, <1>14, <1>15, <1>16, <1>17, <1>18, <1>19, <1>20, <1>21,
     <1>22, <1>23, <1>24 DEF ClientStep, PublisherStep, SubscriberStep

------------------------------------------------------------------------------
\* At first there are no requests.
LEMMA InitInv ==
    SystemInit => IInv
PROOF
<1>. SUFFICES ASSUME SystemInit PROVE IInv
  OBVIOUS
<1>1. PICK s \in Scenarios : ClientsInit(s)
  BY DEF SystemInit
<1>2. Init
  BY DEF SystemInit
<1>3. Shape
  BY <1>1, <1>2, ScenarioAssumption
  DEF Init, ClientsInit, Shape, WorkerFields, ClientFields, SessionFields
<1>4. \A w \in Workers : ~ InSession(w) /\ ~ Copying(w)
  BY <1>2 DEF Init, InSession, Copying
<1>5. Starts = {}
  BY <1>2 DEF Init, Starts
<1>6. Framed
  BY <1>2, <1>5 DEF Init, Framed
<1>7. Reading /\ Serving /\ Sessions
  BY <1>2, <1>4 DEF Init, Reading, Serving, Sessions, Busy
<1>8. Waiting
  BY <1>1, <1>5 DEF ClientsInit, Waiting, InRegister
<1>. QED
  BY <1>3, <1>6, <1>7, <1>8 DEF IInv, InOnePlace

\* SIGINT makes main end, or enqueue what it had: then that is a mishap.
LEMMA SigintKeepsInv ==
    ASSUME IInv, BrokerGetsSigint
    PROVE  IInv'
PROOF
<1>1. /\ UNCHANGED <<register, buffer, incoming, queue, worker, client, session>>
      /\ \/ UNCHANGED <<main, mishaps>>
         \/ main' = "unlink" /\ UNCHANGED mishaps
         \/ mishaps' = mishaps \cup {"repeated"}
  BY DEF BrokerGetsSigint, BrokerSigint, queueVars
<1>2. Shape'
  BY <1>1 DEF IInv, Shape
<1>3. mishaps' = {} => Elsewhere
  BY <1>1 DEF Elsewhere, SameWorker, SameClient, InSession, Copying
<1>. QED
  BY <1>2, <1>3, ElsewhereKeepsInv

\* Every step keeps the invariant.
LEMMA NextKeepsInv ==
    IInv /\ [Next]_vars => IInv'
PROOF
<1>. SUFFICES ASSUME IInv, [Next]_vars PROVE IInv'
  OBVIOUS
<1>1. CASE MainStep
  BY <1>1, MainKeepsInv
<1>2. ASSUME NEW w \in Workers, WorkerStep(w) PROVE IInv'
  BY <1>2, CopiesKeepInv, SessionKeepsInv DEF WorkerStep
<1>3. ASSUME NEW c \in Clients, ClientStep(c) \/ PublisherReadsLine(c) \/ ClientSigint(c)
      PROVE  IInv'
  BY <1>3, ClientKeepsInv
<1>4. CASE BrokerGetsSigint
  BY <1>4, SigintKeepsInv
<1>5. CASE UNCHANGED vars
  <2>1. UNCHANGED registrationVars /\ UNCHANGED client /\ UNCHANGED session
    BY <1>5 DEF vars, clientVars
  <2>2. ClientsGoOn /\ ServedTheSame
    BY <2>1 DEF IInv, Shape, ClientsGoOn, ServedTheSame
  <2>. QED
    BY <2>1, <2>2, ClientsGoOnKeepsInv
<1>. QED
  BY <1>1, <1>2, <1>3, <1>4, <1>5 DEF Next

\* However many clients write requests and workers serve them: without a mishap
\* each worker serves the client whose request it got, as what it asked for, no
\* two workers the same client, and no client twice.
THEOREM RequestsServedAsSent == Spec => []ServedAsSent
PROOF
<1>1. IInv => ServedAsSent
  <2>. SUFFICES ASSUME IInv, mishaps = {} PROVE SessionsMatchRequests
    BY DEF ServedAsSent
  <2>1. Sessions /\ Waiting
    BY DEF IInv, InOnePlace
  <2>2. \A c \in Clients : session[c].served <= 1
    BY <2>1 DEF Waiting
  <2>. QED
    BY <2>1, <2>2 DEF Sessions, SessionsMatchRequests
<1>. QED
  BY <1>1, InitInv, NextKeepsInv, PTL DEF Spec

------------------------------------------------------------------------------
(* Who has the pipes open *)

PipeFields == {"made", "readers", "writers", "opened", "cells"}

\* A client at these places has its end of its pipe open.
WithPipe == ClientPCs \ {"start", "send", "open", "done", "failed"}

\* A worker that serves c, and one whose open() has been called.
Serves(w, c) == InSession(w) /\ path(w) = c
HasOpen(w, c) == process = "running" /\ Serves(w, c) /\ worker[w].pc # "open"

PipeEnds(c) ==
    LET p == pipe[c]
    IN  /\ DOMAIN p = PipeFields
        /\ p.readers \subseteq {c} \cup Workers /\ p.writers \subseteq {c} \cup Workers
        /\ p.opened \subseteq p.readers \cup p.writers
        /\ c \in p.readers <=> client[c].pc \in WithPipe /\ client[c].code # PUBLISH
        /\ c \in p.writers <=> client[c].pc \in WithPipe /\ client[c].code = PUBLISH
        /\ \A w \in Workers :
            /\ w \in p.readers <=> HasOpen(w, c) /\ worker[w].code = PUBLISH
            /\ w \in p.writers <=> HasOpen(w, c) /\ worker[w].code # PUBLISH
        /\ p.cells # << >> => p.readers \cup p.writers # {}

\* Which code goes with which places.
WorkerRole(w) ==
    LET pc == worker[w].pc
        code == worker[w].code
    IN  /\ pc \notin {"dequeue", "code"} => code \in Codes
        /\ pc \in {"p_test", "p_next"} => code = PUBLISH
        /\ pc \in {"s_test", "s_read", "s_replay", "s_wait", "s_push"} => code = SUBSCRIBE
        /\ pc = "m_respond" => code \in {CREATE, REMOVE}
        /\ pc = "l_respond" => code = LIST

ClientRole(c) ==
    LET pc == client[c].pc
        code == client[c].code
    IN  /\ pc \in {"sleep", "loop", "fgets", "write"} => code = PUBLISH
        /\ pc = "test" => code \in {PUBLISH, SUBSCRIBE}
        /\ pc \in {"first", "read", "print"} => code = SUBSCRIBE
        /\ pc = "response" => code \in {CREATE, REMOVE}
        /\ pc = "list" => code = LIST

MainPlaces ==
    /\ main \in {"open", "test", "read", "copy", "enqueue", "unlink", "destroy", "return"}
    /\ main = "copy" <=> incoming # << >>
    /\ end \in {0, 1} /\ mishaps \subseteq {"overrun", "misread", "repeated"}
    /\ main \in {"unlink", "destroy", "return"} => end = 1
    /\ process \in {"running", "exited", "failed", "killed", "memory fault"}
    /\ process \in {"exited", "memory fault"} => end = 1

WorkerPlaces == \A w \in Workers : worker[w].pc \in SessionPCs /\ WorkerRole(w)

ClientPlaces ==
    \A c \in Clients : client[c].pc \in ClientPCs /\ client[c].end \in {0, 1} /\ ClientRole(c)

\* Only clients' pipes are opened.
Ends ==
    /\ DOMAIN pipe = Clients
    /\ \A c \in Clients : PipeEnds(c)
    /\ \A w \in Workers : InSession(w) /\ worker[w].pc # "open" => path(w) \in Clients

Typed == MainPlaces /\ WorkerPlaces /\ ClientPlaces /\ Ends

TypeInv == Shape /\ Typed

------------------------------------------------------------------------------
(* Pipes *)

LEMMA OpeningFacts ==
    ASSUME NEW p, DOMAIN p = PipeFields, NEW x, NEW side \in {"readers", "writers"}
    PROVE  /\ DOMAIN Opening(p, x, side) = PipeFields
           /\ side = "readers" => /\ Opening(p, x, side).readers = p.readers \cup {x}
                                 /\ Opening(p, x, side).writers = p.writers
           /\ side = "writers" => /\ Opening(p, x, side).readers = p.readers
                                 /\ Opening(p, x, side).writers = p.writers \cup {x}
           /\ Opening(p, x, side).cells = p.cells
           /\ Opening(p, x, side).made = p.made
           /\ Opening(p, x, side).readers = {} \/ Opening(p, x, side).writers = {} =>
                Opening(p, x, side).opened = p.opened
           /\ Opening(p, x, side).readers # {} /\ Opening(p, x, side).writers # {} =>
                Opening(p, x, side).opened =
                    Opening(p, x, side).readers \cup Opening(p, x, side).writers
PROOF
<1>1. CASE side = "readers"
  BY <1>1 DEF Opening, PipeFields
<1>2. CASE side = "writers"
  BY <1>2 DEF Opening, PipeFields
<1>. QED
  BY <1>1, <1>2

LEMMA ClosingFacts ==
    ASSUME NEW p, DOMAIN p = PipeFields, NEW xs
    PROVE  /\ DOMAIN Closing(p, xs) = PipeFields
           /\ Closing(p, xs).readers = p.readers \ xs
           /\ Closing(p, xs).writers = p.writers \ xs
           /\ Closing(p, xs).opened = p.opened \ xs
           /\ Closing(p, xs).made = p.made
           /\ Closing(p, xs).readers = {} /\ Closing(p, xs).writers = {} =>
                Closing(p, xs).cells = << >>
           /\ Closing(p, xs).readers # {} \/ Closing(p, xs).writers # {} =>
                Closing(p, xs).cells = p.cells
PROOF
  BY DEF Closing, PipeFields

------------------------------------------------------------------------------
(* Steps after which the ends are as before *)

Open(w) == InSession(w) /\ worker[w].pc # "open"

SamePipes ==
    /\ DOMAIN pipe' = Clients
    /\ \A c \in Clients :
        /\ DOMAIN pipe'[c] = PipeFields
        /\ pipe'[c].readers = pipe[c].readers /\ pipe'[c].writers = pipe[c].writers
        /\ pipe'[c].opened = pipe[c].opened
        /\ \/ pipe'[c].cells \in {<< >>, pipe[c].cells}
           \/ pipe[c].readers \cup pipe[c].writers # {}

WorkersStay ==
    /\ process' = process
    /\ \A w \in Workers :
        /\ Open(w)' = Open(w)
        /\ Open(w) => path(w)' = path(w) /\ worker'[w].code = worker[w].code

ClientsStay ==
    \A c \in Clients :
        /\ client'[c].code = client[c].code
        /\ client'[c].pc \in WithPipe <=> client[c].pc \in WithPipe

LEMMA EndsStay ==
    ASSUME Ends, SamePipes, WorkersStay, ClientsStay
    PROVE  Ends'
PROOF
<1>1. \A w \in Workers, c \in Clients :
        /\ HasOpen(w, c)' = HasOpen(w, c)
        /\ HasOpen(w, c) => worker'[w].code = worker[w].code
  BY DEF WorkersStay, HasOpen, Serves, Open
<1>2. ASSUME NEW c \in Clients PROVE PipeEnds(c)'
  <2>1. PipeEnds(c)
    BY DEF Ends
  <2>. QED
    BY <1>1, <2>1 DEF PipeEnds, SamePipes, ClientsStay
<1>3. \A w \in Workers : Open(w)' => path(w)' \in Clients
  BY DEF Ends, WorkersStay, Open
<1>. QED
  BY <1>2, <1>3 DEF Ends, SamePipes, Open

------------------------------------------------------------------------------
(* The main thread and the copies *)

LEMMA MainKeepsTypes ==
    ASSUME TypeInv, UNCHANGED <<client, pipe>>,
           BrokerStep \/ (\E x : BrokerOpen(x)) \/ BrokerSigint \/ UNCHANGED registrationVars
    PROVE  Typed'
PROOF
<1>1. UNCHANGED <<process, worker, client, pipe>>
  BY DEF BrokerStep, BrokerOpen, BrokerTest, BrokerRead, Read, BrokerCopy, BrokerEnqueue,
         BrokerUnlink, BrokerDestroy, BrokerSigint, processVars, registrationVars
<1>2. MainPlaces'
  <2>1. MainPlaces
    BY DEF TypeInv, Typed
  <2>2. CASE BrokerRead
    <3>1. PICK n : /\ n = IF Len(register) < 3 THEN Len(register) ELSE 3
                   /\ incoming' = [i \in 1 .. n |-> <<i, SubSeq(register, 1, n)[i]>>]
      <4>1. Cardinality(BufferCells) = 3
        <5>1. Cardinality(1 .. 3) = IF 1 > 3 THEN 0 ELSE 3 - 1 + 1
          BY FS_Interval, 1 \in Int, 3 \in Int
        <5>. QED
          BY <5>1 DEF BufferCells
      <4>. QED
        BY <2>2, <4>1 DEF BrokerRead, Read
    <3>2. register # << >> /\ register \in Seq(Cells)
      BY <2>2 DEF BrokerRead, Read, TypeInv, Shape
    <3>3. n >= 1 /\ n \in Nat
      BY <3>1, <3>2, EmptySeq
    <3>4. DOMAIN incoming' # {}
      BY <3>1, <3>3
    <3>5. incoming' # << >>
      BY <3>4
    <3>6. main' = "copy" /\ main = "read" /\ mishaps' \in {mishaps, mishaps \cup {"misread"}}
      BY <2>2 DEF BrokerRead, Read, Main
    <3>. QED
      BY <2>1, <2>2, <3>5, <3>6 DEF BrokerRead, Read, MainPlaces, processVars
  <2>3. CASE \E x : BrokerOpen(x)
    BY <2>1, <2>3 DEF BrokerOpen, Main, MainPlaces, processVars
  <2>4. CASE BrokerSigint
    BY <2>1, <2>4 DEF BrokerSigint, Main, MainPlaces, processVars
  <2>5. CASE BrokerCopy
    BY <2>1, <2>5 DEF BrokerCopy, Main, MainPlaces, processVars
  <2>6. CASE BrokerTest \/ BrokerUnlink \/ BrokerDestroy
    BY <2>1, <2>6 DEF BrokerTest, BrokerUnlink, BrokerDestroy, Main, MainPlaces, processVars
  <2>7. CASE BrokerEnqueue
    BY <2>1, <2>7 DEF BrokerEnqueue, Main, MainPlaces, processVars
  <2>8. CASE UNCHANGED registrationVars
    BY <2>1, <2>8 DEF registrationVars, mainVars, processVars, MainPlaces
  <2>. QED
    BY <2>2, <2>3, <2>4, <2>5, <2>6, <2>7, <2>8 DEF BrokerStep
<1>3. WorkerPlaces' /\ ClientPlaces'
  BY <1>1 DEF TypeInv, Typed, WorkerPlaces, ClientPlaces, WorkerRole, ClientRole
<1>4. Ends'
  <2>1. SamePipes /\ WorkersStay /\ ClientsStay
    BY <1>1 DEF SamePipes, WorkersStay, ClientsStay, TypeInv, Typed, Ends, PipeEnds, Open, InSession, path
  <2>. QED
    BY <2>1, EndsStay DEF TypeInv, Typed
<1>. QED
  BY <1>2, <1>3, <1>4 DEF Typed

LEMMA CopiesKeepTypes ==
    ASSUME TypeInv, NEW w \in Workers, WorkerCopies(w), UNCHANGED clientVars
    PROVE  Typed'
PROOF
<1>1. UNCHANGED <<mainVars, process, mishaps, client, pipe>>
  BY DEF WorkerCopies, WorkerDequeue, CopyCode, CopyPath, CopyName, processVars, clientVars
<1>2. MainPlaces' /\ ClientPlaces'
  BY <1>1 DEF TypeInv, Typed, MainPlaces, ClientPlaces, ClientRole, mainVars
<1>3. /\ \A v \in Workers \ {w} : worker'[v] = worker[v]
      /\ worker[w].pc \in {"dequeue", "code", "path", "name"}
      /\ \/ worker'[w].pc \in {"dequeue", "code"}
         \/ worker'[w].pc \in {"path", "name", "open"} /\ worker'[w].code \in Codes
  <2>1. Shape /\ WorkerRole(w)
    BY DEF TypeInv, Typed, WorkerPlaces
  <2>2. CASE WorkerDequeue(w)
    BY <2>1, <2>2 DEF WorkerDequeue, At, Shape, WorkerFields
  <2>3. CASE CopyCode(w)
    BY <2>1, <2>3 DEF CopyCode, At, Shape, WorkerFields
  <2>4. CASE CopyPath(w) \/ CopyName(w)
    BY <2>1, <2>4 DEF CopyPath, CopyName, At, Shape, WorkerFields, WorkerRole
  <2>. QED
    BY <2>2, <2>3, <2>4 DEF WorkerCopies
<1>4. WorkerPlaces'
  BY <1>3 DEF TypeInv, Typed, WorkerPlaces, WorkerRole, SessionPCs
<1>5. Ends'
  <2>1. SamePipes /\ ClientsStay
    BY <1>1 DEF SamePipes, ClientsStay, TypeInv, Typed, Ends, PipeEnds
  <2>2. WorkersStay
    BY <1>1, <1>3 DEF WorkersStay, Open, InSession, path
  <2>. QED
    BY <2>1, <2>2, EndsStay DEF TypeInv, Typed
<1>. QED
  BY <1>2, <1>4, <1>5 DEF Typed

------------------------------------------------------------------------------
(* Sessions *)

LEMMA ContentsChange ==
    ASSUME Ends, NEW c \in Clients, pipe[c].readers # {}, NEW cells,
           pipe' = [pipe EXCEPT ![c].cells = cells]
    PROVE  SamePipes
PROOF
<1>1. \A d \in Clients : DOMAIN pipe[d] = PipeFields
  BY DEF Ends, PipeEnds
<1>2. /\ DOMAIN pipe' = Clients /\ \A d \in Clients \ {c} : pipe'[d] = pipe[d]
      /\ pipe'[c] = [pipe[c] EXCEPT !.cells = cells]
  BY DEF Ends
<1>. QED
  BY <1>1, <1>2 DEF SamePipes, PipeFields

LEMMA ContentsSame ==
    ASSUME Ends, UNCHANGED pipe
    PROVE  SamePipes
PROOF
  BY DEF SamePipes, Ends, PipeEnds

\* The broker's ends are closed.
AllClosed == pipe' = [c \in Clients |-> Closing(pipe[c], Workers)]

LEMMA BrokerEndsTypes ==
    ASSUME TypeInv, process' \in {"exited", "failed", "killed", "memory fault"},
           process' \in {"exited", "memory fault"} => end = 1,
           AllClosed,
           UNCHANGED <<main, incoming, end, mishaps, worker, client>>
    PROVE  Typed'
PROOF
<1>1. MainPlaces' /\ WorkerPlaces' /\ ClientPlaces'
  BY DEF TypeInv, Typed, MainPlaces, WorkerPlaces, ClientPlaces, WorkerRole, ClientRole
<1>2. ASSUME NEW c \in Clients PROVE PipeEnds(c)'
  <2>1. PipeEnds(c) /\ DOMAIN pipe[c] = PipeFields /\ c \notin Workers
    BY ClientAssumption DEF TypeInv, Typed, Ends, PipeEnds
  <2>2. pipe'[c] = Closing(pipe[c], Workers)
    BY DEF AllClosed
  <2>3. /\ DOMAIN pipe'[c] = PipeFields
        /\ pipe'[c].readers = pipe[c].readers \ Workers
        /\ pipe'[c].writers = pipe[c].writers \ Workers
        /\ pipe'[c].opened = pipe[c].opened \ Workers
        /\ pipe'[c].readers = {} /\ pipe'[c].writers = {} => pipe'[c].cells = << >>
    BY <2>1, <2>2 DEF Closing, PipeFields
  <2>4. \A w \in Workers : ~ HasOpen(w, c)'
    BY DEF HasOpen
  <2>5. client'[c] = client[c]
    OBVIOUS
  <2>. QED
    BY <2>1, <2>3, <2>4, <2>5 DEF PipeEnds
<1>3. Ends'
  BY <1>2 DEF TypeInv, Typed, Ends, InSession, path, AllClosed
<1>. QED
  BY <1>1, <1>3 DEF Typed

\* Where the worker can go that serves a client whose pipe is open.
CanBeAt(w, label) ==
    /\ label \in SessionPCs \ {"dequeue", "code", "path", "name", "open"}
    /\ label \in {"p_test", "p_next"} => worker[w].code = PUBLISH
    /\ label \in {"s_test", "s_read", "s_replay", "s_wait", "s_push"} => worker[w].code = SUBSCRIBE
    /\ label = "m_respond" => worker[w].code \in {CREATE, REMOVE}
    /\ label = "l_respond" => worker[w].code = LIST

LEMMA GoesOnTypes ==
    ASSUME TypeInv, SamePipes, NEW w \in Workers,
           UNCHANGED <<main, incoming, end, process, mishaps, client>>,
           \/ UNCHANGED worker
           \/ Open(w) /\ \E label : CanBeAt(w, label) /\ WorkerGoesOn(w, label)
    PROVE  Typed'
PROOF
<1>1. MainPlaces' /\ ClientPlaces'
  BY DEF TypeInv, Typed, MainPlaces, ClientPlaces, ClientRole
<1>2. ClientsStay
  BY DEF ClientsStay
<1>3. WorkerPlaces' /\ WorkersStay
  <2>1. CASE UNCHANGED worker
    BY <2>1 DEF TypeInv, Typed, WorkerPlaces, WorkerRole, WorkersStay, Open, InSession, path
  <2>2. ASSUME Open(w), NEW label, CanBeAt(w, label), WorkerGoesOn(w, label)
        PROVE  WorkerPlaces' /\ WorkersStay
    <3>1. /\ \A v \in Workers \ {w} : worker'[v] = worker[v]
          /\ worker'[w].pc = label
          /\ worker'[w].code = worker[w].code /\ worker'[w].path = worker[w].path
      BY <2>2 DEF TypeInv, Shape, WorkerFields, WorkerGoesOn
    <3>2. WorkerRole(w)
      BY DEF TypeInv, Typed, WorkerPlaces
    <3>3. label \in SessionPCs /\ WorkerRole(w)'
      BY <2>2, <3>1, <3>2 DEF CanBeAt, WorkerRole, Open, InSession
    <3>4. WorkerPlaces'
      BY <3>1, <3>3 DEF TypeInv, Typed, WorkerPlaces, WorkerRole
    <3>5. WorkersStay
      BY <2>2, <3>1 DEF WorkersStay, Open, InSession, path, CanBeAt
    <3>. QED
      BY <3>4, <3>5
  <2>. QED
    BY <2>1, <2>2
<1>4. Ends'
  BY <1>2, <1>3, EndsStay DEF TypeInv, Typed
<1>. QED
  BY <1>1, <1>3, <1>4 DEF Typed

\* A worker's open() adds an end, or is fatal.
LEMMA WorkerOpensTypes ==
    ASSUME TypeInv, NEW w \in Workers, WorkerOpens(w)
    PROVE  Typed'
PROOF
<1>1. UNCHANGED <<main, incoming, end, mishaps, client>>
      /\ worker[w].pc = "open" /\ process = "running"
  BY DEF WorkerOpens, UnchangedByWorkers, mainVars, At
<1>2. CASE BrokerEnds("failed") /\ UNCHANGED worker
  BY <1>1, <1>2, BrokerEndsTypes DEF BrokerEnds, AllClosed
<1>3. ASSUME NEW c \in Clients, path(w) = c,
             pipe' = [pipe EXCEPT ![path(w)] =
                        Opening(@, w, IF worker[w].code = PUBLISH THEN "readers" ELSE "writers")],
             WorkerGoesOn(w, "opening"), UNCHANGED process
      PROVE  Typed'
  <2>. DEFINE side == IF worker[w].code = PUBLISH THEN "readers" ELSE "writers"
  <2>1. MainPlaces' /\ ClientPlaces'
    BY <1>1, <1>3 DEF TypeInv, Typed, MainPlaces, ClientPlaces, ClientRole
  <2>2. /\ \A v \in Workers \ {w} : worker'[v] = worker[v]
        /\ worker'[w].pc = "opening"
        /\ worker'[w].code = worker[w].code /\ worker'[w].path = c
    BY <1>3 DEF TypeInv, Shape, WorkerFields, WorkerGoesOn, path
  <2>3. WorkerPlaces'
    BY <1>1, <2>2 DEF TypeInv, Typed, WorkerPlaces, WorkerRole, SessionPCs
  <2>4. /\ DOMAIN pipe' = Clients
        /\ \A d \in Clients \ {c} : pipe'[d] = pipe[d]
        /\ pipe'[c] = Opening(pipe[c], w, side)
    BY <1>3 DEF TypeInv, Typed, Ends
  <2>5. /\ \A v \in Workers \ {w}, d \in Clients : HasOpen(v, d)' = HasOpen(v, d)
        /\ \A d \in Clients : ~ HasOpen(w, d) /\ (HasOpen(w, d)' <=> d = c)
    BY <1>1, <1>3, <2>2 DEF HasOpen, Serves, InSession, path
  <2>6. ASSUME NEW d \in Clients, d # c PROVE PipeEnds(d)'
    <3>1. PipeEnds(d) /\ pipe'[d] = pipe[d] /\ client'[d] = client[d]
      BY <1>1, <2>4, <2>6 DEF TypeInv, Typed, Ends
    <3>. QED
      BY <2>2, <2>5, <2>6, <3>1 DEF PipeEnds
  <2>7. PipeEnds(c)'
    <3>1. PipeEnds(c) /\ DOMAIN pipe[c] = PipeFields /\ c # w /\ client'[c] = client[c]
      BY <1>1, ClientAssumption DEF TypeInv, Typed, Ends, PipeEnds
    <3>2. PICK s \in {"readers", "writers"} :
            s = IF worker[w].code = PUBLISH THEN "readers" ELSE "writers"
      OBVIOUS
    <3>3. PICK q : q = Opening(pipe[c], w, s)
      OBVIOUS
    <3>4. /\ DOMAIN q = PipeFields /\ q.cells = pipe[c].cells
          /\ s = "readers" => q.readers = pipe[c].readers \cup {w} /\ q.writers = pipe[c].writers
          /\ s = "writers" => q.readers = pipe[c].readers /\ q.writers = pipe[c].writers \cup {w}
          /\ q.opened \in {pipe[c].opened, q.readers \cup q.writers}
      BY <3>1, <3>3, OpeningFacts
    <3>5. pipe'[c] = q
      BY <2>4, <3>2, <3>3
    <3>. QED
      BY <2>2, <2>5, <3>1, <3>2, <3>4, <3>5 DEF PipeEnds
  <2>8. \A v \in Workers : Open(v)' => path(v)' \in Clients
    BY <1>1, <1>3, <2>2 DEF TypeInv, Typed, Ends, Open, InSession, path
  <2>. QED
    BY <2>1, <2>3, <2>4, <2>6, <2>7, <2>8 DEF Typed, Ends, Open
<1>. QED
  BY <1>2, <1>3 DEF WorkerOpens

\* A worker's close() takes one away.
LEMMA WorkerClosesTypes ==
    ASSUME TypeInv, NEW w \in Workers, WorkerCloses(w)
    PROVE  Typed'
PROOF
<1>1. UNCHANGED <<main, incoming, end, mishaps, process, client>>
      /\ worker[w].pc = "close" /\ process = "running"
  BY DEF WorkerCloses, UnchangedByWorkers, mainVars, processVars, At
<1>2. PICK c \in Clients : c = path(w)
  BY <1>1 DEF TypeInv, Typed, Ends, InSession
<1>3. MainPlaces' /\ ClientPlaces'
  BY <1>1 DEF TypeInv, Typed, MainPlaces, ClientPlaces, ClientRole
<1>4. /\ \A v \in Workers \ {w} : worker'[v] = worker[v]
      /\ worker'[w].pc = "dequeue"
  BY DEF TypeInv, Shape, WorkerCloses
<1>5. WorkerPlaces'
  BY <1>4 DEF TypeInv, Typed, WorkerPlaces, WorkerRole, SessionPCs
<1>6. /\ DOMAIN pipe' = Clients
      /\ \A d \in Clients \ {c} : pipe'[d] = pipe[d]
      /\ pipe'[c] = Closing(pipe[c], {w})
  BY <1>2 DEF TypeInv, Typed, Ends, WorkerCloses
<1>7. /\ \A v \in Workers \ {w}, d \in Clients : HasOpen(v, d)' = HasOpen(v, d)
      /\ \A d \in Clients : ~ HasOpen(w, d)' /\ (HasOpen(w, d) <=> d = c)
  BY <1>1, <1>2, <1>4 DEF HasOpen, Serves, InSession, path
<1>8. ASSUME NEW d \in Clients, d # c PROVE PipeEnds(d)'
  <2>1. PipeEnds(d) /\ pipe'[d] = pipe[d] /\ client'[d] = client[d]
    BY <1>1, <1>6, <1>8 DEF TypeInv, Typed, Ends
  <2>. QED
    BY <1>4, <1>7, <1>8, <2>1 DEF PipeEnds
<1>9. PipeEnds(c)'
  <2>1. PipeEnds(c) /\ DOMAIN pipe[c] = PipeFields /\ c # w /\ client'[c] = client[c]
    BY <1>1, ClientAssumption DEF TypeInv, Typed, Ends, PipeEnds
  <2>2. /\ DOMAIN pipe'[c] = PipeFields
        /\ pipe'[c].readers = pipe[c].readers \ {w}
        /\ pipe'[c].writers = pipe[c].writers \ {w}
        /\ pipe'[c].opened = pipe[c].opened \ {w}
        /\ pipe'[c].readers = {} /\ pipe'[c].writers = {} => pipe'[c].cells = << >>
    BY <1>6, <2>1, ClosingFacts
  <2>. QED
    BY <1>4, <1>7, <2>1, <2>2 DEF PipeEnds
<1>10. \A v \in Workers : Open(v)' => path(v)' \in Clients
  BY <1>1, <1>4 DEF TypeInv, Typed, Ends, Open, InSession, path
<1>. QED
  BY <1>3, <1>5, <1>6, <1>8, <1>9, <1>10 DEF Typed, Ends, Open

LEMMA BrokerEndsHowTypes ==
    ASSUME TypeInv, NEW how \in {"failed", "killed", "memory fault"}, BrokerEnds(how),
           how = "memory fault" => Destroyed,
           UNCHANGED <<main, incoming, end, mishaps, worker, client>>
    PROVE  Typed'
PROOF
<1>1. process' = how /\ AllClosed
  BY DEF BrokerEnds, AllClosed
<1>2. how = "memory fault" => end = 1
  BY DEF Destroyed, TypeInv, Typed, MainPlaces
<1>. QED
  BY <1>1, <1>2, BrokerEndsTypes

\* A write by a session's worker.
LEMMA WritesTypes ==
    ASSUME TypeInv, NEW w \in Workers, Open(w), NEW cells, WritePipe(path(w), cells)
    PROVE  SamePipes
PROOF
<1>1. PICK c \in Clients : c = path(w)
  BY DEF TypeInv, Typed, Ends, Open
<1>2. PICK new : pipe' = [pipe EXCEPT ![c].cells = new]
  BY <1>1 DEF WritePipe
<1>3. pipe[c].readers # {}
  BY <1>1 DEF WritePipe, Writable
<1>. QED
  BY <1>2, <1>3, ContentsChange DEF TypeInv, Typed

\* A read by the worker of a publisher.
LEMMA ReadsTypes ==
    ASSUME TypeInv, NEW w \in Workers, Open(w), process = "running", worker[w].code = PUBLISH,
           ReadPipe(path(w))
    PROVE  SamePipes
PROOF
<1>1. PICK c \in Clients : c = path(w)
  BY DEF TypeInv, Typed, Ends, Open
<1>2. PICK new : pipe' = [pipe EXCEPT ![c].cells = new]
  BY <1>1 DEF ReadPipe
<1>3. w \in pipe[c].readers
  BY <1>1 DEF TypeInv, Typed, Ends, PipeEnds, HasOpen, Serves, Open
<1>. QED
  BY <1>2, <1>3, ContentsChange DEF TypeInv, Typed

LEMMA SessionKeepsTypes ==
    ASSUME TypeInv, NEW w \in Workers, SessionStep(w)
    PROVE  Typed'
PROOF
<1>1. WorkerRole(w)
  BY DEF TypeInv, Typed, WorkerPlaces
<1>2. ASSUME UNCHANGED pipe PROVE SamePipes
  BY <1>2, ContentsSame DEF TypeInv, Typed
<1>3. ASSUME UnchangedByWorkers PROVE UNCHANGED <<main, incoming, end, mishaps, client>>
  BY <1>3 DEF UnchangedByWorkers, mainVars
<1>4. ASSUME UnchangedByWorkers, UNCHANGED process, SamePipes, UNCHANGED worker
      PROVE  Typed'
  BY <1>3, <1>4, GoesOnTypes
<1>5. ASSUME UnchangedByWorkers, UNCHANGED process, SamePipes, Open(w),
             NEW label, CanBeAt(w, label), WorkerGoesOn(w, label)
      PROVE  Typed'
  BY <1>3, <1>5, GoesOnTypes
<1>6. ASSUME UnchangedByWorkers, NEW how \in {"failed", "killed", "memory fault"}, BrokerEnds(how),
             how = "memory fault" => Destroyed, UNCHANGED worker
      PROVE  Typed'
  BY <1>3, <1>6, BrokerEndsHowTypes
<1>7. CASE PipeOpenedToWorker(w)
  <2>1. Open(w) /\ CanBeAt(w, "decide")
    BY <1>7 DEF PipeOpenedToWorker, At, Open, InSession, CanBeAt, SessionPCs
  <2>. QED
    BY <1>2, <1>5, <1>7, <2>1 DEF PipeOpenedToWorker, processVars
<1>8. CASE WorkerDecides(w)
  <2>1. Open(w) /\ worker[w].code \in Codes /\ UnchangedByWorkers
    BY <1>1, <1>8 DEF WorkerDecides, At, Open, InSession, WorkerRole
  <2>2. PICK label : label = Granted(worker[w].code)
    OBVIOUS
  <2>3. CanBeAt(w, label) /\ CanBeAt(w, "close")
        /\ (worker[w].code \in {CREATE, REMOVE} => CanBeAt(w, "m_respond"))
    BY <2>1, <2>2
    DEF Granted, CanBeAt, SessionPCs, Codes, BoxCodes, PUBLISH, SUBSCRIBE, CREATE, REMOVE, LIST
  <2>4. CASE BrokerEnds("memory fault") /\ Destroyed /\ UNCHANGED worker
    BY <1>6, <2>1, <2>4
  <2>5. CASE UNCHANGED <<process, pipe>> /\ WorkerGoesOn(w, label)
    BY <1>2, <1>5, <2>1, <2>3, <2>5
  <2>6. CASE UNCHANGED <<process, pipe>> /\ WorkerGoesOn(w, "close")
    BY <1>2, <1>5, <2>1, <2>3, <2>6
  <2>7. CASE UNCHANGED <<process, pipe>> /\ WorkerGoesOn(w, "m_respond")
             /\ worker[w].code \in {CREATE, REMOVE}
    BY <1>2, <1>5, <2>1, <2>3, <2>7
  <2>. QED
    BY <1>8, <2>2, <2>4, <2>5, <2>6, <2>7 DEF WorkerDecides
<1>9. CASE WorkerReadsTest(w)
  <2>1. Open(w) /\ CanBeAt(w, "p_next") /\ process = "running" /\ worker[w].code = PUBLISH
    BY <1>1, <1>9 DEF WorkerReadsTest, At, Open, InSession, CanBeAt, SessionPCs, WorkerRole
  <2>2. SamePipes
    BY <1>9, <2>1, ReadsTypes DEF WorkerReadsTest
  <2>. QED
    BY <1>5, <1>9, <2>1, <2>2 DEF WorkerReadsTest, processVars
<1>10. CASE WorkerStores(w)
  <2>1. Open(w) /\ CanBeAt(w, "close") /\ process = "running" /\ worker[w].code = PUBLISH
        /\ UnchangedByWorkers
    BY <1>1, <1>10 DEF WorkerStores, At, Open, InSession, CanBeAt, SessionPCs, WorkerRole
  <2>2. CASE BrokerEnds("memory fault") /\ Destroyed /\ UNCHANGED worker
    BY <1>6, <2>1, <2>2
  <2>3. CASE ReadPipe(path(w)) /\ UNCHANGED <<worker, process>>
    BY <1>4, <2>1, <2>3, ReadsTypes
  <2>4. CASE ReadPipe(path(w)) /\ WorkerGoesOn(w, "close") /\ UNCHANGED process
    BY <1>5, <2>1, <2>4, ReadsTypes
  <2>. QED
    BY <1>10, <2>2, <2>3, <2>4 DEF WorkerStores
<1>11. ASSUME NEW cells, NEW sent, NEW failed, WorkerWrites(w, cells, sent, failed), Open(w),
              CanBeAt(w, sent), CanBeAt(w, failed), UnchangedByWorkers
       PROVE  Typed'
  <2>1. CASE WritePipe(path(w), cells) /\ WorkerGoesOn(w, sent) /\ UNCHANGED processVars
    BY <1>5, <1>11, <2>1, WritesTypes DEF processVars
  <2>2. CASE WorkerGoesOn(w, failed) /\ UNCHANGED <<process, pipe>>
    BY <1>2, <1>5, <1>11, <2>2
  <2>3. CASE BrokerEnds("killed") /\ UNCHANGED worker
    BY <1>6, <1>11, <2>3
  <2>. QED
    BY <1>11, <2>1, <2>2, <2>3 DEF WorkerWrites
<1>12. CASE WorkerSendsTest(w)
  <2>1. Open(w) /\ CanBeAt(w, "s_read")
    BY <1>1, <1>12 DEF WorkerSendsTest, At, Open, InSession, CanBeAt, SessionPCs, WorkerRole
  <2>. QED
    BY <1>11, <1>12, <2>1 DEF WorkerSendsTest
<1>13. CASE WorkerSends(w)
  <2>1. /\ Open(w) /\ CanBeAt(w, "s_wait")
        /\ CanBeAt(w, "close") /\ CanBeAt(w, "s_replay")
    BY <1>1, <1>13 DEF WorkerSends, At, Open, InSession, CanBeAt, SessionPCs, WorkerRole
  <2>2. PICK sent, failed :
          /\ sent = IF worker[w].pc = "s_push" THEN "s_wait" ELSE "s_replay"
          /\ failed = IF worker[w].pc = "s_push" THEN "close" ELSE "s_replay"
    OBVIOUS
  <2>3. WorkerWrites(w, Message("10", Head(left[path(w)])), sent, failed)
        /\ UnchangedByWorkers
    BY <1>13, <2>2 DEF WorkerSends
  <2>. QED
    BY <1>11, <2>1, <2>2, <2>3
<1>14. CASE WorkerReplayed(w)
  <2>1. Open(w) /\ CanBeAt(w, "s_wait")
    BY <1>1, <1>14 DEF WorkerReplayed, At, Open, InSession, CanBeAt, SessionPCs, WorkerRole
  <2>. QED
    BY <1>2, <1>5, <1>14, <2>1 DEF WorkerReplayed, processVars
<1>18. ASSUME NEW label, WorkerReads(w, label), Open(w), CanBeAt(w, label)
       PROVE  Typed'
  BY <1>2, <1>5, <1>6, <1>18 DEF WorkerReads
<1>19. CASE WorkerReadsBox(w)
  <2>1. Open(w) /\ CanBeAt(w, "s_replay") /\ WorkerReads(w, "s_replay")
    BY <1>1, <1>19 DEF WorkerReadsBox, At, Open, InSession, CanBeAt, SessionPCs, WorkerRole
  <2>. QED
    BY <1>18, <2>1
<1>20. CASE WorkerWaits(w)
  <2>1. Open(w) /\ CanBeAt(w, "s_push") /\ WorkerReads(w, "s_push")
    BY <1>1, <1>20 DEF WorkerWaits, At, Open, InSession, CanBeAt, SessionPCs, WorkerRole
  <2>. QED
    BY <1>18, <2>1
<1>15. ASSUME NEW cells, NEW label, NEW text, Responds(w, cells, label, text), Open(w),
              CanBeAt(w, label)
       PROVE  Typed'
  <2>1. CASE WritePipe(path(w), cells) /\ WorkerGoesOn(w, label) /\ UNCHANGED process
    BY <1>5, <1>15, <2>1, WritesTypes DEF Responds
  <2>2. CASE (BrokerEnds("failed") \/ BrokerEnds("killed")) /\ UNCHANGED worker
    BY <1>6, <1>15, <2>2 DEF Responds
  <2>. QED
    BY <1>15, <2>1, <2>2 DEF Responds
<1>16. CASE WorkerResponds(w)
  <2>1. Open(w) /\ CanBeAt(w, "close")
    BY <1>16 DEF WorkerResponds, At, Open, InSession, CanBeAt, SessionPCs
  <2>2. \E cells, text : Responds(w, cells, "close", text)
    BY <1>16 DEF WorkerResponds
  <2>. QED
    BY <1>15, <2>1, <2>2
<1>17. CASE WorkerLists(w)
  <2>1. Open(w) /\ CanBeAt(w, "close") /\ CanBeAt(w, "l_respond")
    BY <1>1, <1>17 DEF WorkerLists, At, Open, InSession, CanBeAt, SessionPCs, WorkerRole
  <2>2. CASE \E cells, text : Responds(w, cells, "l_respond", text)
    BY <1>15, <2>1, <2>2
  <2>3. CASE WorkerGoesOn(w, "close") /\ UnchangedByWorkers /\ UNCHANGED <<processVars, pipe>>
    BY <1>2, <1>5, <2>1, <2>3 DEF processVars
  <2>. QED
    BY <1>17, <2>2, <2>3 DEF WorkerLists
<1>. QED
  BY <1>7, <1>8, <1>9, <1>10, <1>12, <1>13, <1>14, <1>16, <1>17, <1>19, <1>20,
     WorkerOpensTypes, WorkerClosesTypes
  DEF SessionStep

------------------------------------------------------------------------------
(* Clients *)

BrokerStill == UNCHANGED <<main, incoming, end, mishaps, process, worker>>

\* c goes on to a place where its code lets it be.
Moves(c) ==
    /\ \A d \in Clients \ {c} : client'[d] = client[d]
    /\ client'[c].code = client[c].code
    /\ client'[c].pc \in ClientPCs /\ client'[c].end \in {0, 1}
    /\ ClientRole(c)'

Stays(c) == Moves(c) /\ (client'[c].pc \in WithPipe <=> client[c].pc \in WithPipe)

LEMMA ClientGoesOnTypes ==
    ASSUME TypeInv, NEW c \in Clients, BrokerStill, Stays(c), SamePipes
    PROVE  Typed'
PROOF
<1>1. MainPlaces' /\ WorkerPlaces' /\ WorkersStay
  BY DEF BrokerStill, TypeInv, Typed, MainPlaces, WorkerPlaces, WorkerRole, WorkersStay, Open,
         InSession, path
<1>2. ClientPlaces' /\ ClientsStay
  BY DEF Stays, Moves, TypeInv, Typed, ClientPlaces, ClientRole, ClientsStay
<1>3. Ends'
  BY <1>1, <1>2, EndsStay DEF TypeInv, Typed
<1>. QED
  BY <1>1, <1>2, <1>3 DEF Typed

\* c opens its end of its pipe, or closes it.
LEMMA ClientEndsTypes ==
    ASSUME TypeInv, NEW c \in Clients, BrokerStill, Moves(c),
           DOMAIN pipe' = Clients, \A d \in Clients \ {c} : pipe'[d] = pipe[d],
           PipeEnds(c)'
    PROVE  Typed'
PROOF
<1>1. MainPlaces' /\ WorkerPlaces'
  BY DEF BrokerStill, TypeInv, Typed, MainPlaces, WorkerPlaces, WorkerRole
<1>2. ClientPlaces'
  BY DEF Moves, TypeInv, Typed, ClientPlaces, ClientRole
<1>3. ASSUME NEW d \in Clients, d # c PROVE PipeEnds(d)'
  <2>1. PipeEnds(d) /\ pipe'[d] = pipe[d] /\ client'[d] = client[d]
    BY <1>3 DEF TypeInv, Typed, Ends, Moves
  <2>2. \A w \in Workers : HasOpen(w, d)' = HasOpen(w, d) /\ worker'[w] = worker[w]
    BY DEF BrokerStill, HasOpen, Serves, InSession, path
  <2>. QED
    BY <2>1, <2>2 DEF PipeEnds
<1>4. Ends'
  BY <1>3 DEF BrokerStill, TypeInv, Typed, Ends, InSession, path
<1>. QED
  BY <1>1, <1>2, <1>4 DEF Typed

LEMMA OpenPipeTypes ==
    ASSUME TypeInv, NEW c \in Clients, OpenPipe(c)
    PROVE  Typed'
PROOF
<1>1. BrokerStill /\ client[c].pc = "open" /\ GoOn(c, "opening")
  BY DEF OpenPipe, BrokerStill, registrationVars, mainVars, processVars, Client
<1>2. Shape /\ ClientRole(c) /\ client[c].end \in {0, 1} /\ PipeEnds(c) /\ DOMAIN pipe = Clients
  BY DEF TypeInv, Typed, ClientPlaces, Ends
<1>3. /\ \A d \in Clients \ {c} : client'[d] = client[d]
      /\ client'[c].code = client[c].code /\ client'[c].end = client[c].end
      /\ client'[c].pc = "opening"
  BY <1>1, <1>2 DEF GoOn, Shape, ClientFields
<1>4. Moves(c)
  BY <1>2, <1>3 DEF Moves, ClientRole, ClientPCs
<1>side. PICK s \in {"readers", "writers"} : s = Side(client[c].code)
  BY DEF Side
<1>5. PICK q : q = Opening(pipe[c], c, s) /\ pipe' = [pipe EXCEPT ![c] = q]
  BY <1>side DEF OpenPipe
<1>6. DOMAIN pipe' = Clients /\ pipe'[c] = q /\ \A d \in Clients \ {c} : pipe'[d] = pipe[d]
  BY <1>2, <1>5
<1>7. PipeEnds(c)'
  <2>1. DOMAIN pipe[c] = PipeFields /\ c \notin Workers
    BY <1>2, ClientAssumption DEF PipeEnds
  <2>2. /\ DOMAIN q = PipeFields /\ q.cells = pipe[c].cells
        /\ s = "readers" => q.readers = pipe[c].readers \cup {c} /\ q.writers = pipe[c].writers
        /\ s = "writers" => q.readers = pipe[c].readers /\ q.writers = pipe[c].writers \cup {c}
        /\ q.opened \in {pipe[c].opened, q.readers \cup q.writers}
    BY <1>5, <2>1, OpeningFacts
  <2>3. \A w \in Workers : HasOpen(w, c)' = HasOpen(w, c) /\ worker'[w] = worker[w]
    BY <1>1 DEF BrokerStill, HasOpen, Serves, InSession, path
  <2>4. client'[c].pc \in WithPipe
    BY <1>3 DEF WithPipe, ClientPCs
  <2>. QED
    BY <1>2, <1>3, <1>side, <1>6, <2>1, <2>2, <2>3, <2>4 DEF PipeEnds, Side
<1>. QED
  BY <1>1, <1>4, <1>6, <1>7, ClientEndsTypes

ClosesEnd(c) ==
    \/ pipe' = [pipe EXCEPT ![c] = Closing(@, {c})]
    \/ pipe' = [pipe EXCEPT ![c] = [Closing(@, {c}) EXCEPT !.made = FALSE]]

LEMMA ClientClosesTypes ==
    ASSUME TypeInv, NEW c \in Clients, BrokerStill, NEW label \in {"done", "failed"},
           GoOn(c, label), ClosesEnd(c)
    PROVE  Typed'
PROOF
<1>1. Shape /\ client[c].end \in {0, 1} /\ PipeEnds(c) /\ DOMAIN pipe = Clients
  BY DEF TypeInv, Typed, ClientPlaces, Ends
<1>2. /\ \A d \in Clients \ {c} : client'[d] = client[d]
      /\ client'[c].code = client[c].code /\ client'[c].end = client[c].end
      /\ client'[c].pc = label
  BY <1>1 DEF GoOn, Shape, ClientFields
<1>3. Moves(c)
  BY <1>1, <1>2 DEF Moves, ClientRole, ClientPCs
<1>4. PipeEnds(c)'
  <2>1. DOMAIN pipe[c] = PipeFields /\ c \notin Workers
    BY <1>1, ClientAssumption DEF PipeEnds
  <2>2. PICK q : q = Closing(pipe[c], {c})
    OBVIOUS
  <2>3. /\ DOMAIN q = PipeFields
        /\ q.readers = pipe[c].readers \ {c}
        /\ q.writers = pipe[c].writers \ {c}
        /\ q.opened = pipe[c].opened \ {c}
        /\ q.readers = {} /\ q.writers = {} => q.cells = << >>
    BY <2>1, <2>2 DEF Closing, PipeFields
  <2>4. PICK p : p = pipe'[c] /\ p \in {q, [q EXCEPT !.made = FALSE]}
    BY <1>1, <2>2 DEF ClosesEnd
  <2>5. DOMAIN p = PipeFields /\ p.readers = q.readers /\ p.writers = q.writers
        /\ p.opened = q.opened /\ p.cells = q.cells
    BY <2>3, <2>4 DEF PipeFields
  <2>6. \A w \in Workers : HasOpen(w, c)' = HasOpen(w, c) /\ worker'[w] = worker[w]
    BY DEF BrokerStill, HasOpen, Serves, InSession, path
  <2>7. client'[c].pc \notin WithPipe
    BY <1>2 DEF WithPipe
  <2>8. /\ DOMAIN p = PipeFields
        /\ p.readers = pipe[c].readers \ {c} /\ p.writers = pipe[c].writers \ {c}
        /\ p.opened = pipe[c].opened \ {c}
        /\ p.readers = {} /\ p.writers = {} => p.cells = << >>
    BY <2>3, <2>5
  <2>9. /\ p.readers \subseteq {c} \cup Workers /\ p.writers \subseteq {c} \cup Workers
        /\ p.opened \subseteq p.readers \cup p.writers
        /\ c \notin p.readers /\ c \notin p.writers
        /\ p.cells # << >> => p.readers \cup p.writers # {}
    BY <1>1, <2>8 DEF PipeEnds
  <2>10. ASSUME NEW w \in Workers
         PROVE  /\ w \in p.readers <=> HasOpen(w, c)' /\ worker'[w].code = PUBLISH
                /\ w \in p.writers <=> HasOpen(w, c)' /\ worker'[w].code # PUBLISH
    BY <1>1, <2>1, <2>6, <2>8 DEF PipeEnds
  <2>. QED
    BY <2>4, <2>7, <2>8, <2>9, <2>10 DEF PipeEnds
<1>5. DOMAIN pipe' = Clients /\ \A d \in Clients \ {c} : pipe'[d] = pipe[d]
  BY <1>1 DEF ClosesEnd
<1>. QED
  BY <1>3, <1>4, <1>5, ClientEndsTypes

\* Where the client can go whose pipe is open, without closing it.
CanGoTo(c, label) ==
    /\ label \in WithPipe
    /\ label \in {"sleep", "loop", "fgets", "write"} => client[c].code = PUBLISH
    /\ label = "test" => client[c].code \in {PUBLISH, SUBSCRIBE}
    /\ label \in {"first", "read", "print"} => client[c].code = SUBSCRIBE
    /\ label = "response" => client[c].code \in {CREATE, REMOVE}
    /\ label = "list" => client[c].code = LIST

\* The forms in which a step changes a client.
Changes(c, label) ==
    \/ GoOn(c, label)
    \/ \E x \in {0, 1, client[c].end} : Notes(c, label, x)
    \/ \E x : client' = [client EXCEPT ![c].pc = label, ![c].data = x]

LEMMA ClientChanges ==
    ASSUME TypeInv, NEW c \in Clients, NEW label, Changes(c, label)
    PROVE  /\ \A d \in Clients \ {c} : client'[d] = client[d]
           /\ client'[c].code = client[c].code /\ client'[c].end \in {0, 1}
           /\ client'[c].pc = label
PROOF
<1>1. Shape /\ client[c].end \in {0, 1}
  BY DEF TypeInv, Typed, ClientPlaces
<1>2. CASE GoOn(c, label)
  BY <1>1, <1>2 DEF GoOn, Shape, ClientFields
<1>3. CASE \E x \in {0, 1, client[c].end} : Notes(c, label, x)
  BY <1>1, <1>3 DEF Notes, Shape, ClientFields
<1>4. CASE \E x : client' = [client EXCEPT ![c].pc = label, ![c].data = x]
  BY <1>1, <1>4 DEF Shape, ClientFields
<1>. QED
  BY <1>2, <1>3, <1>4 DEF Changes

LEMMA ClientKeepsTypes ==
    ASSUME TypeInv, NEW c \in Clients,
           ClientStep(c) \/ PublisherReadsLine(c) \/ ClientSigint(c)
    PROVE  Typed'
PROOF
<1>1. Shape /\ ClientRole(c) /\ client[c].pc \in ClientPCs /\ Ends /\ PipeEnds(c)
  BY DEF TypeInv, Typed, ClientPlaces, Ends
<1>2. \A label : Client(c, label) => client[c].pc = label
  BY DEF Client
<1>3. ASSUME UNCHANGED registrationVars PROVE BrokerStill
  BY <1>3 DEF registrationVars, BrokerStill, mainVars, processVars
<1>4. ASSUME UNCHANGED pipe PROVE SamePipes
  BY <1>1, <1>4, ContentsSame
<1>5. ASSUME ReadPipe(c), client[c].pc \in WithPipe, client[c].code # PUBLISH PROVE SamePipes
  <2>1. c \in pipe[c].readers
    BY <1>1, <1>5 DEF PipeEnds
  <2>2. \E new : pipe' = [pipe EXCEPT ![c].cells = new]
    BY <1>5 DEF ReadPipe
  <2>. QED
    BY <1>1, <2>1, <2>2, ContentsChange
<1>6. ASSUME NEW cells, WritePipe(c, cells) PROVE SamePipes
  <2>1. \E new : pipe' = [pipe EXCEPT ![c].cells = new]
    BY <1>6 DEF WritePipe
  <2>. QED
    BY <1>1, <1>6, <2>1, ContentsChange DEF WritePipe, Writable
<1>7. ASSUME BrokerStill, SamePipes, client[c].pc \in WithPipe,
             NEW label, CanGoTo(c, label), Changes(c, label)
      PROVE  Typed'
  <2>1. Stays(c)
    BY <1>7, ClientChanges DEF CanGoTo, Stays, Moves, ClientRole, WithPipe
  <2>. QED
    BY <1>7, <2>1, ClientGoesOnTypes
<1>8. ASSUME BrokerStill, SamePipes, client[c].pc \in {"start", "send"},
             NEW label \in {"send", "open", "failed"}, Changes(c, label)
      PROVE  Typed'
  <2>1. Stays(c)
    BY <1>8, ClientChanges DEF Stays, Moves, ClientRole, WithPipe, ClientPCs
  <2>. QED
    BY <1>8, <2>1, ClientGoesOnTypes
<1>9. ASSUME BrokerStill, Dies(c) PROVE Typed'
  <2>1. ClosesEnd(c) /\ GoOn(c, "failed")
    BY <1>9 DEF Dies, ClosesEnd
  <2>. QED
    BY <1>9, <2>1, ClientClosesTypes
<1>10. CASE OpenRegister(c)
  <2>1. \E label \in {"send", "failed"} : Changes(c, label)
    BY <1>10 DEF OpenRegister, Changes
  <2>. QED
    BY <1>2, <1>3, <1>4, <1>8, <1>10, <2>1 DEF OpenRegister
<1>11. CASE SendRequest(c)
  <2>1. \E label \in {"open", "failed"} : Changes(c, label)
    BY <1>11 DEF SendRequest, Changes
  <2>2. BrokerStill /\ client[c].pc = "send"
    BY <1>2, <1>3, <1>11 DEF SendRequest, WriteRegister, BrokerStill, mainVars, processVars
  <2>3. SamePipes
    <3>1. pipe' = [pipe EXCEPT ![c].made = TRUE]
      BY <1>11 DEF SendRequest
    <3>. QED
      BY <1>1, <3>1 DEF SamePipes, Ends, PipeEnds, PipeFields
  <2>. QED
    BY <1>8, <2>1, <2>2, <2>3
<1>12. CASE PipeOpened(c)
  <2>1. client[c].pc = "opening" /\ client[c].code \in Codes
    BY <1>1, <1>2, <1>12 DEF PipeOpened, Shape
  <2>2. PICK label : CanGoTo(c, label) /\ Changes(c, label)
    <3>. DEFINE label == CASE client[c].code = PUBLISH -> "sleep"
                           [] client[c].code = SUBSCRIBE -> "test"
                           [] client[c].code \in {CREATE, REMOVE} -> "response"
                           [] client[c].code = LIST -> "list"
                x == IF client[c].code = SUBSCRIBE THEN 0 ELSE client[c].end
    <3>1. CanGoTo(c, label)
      BY <2>1 DEF Codes, BoxCodes, PUBLISH, SUBSCRIBE, CREATE, REMOVE, LIST, CanGoTo, WithPipe,
                  ClientPCs
    <3>2. Notes(c, label, x)
      BY <1>12 DEF PipeOpened, Notes
    <3>3. x \in {0, 1, client[c].end}
      OBVIOUS
    <3>. QED
      BY <3>1, <3>2, <3>3 DEF Changes
  <2>. QED
    BY <1>3, <1>4, <1>7, <1>12, <2>1, <2>2 DEF PipeOpened, WithPipe, ClientPCs
<1>13. CASE CloseClient(c)
  <2>1. ClosesEnd(c) /\ GoOn(c, "done")
    BY <1>13 DEF CloseClient, ClosesEnd
  <2>. QED
    BY <1>3, <1>13, <2>1, ClientClosesTypes DEF CloseClient
<1>14. CASE PublisherSleeps(c)
  <2>1. client[c].pc = "sleep" /\ Changes(c, "test") /\ CanGoTo(c, "test")
    BY <1>1, <1>2, <1>14
    DEF PublisherSleeps, Changes, Notes, CanGoTo, WithPipe, ClientPCs, ClientRole
  <2>. QED
    BY <1>3, <1>4, <1>7, <1>14, <2>1 DEF PublisherSleeps, WithPipe, ClientPCs
<1>15. CASE PublisherTests(c)
  <2>1. client[c].pc = "test" /\ Changes(c, "loop") /\ CanGoTo(c, "loop")
    BY <1>1, <1>2, <1>15
    DEF PublisherTests, Changes, Notes, CanGoTo, WithPipe, ClientPCs, ClientRole
  <2>2. SamePipes
    BY <1>4, <1>6, <1>15 DEF PublisherTests
  <2>. QED
    BY <1>3, <1>7, <1>15, <2>1, <2>2 DEF PublisherTests, WithPipe, ClientPCs
<1>16. CASE PublisherLoop(c)
  <2>1. client[c].pc = "loop" /\ CanGoTo(c, "fgets") /\ CanGoTo(c, "close")
    BY <1>1, <1>2, <1>16 DEF PublisherLoop, CanGoTo, WithPipe, ClientPCs, ClientRole
  <2>2. Changes(c, "fgets") \/ Changes(c, "close")
    BY <1>16 DEF PublisherLoop, Changes
  <2>. QED
    BY <1>3, <1>4, <1>7, <1>16, <2>1, <2>2 DEF PublisherLoop, WithPipe, ClientPCs
<1>17. CASE PublisherReadsLine(c)
  <2>1. client[c].pc = "fgets" /\ CanGoTo(c, "write") /\ CanGoTo(c, "close")
    BY <1>1, <1>2, <1>17 DEF PublisherReadsLine, CanGoTo, WithPipe, ClientPCs, ClientRole
  <2>2. Changes(c, "write") \/ Changes(c, "close")
    BY <1>17 DEF PublisherReadsLine, Changes
  <2>. QED
    BY <1>3, <1>4, <1>7, <1>17, <2>1, <2>2 DEF PublisherReadsLine, WithPipe, ClientPCs
<1>18. CASE PublisherWrites(c)
  <2>1. client[c].pc = "write" /\ CanGoTo(c, "loop")
    BY <1>1, <1>2, <1>18 DEF PublisherWrites, CanGoTo, WithPipe, ClientPCs, ClientRole
  <2>2. CASE Dies(c)
    BY <1>3, <1>9, <1>18, <2>2 DEF PublisherWrites
  <2>3. CASE WritePipe(c, Message("9", client[c].data)) /\ GoOn(c, "loop")
    <3>1. Changes(c, "loop")
      BY <2>3 DEF Changes
    <3>. QED
      BY <1>3, <1>6, <1>7, <1>18, <2>1, <2>3, <3>1 DEF PublisherWrites, WithPipe, ClientPCs
  <2>. QED
    BY <1>18, <2>2, <2>3 DEF PublisherWrites
<1>19. CASE SubscriberTests(c)
  <2>1. client[c].pc = "test" /\ client[c].code = SUBSCRIBE
        /\ CanGoTo(c, "first") /\ CanGoTo(c, "close")
    BY <1>1, <1>2, <1>19 DEF SubscriberTests, CanGoTo, WithPipe, ClientPCs, ClientRole
  <2>2. Changes(c, "first") \/ Changes(c, "close")
    BY <1>19 DEF SubscriberTests, Changes
  <2>3. client[c].pc \in WithPipe /\ client[c].code # PUBLISH
    BY <2>1 DEF WithPipe, ClientPCs, SUBSCRIBE, PUBLISH
  <2>. QED
    BY <1>3, <1>5, <1>7, <1>19, <2>1, <2>2, <2>3 DEF SubscriberTests
<1>20. CASE SubscriberReads(c)
  <2>1. client[c].pc \in {"first", "read"} /\ client[c].code = SUBSCRIBE
        /\ CanGoTo(c, "print") /\ CanGoTo(c, "close")
    BY <1>1, <1>2, <1>20 DEF SubscriberReads, CanGoTo, WithPipe, ClientPCs, ClientRole
  <2>2. Changes(c, "print") \/ Changes(c, "close")
    <3>1. \E label \in {"close", "print"} : \E x :
            client' = [client EXCEPT ![c].pc = label, ![c].data = x]
      BY <1>20 DEF SubscriberReads
    <3>. QED
      BY <3>1 DEF Changes
  <2>3. client[c].pc \in WithPipe /\ client[c].code # PUBLISH
    BY <2>1 DEF WithPipe, ClientPCs, SUBSCRIBE, PUBLISH
  <2>. QED
    BY <1>3, <1>5, <1>7, <1>20, <2>1, <2>2, <2>3 DEF SubscriberReads
<1>21. CASE SubscriberPrints(c)
  <2>1. client[c].pc = "print" /\ CanGoTo(c, "read") /\ CanGoTo(c, "close")
    BY <1>1, <1>2, <1>21 DEF SubscriberPrints, CanGoTo, WithPipe, ClientPCs, ClientRole
  <2>2. Changes(c, "read") \/ Changes(c, "close")
    BY <1>21 DEF SubscriberPrints, Changes
  <2>. QED
    BY <1>3, <1>4, <1>7, <1>21, <2>1, <2>2 DEF SubscriberPrints, WithPipe, ClientPCs
<1>22. CASE ManagerReads(c)
  <2>1. client[c].pc = "response" /\ client[c].code \in {CREATE, REMOVE} /\ CanGoTo(c, "close")
    BY <1>1, <1>2, <1>22 DEF ManagerReads, CanGoTo, WithPipe, ClientPCs, ClientRole
  <2>2. Changes(c, "close")
    BY <1>22 DEF ManagerReads, Changes
  <2>3. client[c].pc \in WithPipe /\ client[c].code # PUBLISH
    BY <2>1 DEF WithPipe, ClientPCs, CREATE, REMOVE, PUBLISH
  <2>. QED
    BY <1>3, <1>5, <1>7, <1>22, <2>1, <2>2, <2>3 DEF ManagerReads
<1>23. CASE ManagerLists(c)
  <2>1. client[c].pc = "list" /\ client[c].code = LIST
        /\ CanGoTo(c, "list") /\ CanGoTo(c, "close")
    BY <1>1, <1>2, <1>23 DEF ManagerLists, CanGoTo, WithPipe, ClientPCs, ClientRole
  <2>2. Changes(c, "list") \/ Changes(c, "close")
    BY <1>23 DEF ManagerLists, Changes
  <2>3. client[c].pc \in WithPipe /\ client[c].code # PUBLISH
    BY <2>1 DEF WithPipe, ClientPCs, LIST, PUBLISH
  <2>. QED
    BY <1>3, <1>5, <1>7, <1>23, <2>1, <2>2, <2>3 DEF ManagerLists
<1>24. CASE ClientSigint(c)
  <2>1. BrokerStill
    BY <1>3, <1>24 DEF ClientSigint
  <2>2. CASE Dies(c)
    BY <1>9, <2>1, <2>2
  <2>3. ASSUME UNCHANGED pipe, Notes(c, client[c].pc, 1) PROVE Typed'
    <3>1. PICK label : label = client[c].pc
      OBVIOUS
    <3>2. Changes(c, label)
      BY <2>3, <3>1 DEF Changes
    <3>3. Stays(c)
      BY <1>1, <3>1, <3>2, ClientChanges DEF Stays, Moves, ClientRole
    <3>. QED
      BY <1>4, <2>1, <2>3, <3>3, ClientGoesOnTypes
  <2>4. ASSUME UNCHANGED pipe, NEW label \in {"close", "print"}, Notes(c, label, 1),
               \/ label = "close" /\ client[c].pc \in {"fgets", "test"}
               \/ label = "print" /\ client[c].pc \in {"first", "read"}
        PROVE  Typed'
    <3>1. Changes(c, label)
      BY <2>4 DEF Changes
    <3>2. CanGoTo(c, label) /\ client[c].pc \in WithPipe
      BY <1>1, <2>4 DEF CanGoTo, WithPipe, ClientPCs, ClientRole
    <3>. QED
      BY <1>4, <1>7, <2>1, <2>4, <3>1, <3>2
  <2>5. \/ Dies(c)
        \/ /\ UNCHANGED pipe
           /\ \/ Notes(c, client[c].pc, 1)
              \/ Notes(c, "close", 1) /\ client[c].pc \in {"fgets", "test"}
              \/ Notes(c, "print", 1) /\ client[c].pc \in {"first", "read"}
    BY <1>24 DEF ClientSigint, Notes
  <2>. QED
    BY <2>2, <2>3, <2>4, <2>5
<1>. QED
  BY <1>10, <1>11, <1>12, <1>13, <1>14, <1>15, <1>16, <1>17, <1>18, <1>19, <1>20, <1>21,
     <1>22, <1>23, <1>24, OpenPipeTypes DEF ClientStep, PublisherStep, SubscriberStep

------------------------------------------------------------------------------
LEMMA InitTypes ==
    SystemInit => TypeInv
PROOF
<1>. SUFFICES ASSUME SystemInit PROVE TypeInv
  OBVIOUS
<1>1. PICK s \in Scenarios : ClientsInit(s)
  BY DEF SystemInit
<1>2. Init /\ Shape
  BY InitInv DEF SystemInit, IInv
<1>3. MainPlaces /\ WorkerPlaces
  BY <1>2 DEF Init, MainPlaces, WorkerPlaces, WorkerRole, SessionPCs
<1>4. \A c \in Clients :
        /\ client[c].pc \in {"start", "done"} /\ client[c].end = 0
        /\ DOMAIN pipe[c] = PipeFields /\ pipe[c].readers = {} /\ pipe[c].writers = {}
        /\ pipe[c].opened = {} /\ pipe[c].cells = << >>
  BY <1>1 DEF ClientsInit, NoPipe, PipeFields
<1>5. ClientPlaces
  BY <1>4 DEF ClientPlaces, ClientPCs, ClientRole
<1>6. Ends
  <2>1. DOMAIN pipe = Clients
    BY <1>1 DEF ClientsInit
  <2>2. \A w \in Workers : ~ InSession(w)
    BY <1>2 DEF Init, InSession
  <2>. QED
    BY <1>4, <2>1, <2>2 DEF Ends, PipeEnds, HasOpen, Serves, WithPipe
<1>. QED
  BY <1>2, <1>3, <1>5, <1>6 DEF TypeInv, Typed

LEMMA NextKeepsTypes ==
    IInv /\ TypeInv /\ [Next]_vars => TypeInv'
PROOF
<1>. SUFFICES ASSUME IInv, TypeInv, [Next]_vars PROVE Typed'
  BY NextKeepsInv DEF IInv, TypeInv
<1>1. CASE MainStep
  <2>1. CASE BrokerReturn /\ pipe' = [c \in Clients |-> Closing(pipe[c], Workers)]
                          /\ UNCHANGED client
    <3>1. end = 1 /\ process' = "exited"
          /\ UNCHANGED <<main, incoming, end, mishaps, worker, client>>
      BY <2>1 DEF BrokerReturn, Main, mainVars, TypeInv, Typed, MainPlaces
    <3>. QED
      BY <2>1, <3>1, BrokerEndsTypes DEF AllClosed
  <2>2. CASE BrokerStep /\ UNCHANGED clientVars
    BY <2>2, MainKeepsTypes DEF clientVars
  <2>3. CASE BrokerOpen(\E c \in Clients : Client(c, "start")) /\ UNCHANGED clientVars
    <3>1. \E x : BrokerOpen(x)
      BY <2>3 DEF BrokerOpen
    <3>. QED
      BY <2>3, <3>1, MainKeepsTypes DEF clientVars
  <2>. QED
    BY <1>1, <2>1, <2>2, <2>3 DEF MainStep
<1>2. ASSUME NEW w \in Workers, WorkerStep(w) PROVE Typed'
  BY <1>2, CopiesKeepTypes, SessionKeepsTypes DEF WorkerStep
<1>3. ASSUME NEW c \in Clients, ClientStep(c) \/ PublisherReadsLine(c) \/ ClientSigint(c)
      PROVE  Typed'
  BY <1>3, ClientKeepsTypes
<1>4. CASE BrokerGetsSigint \/ UNCHANGED vars
  <2>1. UNCHANGED <<client, pipe>> /\ (BrokerSigint \/ UNCHANGED registrationVars)
    BY <1>4 DEF BrokerGetsSigint, vars, clientVars
  <2>. QED
    BY <2>1, MainKeepsTypes
<1>. QED
  BY <1>1, <1>2, <1>3, <1>4 DEF Next

\* However many clients and workers there are, and whatever becomes of requests:
\* who reads, writes or has opened a client's pipe is where its program has the
\* pipe open, and there is data only while somebody has.
THEOREM ClientsTypeCorrect == Spec => []TypeOK
PROOF
<1>1. TypeInv => TypeOK
  <2>. SUFFICES ASSUME TypeInv PROVE TypeOK
    OBVIOUS
  <2>1. ASSUME NEW c \in Clients
        PROVE  /\ pipe[c].opened \subseteq pipe[c].readers \cup pipe[c].writers
               /\ pipe[c].cells # << >> => pipe[c].readers \cup pipe[c].writers # {}
               /\ c \in pipe[c].opened =>
                    client[c].pc \notin {"start", "send", "open", "done", "failed"}
               /\ \A w \in Workers \cap pipe[c].opened :
                    path(w) = c /\ InSession(w) /\ worker[w].pc # "open"
    BY DEF TypeInv, Typed, Ends, PipeEnds, WithPipe, HasOpen, Serves
  <2>2. MainPlaces /\ WorkerPlaces /\ ClientPlaces
    BY DEF TypeInv, Typed
  <2>. QED
    BY <2>1, <2>2 DEF TypeOK, MainPlaces, WorkerPlaces, ClientPlaces
<1>. QED
  BY <1>1, InitInv, NextKeepsInv, InitTypes, NextKeepsTypes, PTL DEF Spec
==============================================================================
