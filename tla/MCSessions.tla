----------------------------- MODULE MCSessions -----------------------------
(* Two or three workers on one or two boxes, and a few messages. *)
EXTENDS Sessions, TLC
CONSTANTS a, b, c, nul

Symmetry == Permutations(Workers)

\* Requests to publish, subscribe, create, remove and list.
Requests(p, s, c_, r, l, names) ==
    [left |-> [kind \in Kinds |->
                 CASE kind = "publish" -> p [] kind = "subscribe" -> s
                   [] kind = "create"  -> c_ [] kind = "remove"   -> r [] kind = "list" -> l],
     names |-> names]

TwoSubscribers == {Requests(1, 2, 1, 0, 0, {1})}
TwoBoxes == {Requests(1, 2, 2, 0, 0, {1, 2})}
TwoPublishers == {Requests(2, 0, 1, 0, 0, {1})}

\* A publisher and a subscriber of a box that is removed and created again.
Recreated == {Requests(1, 1, 2, 1, 0, {1})}

\* With clients that leave: TwoSubscribers, TwoPublishers, and a publisher, or a
\* subscriber and a listing, of a box that is removed and created again.
SubscribersAndOthers ==
    TwoSubscribers \cup TwoPublishers
        \cup {Requests(1, 0, 2, 1, 0, {1}), Requests(0, 1, 2, 1, 1, {1})}

\* Managers that race, a listing of up to three boxes, creations that use up
\* the handles, TwoSubscribers, and a publisher and a subscriber of a box that is
\* created twice, or removed, or one of them when it is created again.
Managers ==
    {Requests(0, 0, 2, 2, 1, {1, 2}), Requests(0, 0, 3, 0, 1, {1, 2}),
     Requests(0, 0, 5, 0, 0, {1, 2}),
     Requests(1, 1, 2, 0, 0, {1}), Requests(1, 1, 1, 1, 0, {1}),
     Requests(1, 0, 2, 1, 0, {1}), Requests(0, 1, 2, 1, 0, {1})} \cup TwoSubscribers

\* The messages: one character and its NUL take two bytes of a box.
OneMessage == <<<<a>>>>
TwoMessages == <<<<a>>, <<b>>>>
EmptyThenTwo == <<<< >>, <<a>>, <<b>>>>
EmptyBetween == <<<<a>>, << >>, <<b>>>>

\* The memory of a new thread's stack, and what may follow the buffer in it.
ZeroStack == {[i \in 1 .. BLOCK_SIZE |-> nul]}
ZeroBeyond == {<<nul, nul>>}
AnyBeyond == {<<nul, nul>>, <<c, nul>>}
=============================================================================
