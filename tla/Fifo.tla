-------------------------------- MODULE Fifo --------------------------------
(***************************************************************************)
(* What a user of cbuf expects: a first-in first-out store of bytes, each   *)
(* method acting on it in one step. Bytes leave in the order in which they  *)
(* came, each of them once; peek() leaves the first byte where it is, and   *)
(* only write(), read(), remove() and flush() change what is stored.        *)
(***************************************************************************)
EXTENDS Naturals, Sequences

CONSTANT Modulus     \* the bytes are numbered modulo this

VARIABLES items,     \* the bytes stored, the oldest first
          next,      \* the number of the next byte
          answer     \* the method that returned last, and what it handed out

vars == <<items, next, answer>>

Answer(method, bytes) == [by |-> method, bytes |-> bytes]
NoAnswer == Answer("none", <<>>)

Init == items = <<>> /\ next = 0 /\ answer = NoAnswer

\* A method was called: it has not answered yet.
Call == answer' = NoAnswer /\ UNCHANGED <<items, next>>

\* New bytes go behind the ones stored.
Write ==
    \E n \in 0 .. Modulus - 1 :
        /\ items' = items \o [i \in 1 .. n |-> (next + i - 1) % Modulus]
        /\ next' = (next + n) % Modulus
        /\ answer' = Answer("write", <<>>)

Drop(n) == items' = SubSeq(items, n + 1, Len(items)) /\ UNCHANGED next

Read ==
    \E n \in 0 .. Len(items) :
        /\ Drop(n)
        /\ answer' = Answer("read", SubSeq(items, 1, n))

Remove ==
    \E n \in 0 .. Len(items), method \in {"remove", "flush"} :
        /\ Drop(n)
        /\ answer' = Answer(method, <<>>)

\* peek() shows the first byte, or nothing if the store looks empty to it.
Peek ==
    /\ \/ answer' = Answer("peek", <<>>)
       \/ items # <<>> /\ answer' = Answer("peek", <<Head(items)>>)
    /\ UNCHANGED <<items, next>>

Other ==
    /\ \E method \in {"available", "resize"} : answer' = Answer(method, <<>>)
    /\ UNCHANGED <<items, next>>

Next == Call \/ Write \/ Read \/ Remove \/ Peek \/ Other

Spec == Init /\ [][Next]_vars
=============================================================================
