---- MODULE MCPoly1305 ----
(* Poly1305 with words of two three-bit bytes: P = 2^26 - 5. The key with  *)
(* r = 1 and two blocks of ones take the accumulator past P.               *)
EXTENDS Poly1305

Ones == 2^WordBits - 1
KeysVal == {<<Ones, Ones, Ones, Ones, Ones, Ones, Ones, Ones>>,
            <<1, 0, 0, 0, 5, 0, 0, Ones>>,
            <<0, 0, 0, 4, 1, 2, 3, 4>>,
            <<6, 25, 30, 44, Ones, 0, Ones, 1>>,
            <<7, 4, 0, 4, 8, 7, 6, Ones>>}
ChunksVal == UNION {{[i \in 1 .. n |-> 0], [i \in 1 .. n |-> 7], [i \in 1 .. n |-> i % 8]} : n \in {1, 7, 8, 9, 17}}
=============================================================================
