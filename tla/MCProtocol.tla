----------------------------- MODULE MCProtocol -----------------------------
(* Instances of Protocol for TLC. *)
EXTENDS Protocol

SomeTexts == {<<>>, <<Other>>, <<0, 0, 2, Other>>, <<1, 2, 3>>, <<0, 0, 1, 0, 0, 2, Other>>,
              [i \in 1..23 |-> i % 10]}
SomeNames == {<<>>, <<7>>, <<0, 0, 4, 2>>}
SomeNamings ==
  {[s \in Slots |-> CASE s = 1 -> a [] s \in {2, 10} -> b [] OTHER -> c] : a, b, c \in SomeNames}
SomeOnlines == {{1}, {2, 7}, {1, 2, 10}, Slots \ {5}, Slots}
SomeWindows ==
  [type : {0, 5}, wid : {1, 123}, x : {0, 9999}, y : {80, 4520}, z : {0, 45}, w : {7, 3985}, h : {24, 563}]
Behind == {NUL, Other, 0, 5}
BehindNames == {<<Other>>}
=============================================================================
