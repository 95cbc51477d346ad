---- MODULE MCProgram ----
EXTENDS Program

(* Two short files, and one long enough for the count of bits to carry.    *)
MCContents == {<<1, 2>>, <<1>>, [i \in 1 .. 33 |-> i % 3]}

(* Chunks one after the other from the RIFF header on, with something      *)
(* behind them, or cut off.                                                *)
Sizes == [hdrl |-> 68, movi |-> 6, idx1 |-> 32, indx |-> 4, junk |-> 3]
Chunk(kind, frameCount, list) ==
  [kind |-> kind, size |-> IF kind = "idx1" THEN 16 * Len(list) ELSE Sizes[kind],
   frames |-> frameCount, entries |-> list]
IndexLists == {<<"good", "good">>, <<"good", "bad">>, <<"other", "good">>,
               <<"good", "other", "good">>}
Headers == {Chunk("hdrl", n, <<>>) : n \in {0, 2}}
Indexes == {Chunk("idx1", 0, l) : l \in IndexLists} \cup {Chunk("indx", 0, <<>>)}
Movi == Chunk("movi", 0, <<>>)
Junk == Chunk("junk", 0, <<>>)
Orders == {<<h, Movi, i>> : h \in Headers, i \in Indexes}
          \cup {<<h, Junk, Movi, i>> : h \in Headers, i \in Indexes}
          \cup {<<h, Movi>> : h \in Headers} \cup {<<Movi, i>> : i \in Indexes}
          \cup {<<h, i>> : h \in Headers, i \in Indexes}

StartOf(cs, k) == 12 + FoldLeft(LAMBDA n, c : n + 8 + c.size + (c.size % 2), 0, SubSeq(cs, 1, k - 1))
LaidOut(cs) == {[at |-> StartOf(cs, k), kind |-> cs[k].kind, size |-> cs[k].size,
                 frames |-> cs[k].frames, entries |-> cs[k].entries] : k \in DOMAIN cs}
Cuts(whole) == {whole, whole + 10} \cup {n \in {4, 20, 70, 100, 106, 110, 130, 150} : n < whole}
Captures(cs) ==
  LET whole == StartOf(cs, Len(cs) + 1)
  IN  {[chunks |-> LaidOut(cs), riffSize |-> r, size |-> n] :
         r \in {0, whole - 8, whole + 2}, n \in Cuts(whole)}
MCAVIFiles == UNION {Captures(cs) : cs \in Orders}

(* Every text of up to five characters with one digit, except that other   *)
(* characters come only in short ones.                                     *)
MCTexts == UNION {[1 .. n -> {1, Colon, Point}] : n \in 0 .. 5}
           \cup UNION {[1 .. n -> {1, Colon, Point, Other}] : n \in 1 .. 3}

(* Binary numbers, so that the third file of a name needs a second digit.  *)
MCDigits == 0 .. 1
====
