---------------------------- MODULE Stream_proofs ----------------------------
(***************************************************************************)
(* The framing, for every list of frames, every size of the pieces and     *)
(* every moment at which the sender may close; and the strict decoders,    *)
(* for every sequence of bytes.                                            *)
(***************************************************************************)
EXTENDS Stream, TLAPS, WellFoundedInduction, FiniteSetTheorems

Frame == {f \in Seq(Nat) : Len(f) < Base * Base}
Encoded(f) == Prefix(Len(f)) \o f

\* The cells the receiver has or will get, from the start of the frame it is
\* reading: the prefix it has read, its buffer, the connection, the sender.
Fields(r) == (IF r.phase = "body" THEN Prefix(r.need) ELSE <<>>) \o r.buf
Cells(r, n, o) == Fields(r) \o (n \o o)

\* What every action keeps to.
Reader == [phase : {"prefix", "body"}, need : Nat, buf : Seq(Nat)]
TypeOK ==
    /\ todo \in [frames : Seq(Frame), checked : BOOLEAN]
    /\ handed \in Seq(Frame) /\ got \in Seq(Frame)
    /\ out \in Seq(Nat) /\ net \in Seq(Nat)
    /\ tx \in {"open", "closed", "failed"} /\ cut \in BOOLEAN
    /\ rx \in Reader /\ broken \in BOOLEAN
    /\ err \in {"OK", "IO", "MALFORMED_PACKET", "PAYLOAD_TOO_LARGE", "TIMEOUT"}

\* The sender: nothing is left over once it has closed, and auth_tcp_send has
\* let no large frame through.
SenderInv ==
    /\ tx # "open" => out = <<>>
    /\ tx = "open" => ~cut
    /\ todo.checked => \A i \in 1..Len(handed) : Len(handed[i]) <= MAX_DATAGRAM

\* The receiver: it never holds a full field, and the body it waits for is
\* that of the next frame.
ReaderInv ==
    err = "OK" =>
        /\ Len(rx.buf) < rx.need
        /\ rx.phase = "prefix" => rx.need = PREFIX
        /\ rx.phase = "body" => Len(got) < Len(handed) /\ rx.need = Len(handed[Len(got) + 1])

\* pos gives the place in p of every frame of h after the first g: the frames
\* lie in p one after the other, and only the end of the last may be missing.
PlacedAt(pos, p, h, g, torn) ==
    /\ pos \in [g + 1..Len(h) + 1 -> Nat]
    /\ pos[g + 1] = 0
    /\ \A i \in g + 1..Len(h) : pos[i + 1] = pos[i] + PREFIX + Len(h[i])
    /\ \A i, j \in g + 1..Len(h) + 1 : i <= j => pos[i] <= pos[j]
    /\ \A i \in g + 1..Len(h) : \A k \in 1..PREFIX + Len(h[i]) :
          pos[i] + k <= Len(p) => p[pos[i] + k] = Encoded(h[i])[k]
    /\ Len(p) <= pos[Len(h) + 1]
    /\ ~torn => Len(p) = pos[Len(h) + 1]
Placed(p, h, g, torn) == \E pos \in [g + 1..Len(h) + 1 -> Nat] : PlacedAt(pos, p, h, g, torn)

\* What an ended receiver reported was so, as far as its own calls succeeded.
VerdictInv ==
    /\ err = "MALFORMED_PACKET" \/ (err = "IO" /\ ~broken) => tx # "open"
    /\ err = "IO" /\ ~cut /\ ~broken => got = handed
    /\ err = "MALFORMED_PACKET" => cut
    /\ err = "PAYLOAD_TOO_LARGE" => /\ ~todo.checked /\ Len(got) < Len(handed)
                                    /\ Len(handed[Len(got) + 1]) > MAX_DATAGRAM

StreamInv ==
    /\ TypeOK /\ SenderInv /\ ReaderInv /\ VerdictInv
    /\ Len(got) <= Len(handed) /\ \A i \in 1..Len(got) : got[i] = handed[i]
    /\ err = "OK" => Placed(Cells(rx, net, out), handed, Len(got), cut)

-----------------------------------------------------------------------------
(* Sequences of cells.                                                     *)

\* The cells of a concatenation.
LEMMA ConcatCells ==
    ASSUME NEW S, NEW p \in Seq(S), NEW q \in Seq(S)
    PROVE  /\ p \o q \in Seq(S) /\ Len(p \o q) = Len(p) + Len(q)
           /\ Len(p) \in Nat /\ Len(q) \in Nat
           /\ \A k \in 1..Len(p) : (p \o q)[k] = p[k]
           /\ \A k \in 1..Len(q) : (p \o q)[Len(p) + k] = q[k]
OBVIOUS

\* The cells of a piece.
LEMMA SubSeqCells ==
    ASSUME NEW S, NEW p \in Seq(S), NEW m \in Nat, NEW n \in Nat, m <= n, n <= Len(p)
    PROVE  /\ SubSeq(p, m + 1, n) \in Seq(S) /\ Len(SubSeq(p, m + 1, n)) = n - m
           /\ \A k \in 1..n - m : SubSeq(p, m + 1, n)[k] = p[m + k]
OBVIOUS

\* Two sequences with the same cells are the same.
LEMMA SameCells ==
    ASSUME NEW S, NEW p \in Seq(S), NEW q \in Seq(S), Len(p) = Len(q),
           \A k \in 1..Len(p) : p[k] = q[k]
    PROVE  p = q
OBVIOUS

\* Concatenation is associative.
LEMMA ConcatAssoc ==
    ASSUME NEW p \in Seq(Nat), NEW q \in Seq(Nat), NEW r \in Seq(Nat)
    PROVE  (p \o q) \o r = p \o (q \o r)
OBVIOUS

\* One send or recv call splits the cells into those it moves and the rest.
LEMMA SplitCells ==
    ASSUME NEW S, NEW p \in Seq(S), NEW m \in Nat, m <= Len(p)
    PROVE  /\ SubSeq(p, 1, m) \in Seq(S) /\ SubSeq(p, m + 1, Len(p)) \in Seq(S)
           /\ Len(SubSeq(p, 1, m)) = m /\ Len(SubSeq(p, m + 1, Len(p))) = Len(p) - m
           /\ p = SubSeq(p, 1, m) \o SubSeq(p, m + 1, Len(p))
<1> DEFINE a == SubSeq(p, 1, m)
           b == SubSeq(p, m + 1, Len(p))
<1>1. /\ a \in Seq(S) /\ Len(a) = m /\ \A k \in 1..m : a[k] = p[k]
      /\ b \in Seq(S) /\ Len(b) = Len(p) - m /\ \A k \in 1..Len(p) - m : b[k] = p[m + k]
      /\ Len(p) \in Nat
    OBVIOUS
<1> HIDE DEF a, b
<1>2. /\ a \o b \in Seq(S) /\ Len(a \o b) = Len(p)
      /\ \A k \in 1..m : (a \o b)[k] = a[k]
      /\ \A k \in 1..Len(p) - m : (a \o b)[m + k] = b[k]
    BY <1>1, ConcatCells
<1>3. ASSUME NEW k \in 1..Len(p) PROVE (a \o b)[k] = p[k]
  <2>1. CASE k <= m
      BY <2>1, <1>1, <1>2
  <2>2. CASE k > m
    <3>1. k - m \in 1..Len(p) - m /\ k = m + (k - m)
        BY <2>2, <1>1
    <3> QED BY <3>1, <1>1, <1>2
  <2> QED BY <2>1, <2>2, <1>1
<1>4. a \o b = p
    BY <1>2, <1>3, SameCells
<1> QED BY <1>1, <1>4 DEF a, b

-----------------------------------------------------------------------------
(* The length prefix.                                                      *)

\* auth_tcp_recv reads the length that auth_tcp_send wrote.
LEMMA PrefixReads ==
    ASSUME NEW n \in Nat, n < Base * Base
    PROVE  /\ Prefix(n) \in Seq(Nat) /\ Len(Prefix(n)) = PREFIX
           /\ LengthOf(Prefix(n)) = n
<1>1. /\ n % 16 \in 0..15 /\ n \div 16 \in Nat /\ n = 16 * (n \div 16) + (n % 16)
    BY DEF Base
<1>2. n \div 16 \in 0..15
    BY <1>1 DEF Base
<1>3. (n \div 16) % 16 = n \div 16
    BY <1>2
<1> QED BY <1>1, <1>2, <1>3 DEF Prefix, LengthOf, PREFIX, Base

\* The size of the prefix, where its value does not matter.
LEMMA PrefixNat == PREFIX \in Nat /\ PREFIX > 0
BY DEF PREFIX

\* A place within a frame that lies within the stream.
LEMMA PlaceWithin ==
    ASSUME NEW w \in Nat, NEW x \in Nat, NEW y \in Nat, NEW l \in Nat, NEW c \in 1..w + y,
           x + w + y <= l
    PROVE  x + c \in 1..l /\ x + c <= l
OBVIOUS

\* The same place in a stream of which the end, or the beginning, is gone.
LEMMA PlaceMoved ==
    ASSUME NEW x \in Nat, NEW c \in Nat, c >= 1, NEW l \in Nat, NEW m \in Nat, x + c <= l
    PROVE  /\ x + c \in 1..l /\ m + (x + c) = (x + m) + c /\ (x + m) + c <= m + l
           /\ \A w \in Nat : l <= w => x + c <= w
OBVIOUS
LEMMA SumMoved ==
    ASSUME NEW x \in Nat, NEW y \in Nat, NEW m \in Nat, NEW w \in Nat, NEW z \in Nat, NEW v \in Nat,
           x = z - m, y = v - m, v = z + w
    PROVE  y = x + w /\ z = x + m
OBVIOUS

\* One recv call takes at least one cell and no more than is there or wanted.
LEMMA MinOfThree ==
    ASSUME NEW a \in Int, NEW b \in Int, NEW c \in Int
    PROVE  /\ Min({a, b, c}) \in {a, b, c}
           /\ Min({a, b, c}) <= a /\ Min({a, b, c}) <= b /\ Min({a, b, c}) <= c
<1>1. \E x \in {a, b, c} : \A y \in {a, b, c} : x <= y
    OBVIOUS
<1> QED BY <1>1 DEF Min

-----------------------------------------------------------------------------
(* Frames in the stream.                                                   *)

\* Encoding a frame: the prefix, then the cells of the frame.
LEMMA EncodedCells ==
    ASSUME NEW f \in Frame
    PROVE  /\ f \in Seq(Nat) /\ Len(f) \in Nat /\ Len(f) < Base * Base
           /\ Encoded(f) \in Seq(Nat) /\ Len(Encoded(f)) = PREFIX + Len(f)
           /\ \A k \in 1..PREFIX : Encoded(f)[k] = Prefix(Len(f))[k]
           /\ \A k \in 1..Len(f) : Encoded(f)[PREFIX + k] = f[k]
<1>1. f \in Seq(Nat) /\ Len(f) \in Nat /\ Len(f) < Base * Base
    BY DEF Frame
<1>2. Prefix(Len(f)) \in Seq(Nat) /\ Len(Prefix(Len(f))) = PREFIX
    BY <1>1, PrefixReads
<1>3. Encoded(f) \in Seq(Nat) /\ Len(Encoded(f)) = PREFIX + Len(f)
    BY <1>1, <1>2, ConcatCells DEF Encoded
<1>4. \A k \in 1..PREFIX : Encoded(f)[k] = Prefix(Len(f))[k]
    BY <1>1, <1>2, ConcatCells DEF Encoded
<1>5. \A k \in 1..Len(f) : Encoded(f)[PREFIX + k] = f[k]
    BY <1>1, <1>2, ConcatCells DEF Encoded
<1> QED BY <1>1, <1>3, <1>4, <1>5

\* A stream in which nothing was sent.
LEMMA PlacedInit == Placed(<<>>, <<>>, 0, FALSE)
<1> DEFINE pos == [i \in 1..1 |-> 0]
<1>1. PlacedAt(pos, <<>>, <<>>, 0, FALSE) /\ pos \in [0 + 1..Len(<<>>) + 1 -> Nat]
    BY DEF PlacedAt
<1> QED BY <1>1 DEF Placed

\* auth_tcp_send puts the next frame behind the others.
LEMMA PlacedSend ==
    ASSUME NEW h \in Seq(Frame), NEW f \in Frame, NEW p \in Seq(Nat), NEW g \in 0..Len(h),
           Placed(p, h, g, FALSE)
    PROVE  Placed(p \o Encoded(f), Append(h, f), g, FALSE)
<1> DEFINE n == Len(h)
           l == Len(p)
           e == Encoded(f)
           q == p \o e
           hh == Append(h, f)
<1>1. PICK pos \in [g + 1..n + 1 -> Nat] : PlacedAt(pos, p, h, g, FALSE)
    BY DEF Placed
<1> DEFINE new == [x \in g + 1..n + 2 |-> IF x = n + 2 THEN Len(q) ELSE pos[x]]
<1>2. e \in Seq(Nat) /\ Len(e) = PREFIX + Len(f) /\ Len(f) \in Nat
    BY EncodedCells
<1>3. n \in Nat /\ l \in Nat /\ g \in Nat /\ g <= n
    OBVIOUS
<1>4. l = pos[n + 1] /\ pos[g + 1] = 0
    BY <1>1 DEF PlacedAt
<1>5. \A i \in g + 1..n : pos[i + 1] = pos[i] + PREFIX + Len(h[i])
    BY <1>1 DEF PlacedAt
<1>6. \A i, j \in g + 1..n + 1 : i <= j => pos[i] <= pos[j]
    BY <1>1 DEF PlacedAt
<1>7. \A i \in g + 1..n : \A k \in 1..PREFIX + Len(h[i]) :
          pos[i] + k <= l => p[pos[i] + k] = Encoded(h[i])[k]
    BY <1>1 DEF PlacedAt
<1>8. /\ q \in Seq(Nat) /\ Len(q) = l + Len(e)
      /\ \A k \in 1..l : q[k] = p[k]
      /\ \A k \in 1..Len(e) : q[l + k] = e[k]
  <2> HIDE DEF e
  <2>1. q \in Seq(Nat) /\ Len(q) = l + Len(e)
      BY <1>2, ConcatCells
  <2>2. \A k \in 1..l : q[k] = p[k]
      BY <1>2, ConcatCells
  <2>3. \A k \in 1..Len(e) : q[l + k] = e[k]
      BY <1>2, ConcatCells
  <2> QED BY <2>1, <2>2, <2>3
<1>9. Len(q) \in Nat /\ Len(q) = l + PREFIX + Len(f)
    BY <1>2, <1>3, <1>8, PrefixNat
<1>10. hh \in Seq(Frame) /\ Len(hh) = n + 1 /\ hh[n + 1] = f
    OBVIOUS
<1>11. \A i \in 1..n : hh[i] = h[i] /\ Len(h[i]) \in Nat
  <2>1. ASSUME NEW a \in 1..n PROVE hh[a] = h[a] /\ h[a] \in Frame
      OBVIOUS
  <2> QED BY <2>1, EncodedCells
<1> HIDE DEF q, hh, e, n, l
<1>12. new \in [g + 1..n + 2 -> Nat] /\ new[n + 2] = Len(q) /\ \A i \in g + 1..n + 1 : new[i] = pos[i]
    BY <1>3, <1>9
<1> HIDE DEF new
<1>13. \A i \in g + 1..n + 1 : pos[i] \in Nat /\ new[i] = pos[i] /\ pos[i] <= l
  <2>1. n + 1 \in g + 1..n + 1
      BY <1>3
  <2>2. ASSUME NEW a \in g + 1..n + 1 PROVE pos[a] <= pos[n + 1] /\ pos[a] \in Nat
      BY <2>1, <1>3, <1>6
  <2> QED BY <2>2, <1>4, <1>12
<1>14. new[g + 1] = 0 /\ Len(q) = new[n + 2]
    BY <1>3, <1>4, <1>12
<1>15. ASSUME NEW a \in g + 1..n + 1
       PROVE  new[a + 1] = new[a] + PREFIX + Len(hh[a])
  <2>1. CASE a = n + 1
      BY <2>1, <1>3, <1>4, <1>9, <1>10, <1>12
  <2>2. CASE a # n + 1
    <3>1. a \in g + 1..n /\ a \in 1..n /\ a + 1 \in g + 1..n + 1
        BY <2>2, <1>3
    <3> QED BY <3>1, <1>5, <1>11, <1>12
  <2> QED BY <2>1, <2>2
<1>16. ASSUME NEW a \in g + 1..n + 2, NEW b \in g + 1..n + 2, a <= b
       PROVE  new[a] <= new[b]
  <2>1. CASE b = n + 2
    <3>1. CASE a = n + 2
        BY <3>1, <2>1, <1>9, <1>14
    <3>2. CASE a # n + 2
      <4>1. a \in g + 1..n + 1
          BY <3>2, <1>3
      <4>2. new[a] \in Nat /\ new[a] <= l
          BY <4>1, <1>13
      <4>3. l <= Len(q)
          BY <1>2, <1>3, <1>9, PrefixNat
      <4> QED BY <4>2, <4>3, <2>1, <1>3, <1>9, <1>14
    <3> QED BY <3>1, <3>2
  <2>2. CASE b # n + 2
    <3>1. a \in g + 1..n + 1 /\ b \in g + 1..n + 1
        BY <2>2, <1>16, <1>3
    <3> QED BY <3>1, <1>6, <1>12, <1>16
  <2> QED BY <2>1, <2>2
<1>17. ASSUME NEW a \in g + 1..n + 1, NEW c \in 1..PREFIX + Len(hh[a]), new[a] + c <= Len(q)
       PROVE  q[new[a] + c] = Encoded(hh[a])[c]
  <2>1. CASE a = n + 1
    <3>1. new[a] = l /\ hh[a] = f /\ c \in 1..Len(e)
        BY <2>1, <1>2, <1>3, <1>4, <1>10, <1>12
    <3> QED BY <3>1, <1>8 DEF e
  <2>2. CASE a # n + 1
    <3>1. a \in g + 1..n /\ a \in 1..n /\ a \in g + 1..n + 1 /\ a + 1 \in g + 1..n + 1
        BY <2>2, <1>3
    <3>2. hh[a] = h[a] /\ Len(h[a]) \in Nat /\ new[a] = pos[a] /\ pos[a] \in Nat
        BY <3>1, <1>11, <1>13
    <3>3. pos[a + 1] = pos[a] + PREFIX + Len(h[a]) /\ pos[a + 1] <= l
        BY <3>1, <1>5, <1>13
    <3>4. c \in 1..PREFIX + Len(h[a])
        BY <3>2
    <3>5. pos[a] + c \in 1..l /\ pos[a] + c <= l
      <4>1. pos[a] + PREFIX + Len(h[a]) <= l
          BY <3>3
      <4> QED BY <4>1, <3>2, <3>4, <1>3, PlaceWithin, PrefixNat
    <3>6. p[pos[a] + c] = Encoded(h[a])[c]
        BY <3>1, <3>4, <3>5, <1>7
    <3>7. q[pos[a] + c] = p[pos[a] + c]
        BY <3>5, <1>8
    <3> QED BY <3>2, <3>6, <3>7
  <2> QED BY <2>1, <2>2
<1>18. Len(hh) = n + 1 /\ Len(hh) + 1 = n + 2
    BY <1>3, <1>10
<1>19. PlacedAt(new, q, hh, g, FALSE)
  <2>1. new \in [g + 1..Len(hh) + 1 -> Nat] /\ Len(q) = new[Len(hh) + 1] /\ new[g + 1] = 0
      BY <1>12, <1>14, <1>18
  <2>2. \A i \in g + 1..Len(hh) : new[i + 1] = new[i] + PREFIX + Len(hh[i])
      BY <1>15, <1>18
  <2>3. \A i, j \in g + 1..Len(hh) + 1 : i <= j => new[i] <= new[j]
      BY <1>16, <1>18
  <2>4. \A i \in g + 1..Len(hh) : \A k \in 1..PREFIX + Len(hh[i]) :
            new[i] + k <= Len(q) => q[new[i] + k] = Encoded(hh[i])[k]
      BY <1>17, <1>18
  <2>5. Len(q) <= new[Len(hh) + 1]
      BY <2>1, <1>9
  <2> QED BY <2>1, <2>2, <2>3, <2>4, <2>5, Zenon DEF PlacedAt
<1>20. new \in [g + 1..Len(hh) + 1 -> Nat]
    BY <1>12, <1>18
<1> QED BY <1>19, <1>20, Zenon DEF Placed, q, hh, e

\* Closing within a frame cuts the end of the stream off.
LEMMA PlacedCut ==
    ASSUME NEW h \in Seq(Frame), NEW p \in Seq(Nat), NEW g \in 0..Len(h), NEW q \in Seq(Nat),
           Len(q) <= Len(p), \A k \in 1..Len(q) : q[k] = p[k], Placed(p, h, g, FALSE)
    PROVE  Placed(q, h, g, TRUE)
<1>1. PICK pos \in [g + 1..Len(h) + 1 -> Nat] : PlacedAt(pos, p, h, g, FALSE)
    BY DEF Placed
<1>2. Len(h) \in Nat /\ Len(p) \in Nat /\ Len(q) \in Nat
    OBVIOUS
<1>3. \A i \in g + 1..Len(h) : pos[i] \in Nat
    BY <1>2
<1>4. ASSUME NEW a \in g + 1..Len(h), NEW c \in 1..PREFIX + Len(h[a]), pos[a] + c <= Len(q)
      PROVE  q[pos[a] + c] = Encoded(h[a])[c]
  <2>1. pos[a] \in Nat /\ c \in Nat /\ c >= 1
    <3>1. h[a] \in Frame
        BY <1>2
    <3>2. PREFIX + Len(h[a]) \in Nat
        BY <3>1, EncodedCells, PrefixNat
    <3> QED BY <3>2, <1>3
  <2>2. pos[a] + c \in 1..Len(q) /\ pos[a] + c <= Len(p)
      BY <2>1, <1>2, <1>4, PlaceMoved
  <2>3. p[pos[a] + c] = Encoded(h[a])[c]
    <3>1. \A i \in g + 1..Len(h) : \A k \in 1..PREFIX + Len(h[i]) :
              pos[i] + k <= Len(p) => p[pos[i] + k] = Encoded(h[i])[k]
        BY <1>1, Zenon DEF PlacedAt
    <3> QED BY <3>1, <2>2, Zenon
  <2> QED BY <2>2, <2>3
<1>5. /\ pos[g + 1] = 0
      /\ \A i \in g + 1..Len(h) : pos[i + 1] = pos[i] + PREFIX + Len(h[i])
      /\ \A i, j \in g + 1..Len(h) + 1 : i <= j => pos[i] <= pos[j]
    BY <1>1, Zenon DEF PlacedAt
<1>6. Len(q) <= pos[Len(h) + 1]
  <2>1. Len(p) = pos[Len(h) + 1]
      BY <1>1 DEF PlacedAt
  <2> QED BY <2>1, <1>2
<1>7. PlacedAt(pos, q, h, g, TRUE)
    BY <1>4, <1>5, <1>6, Zenon DEF PlacedAt
<1> QED BY <1>7, Zenon DEF Placed

\* The next cells of the stream are those of the next frame; a stream that is
\* not torn has all of them.
LEMMA PlacedNext ==
    ASSUME NEW h \in Seq(Frame), NEW p \in Seq(Nat), NEW g \in 0..Len(h), NEW torn \in BOOLEAN,
           Placed(p, h, g, torn)
    PROVE  /\ g = Len(h) => p = <<>>
           /\ g < Len(h) =>
                 /\ \A k \in 1..PREFIX + Len(h[g + 1]) : k <= Len(p) => p[k] = Encoded(h[g + 1])[k]
                 /\ ~torn => PREFIX + Len(h[g + 1]) <= Len(p)
<1>1. PICK pos \in [g + 1..Len(h) + 1 -> Nat] : PlacedAt(pos, p, h, g, torn)
    BY DEF Placed
<1>2. CASE g = Len(h)
    BY <1>1, <1>2 DEF PlacedAt
<1>3. CASE g < Len(h)
  <2>1. g + 1 \in g + 1..Len(h) /\ pos[g + 1] = 0 /\ g + 2 \in g + 1..Len(h) + 1
      BY <1>1, <1>3 DEF PlacedAt
  <2>2. pos[g + 2] = PREFIX + Len(h[g + 1]) /\ pos[g + 2] <= pos[Len(h) + 1]
    <3>1. pos[(g + 1) + 1] = pos[g + 1] + PREFIX + Len(h[g + 1])
        BY <1>1, <2>1 DEF PlacedAt
    <3>2. Len(h) + 1 \in g + 1..Len(h) + 1
        BY <1>3
    <3> QED BY <3>1, <3>2, <2>1, <1>1, PrefixNat DEF PlacedAt
  <2>3. \A k \in 1..PREFIX + Len(h[g + 1]) : pos[g + 1] + k <= Len(p) => p[pos[g + 1] + k] = Encoded(h[g + 1])[k]
      BY <1>1, <2>1 DEF PlacedAt
  <2>4. ~torn => Len(p) = pos[Len(h) + 1]
      BY <1>1 DEF PlacedAt
  <2> QED BY <1>3, <2>1, <2>2, <2>3, <2>4, PrefixNat
<1> QED BY <1>2, <1>3

\* auth_tcp_recv takes the next frame off the front.
LEMMA PlacedTake ==
    ASSUME NEW h \in Seq(Frame), NEW p \in Seq(Nat), NEW g \in 0..Len(h) - 1, NEW torn \in BOOLEAN,
           NEW q \in Seq(Nat), Len(p) = PREFIX + Len(h[g + 1]) + Len(q),
           \A k \in 1..Len(q) : q[k] = p[PREFIX + Len(h[g + 1]) + k],
           Placed(p, h, g, torn)
    PROVE  Placed(q, h, g + 1, torn)
<1> DEFINE n == Len(h)
           l == Len(p)
           m == PREFIX + Len(h[g + 1])
<1>1. PICK pos \in [g + 1..n + 1 -> Nat] : PlacedAt(pos, p, h, g, torn)
    BY DEF Placed
<1>2. n \in Nat /\ l \in Nat /\ Len(q) \in Nat /\ g \in Nat /\ g < n /\ g + 1 \in 1..n
    OBVIOUS
<1>3. \A i \in 1..n : Len(h[i]) \in Nat
  <2>1. ASSUME NEW a \in 1..n PROVE h[a] \in Frame
      OBVIOUS
  <2> QED BY <2>1, EncodedCells
<1>4. m \in Nat
  <2>1. Len(h[g + 1]) \in Nat
      BY <1>2, <1>3
  <2> QED BY <2>1, PrefixNat
<1>5. pos[g + 1] = 0 /\ l <= pos[n + 1] /\ (~torn => l = pos[n + 1])
    BY <1>1, Zenon DEF PlacedAt
<1>6. \A i \in g + 1..n : pos[i + 1] = pos[i] + PREFIX + Len(h[i])
    BY <1>1, Zenon DEF PlacedAt
<1>7. \A i, j \in g + 1..n + 1 : i <= j => pos[i] <= pos[j]
    BY <1>1, Zenon DEF PlacedAt
<1>8. \A i \in g + 1..n : \A k \in 1..PREFIX + Len(h[i]) :
          pos[i] + k <= l => p[pos[i] + k] = Encoded(h[i])[k]
    BY <1>1, Zenon DEF PlacedAt
<1>9. l = m + Len(q) /\ \A k \in 1..Len(q) : q[k] = p[m + k]
    OBVIOUS
<1>10. pos[g + 2] = m /\ g + 2 \in g + 1..n + 1 /\ (g + 1) + 1 = g + 2
  <2>1. g + 1 \in g + 1..n /\ (g + 1) + 1 = g + 2 /\ g + 2 \in g + 1..n + 1
      BY <1>2
  <2>2. pos[(g + 1) + 1] = pos[g + 1] + PREFIX + Len(h[g + 1])
      BY <2>1, <1>6, Zenon
  <2>3. Len(h[g + 1]) \in Nat
      BY <1>2, <1>3
  <2> QED BY <2>1, <2>2, <2>3, <1>5, PrefixNat
<1> HIDE DEF m, n, l
<1>11. ASSUME NEW a \in g + 2..n + 1
       PROVE  a \in g + 1..n + 1 /\ pos[a] \in Nat /\ pos[a] >= m
  <2>1. a \in g + 1..n + 1 /\ g + 2 <= a
      BY <1>2
  <2>2. pos[g + 2] <= pos[a]
      BY <2>1, <1>7, <1>10, Zenon
  <2> QED BY <2>1, <2>2, <1>4, <1>10
<1> DEFINE new == [x \in g + 2..n + 1 |-> pos[x] - m]
<1>12. \A i \in g + 2..n + 1 : new[i] = pos[i] - m /\ new[i] \in Nat
    BY <1>4, <1>11
<1>13. new \in [g + 2..n + 1 -> Nat]
    BY <1>4, <1>11
<1> HIDE DEF new
<1>14. new[g + 2] = 0 /\ Len(q) <= new[n + 1] /\ (~torn => Len(q) = new[n + 1])
  <2>1. g + 2 \in g + 2..n + 1 /\ n + 1 \in g + 2..n + 1
      BY <1>2
  <2>2. new[g + 2] = pos[g + 2] - m /\ new[n + 1] = pos[n + 1] - m /\ pos[n + 1] \in Nat
      BY <2>1, <1>11, <1>12
  <2>3. new[g + 2] = 0
      BY <2>2, <1>4, <1>10
  <2>4. Len(q) <= new[n + 1]
      BY <2>2, <1>2, <1>4, <1>5, <1>9
  <2>5. ~torn => Len(q) = new[n + 1]
      BY <2>2, <1>2, <1>4, <1>5, <1>9
  <2> QED BY <2>3, <2>4, <2>5
<1>15. ASSUME NEW a \in g + 2..n
       PROVE  /\ a \in g + 1..n /\ new[a] \in Nat /\ pos[a] \in Nat /\ new[a] = pos[a] - m
              /\ new[a + 1] = new[a] + PREFIX + Len(h[a]) /\ PREFIX + Len(h[a]) \in Nat
  <2>1. a \in g + 1..n /\ a \in 1..n /\ a \in g + 2..n + 1 /\ a + 1 \in g + 2..n + 1
      BY <1>2
  <2>2. /\ Len(h[a]) \in Nat /\ new[a] \in Nat /\ new[a] = pos[a] - m
        /\ new[a + 1] = pos[a + 1] - m /\ pos[a] \in Nat
      BY <2>1, <1>3, <1>11, <1>12
  <2>3. pos[a + 1] = pos[a] + PREFIX + Len(h[a])
      BY <2>1, <1>6, Zenon
  <2>4. PREFIX + Len(h[a]) \in Nat
      BY <2>2, PrefixNat
  <2>5. new[a + 1] = new[a] + PREFIX + Len(h[a])
    <3>1. pos[a + 1] = pos[a] + (PREFIX + Len(h[a]))
        BY <2>2, <2>3, PrefixNat
    <3>3. pos[a + 1] \in Nat /\ new[a + 1] \in Nat
        BY <2>1, <1>11, <1>12
    <3>2. new[a + 1] = new[a] + (PREFIX + Len(h[a]))
        BY <3>1, <3>3, <2>2, <2>4, <1>4, SumMoved
    <3> QED BY <3>2, <2>2, PrefixNat
  <2> QED BY <2>1, <2>2, <2>4, <2>5
<1>16. ASSUME NEW a \in g + 2..n, NEW c \in 1..PREFIX + Len(h[a]), new[a] + c <= Len(q)
       PROVE  q[new[a] + c] = Encoded(h[a])[c]
  <2>1. c \in Nat /\ c >= 1 /\ new[a] \in Nat /\ pos[a] \in Nat /\ new[a] = pos[a] - m
      BY <1>15
  <2>2. new[a] + c \in 1..Len(q) /\ m + (new[a] + c) = pos[a] + c /\ pos[a] + c <= l
    <3>1. pos[a] = new[a] + m /\ l = m + Len(q)
        BY <2>1, <1>4, <1>9
    <3>2. new[a] + c \in 1..Len(q)
        BY <2>1, <1>2, <1>4, <1>16, PlaceMoved
    <3>3. m + (new[a] + c) = (new[a] + m) + c
        BY <2>1, <1>4
    <3>4. (new[a] + m) + c <= m + Len(q)
        BY <2>1, <1>2, <1>4, <1>16, PlaceMoved
    <3> QED BY <3>1, <3>2, <3>3, <3>4
  <2>3. p[pos[a] + c] = Encoded(h[a])[c]
      BY <2>2, <1>8, <1>15, Zenon
  <2>4. q[new[a] + c] = p[m + (new[a] + c)]
      BY <2>2, <1>9, Zenon
  <2> QED BY <2>2, <2>3, <2>4
<1>17. ASSUME NEW a \in g + 2..n + 1, NEW b \in g + 2..n + 1, a <= b
       PROVE  new[a] <= new[b]
  <2>1. pos[a] <= pos[b]
      BY <1>7, <1>11, <1>17, Zenon
  <2> QED BY <2>1, <1>4, <1>11, <1>12
<1>18. PlacedAt(new, q, h, g + 1, torn)
  <2>1. /\ new \in [(g + 1) + 1..Len(h) + 1 -> Nat] /\ new[(g + 1) + 1] = 0
        /\ Len(q) <= new[Len(h) + 1] /\ (~torn => Len(q) = new[Len(h) + 1])
      BY <1>10, <1>13, <1>14 DEF n
  <2>2. \A i \in (g + 1) + 1..Len(h) : new[i + 1] = new[i] + PREFIX + Len(h[i])
      BY <1>10, <1>15 DEF n
  <2>3. \A i, j \in (g + 1) + 1..Len(h) + 1 : i <= j => new[i] <= new[j]
      BY <1>10, <1>17 DEF n
  <2>4. \A i \in (g + 1) + 1..Len(h) : \A k \in 1..PREFIX + Len(h[i]) :
            new[i] + k <= Len(q) => q[new[i] + k] = Encoded(h[i])[k]
      BY <1>10, <1>16 DEF n
  <2> QED BY <2>1, <2>2, <2>3, <2>4, Zenon DEF PlacedAt
<1>19. new \in [(g + 1) + 1..Len(h) + 1 -> Nat]
    BY <1>10, <1>13 DEF n
<1> QED BY <1>18, <1>19, Zenon DEF Placed

\* When a field is complete, its cells are the first of the next frame.
LEMMA PlacedHead ==
    ASSUME NEW h \in Seq(Frame), NEW g \in 0..Len(h), NEW torn \in BOOLEAN,
           NEW x \in Seq(Nat), NEW q \in Seq(Nat), Len(x) > 0, Placed(x \o q, h, g, torn)
    PROVE  /\ g < Len(h)
           /\ Len(x) <= PREFIX + Len(h[g + 1]) => \A k \in 1..Len(x) : x[k] = Encoded(h[g + 1])[k]
<1> DEFINE p == x \o q
<1>1. p \in Seq(Nat) /\ Len(p) = Len(x) + Len(q) /\ Len(x) \in Nat /\ Len(q) \in Nat
    BY ConcatCells
<1>2. \A k \in 1..Len(x) : p[k] = x[k]
    BY ConcatCells
<1>3. Placed(p, h, g, torn)
    OBVIOUS
<1> HIDE DEF p
<1>4. (g = Len(h) => p = <<>>) /\ (g < Len(h) => \A k \in 1..PREFIX + Len(h[g + 1]) :
                                       k <= Len(p) => p[k] = Encoded(h[g + 1])[k])
    BY <1>1, <1>3, PlacedNext, Zenon
<1>5. p # <<>>
    BY <1>1
<1>6. g < Len(h)
    BY <1>4, <1>5
<1>7. ASSUME Len(x) <= PREFIX + Len(h[g + 1]), NEW c \in 1..Len(x)
      PROVE  x[c] = Encoded(h[g + 1])[c]
  <2>1. h[g + 1] \in Frame
      BY <1>6
  <2>2. PREFIX + Len(h[g + 1]) \in Nat
      BY <2>1, EncodedCells, PrefixNat
  <2>3. c \in 1..PREFIX + Len(h[g + 1]) /\ c <= Len(p)
    <3>1. c \in Nat /\ c >= 1 /\ c <= Len(x) /\ c <= Len(p)
        BY <1>1
    <3>2. c <= PREFIX + Len(h[g + 1])
        BY <3>1, <2>2, <1>1, <1>7
    <3> QED BY <3>1, <3>2, <2>2
  <2>4. p[c] = Encoded(h[g + 1])[c]
      BY <2>3, <1>4, <1>6, Zenon
  <2> QED BY <2>4, <1>2
<1> QED BY <1>6, <1>7

\* A frame that was read leaves the frames behind it in place.
LEMMA PlacedRest ==
    ASSUME NEW h \in Seq(Frame), NEW g \in 0..Len(h), g < Len(h), NEW torn \in BOOLEAN,
           NEW x \in Seq(Nat), NEW q \in Seq(Nat),
           Len(x) = PREFIX + Len(h[g + 1]), Placed(x \o q, h, g, torn)
    PROVE  Placed(q, h, g + 1, torn)
<1> DEFINE p == x \o q
<1>1. p \in Seq(Nat) /\ Len(p) = Len(x) + Len(q)
    BY ConcatCells
<1>2. \A k \in 1..Len(q) : p[Len(x) + k] = q[k]
    BY ConcatCells
<1>3. Placed(p, h, g, torn)
    OBVIOUS
<1> HIDE DEF p
<1>4. g \in 0..Len(h) - 1
    OBVIOUS
<1>5. \A k \in 1..Len(q) : q[k] = p[PREFIX + Len(h[g + 1]) + k]
    BY <1>2
<1>6. Len(p) = PREFIX + Len(h[g + 1]) + Len(q)
    BY <1>1
<1> QED BY <1>1, <1>3, <1>4, <1>5, <1>6, PlacedTake, Zenon

-----------------------------------------------------------------------------
(* The actions.                                                            *)

\* The cells before the reader's end are counted by their parts.
LEMMA CellsLen ==
    ASSUME NEW r \in Reader, r.phase = "body" => r.need < Base * Base,
           NEW n \in Seq(Nat), NEW o \in Seq(Nat)
    PROVE  /\ Fields(r) \in Seq(Nat) /\ n \o o \in Seq(Nat) /\ Cells(r, n, o) \in Seq(Nat)
           /\ Len(Fields(r)) = (IF r.phase = "body" THEN PREFIX ELSE 0) + Len(r.buf)
           /\ Len(Cells(r, n, o)) = Len(Fields(r)) + Len(n) + Len(o)
<1> DEFINE pre == IF r.phase = "body" THEN Prefix(r.need) ELSE <<>>
<1>1. r.need \in Nat /\ r.buf \in Seq(Nat)
    BY DEF Reader
<1>2. pre \in Seq(Nat) /\ Len(pre) = IF r.phase = "body" THEN PREFIX ELSE 0
  <2>1. CASE r.phase = "body"
      BY <2>1, <1>1, PrefixReads
  <2>2. CASE r.phase # "body"
      BY <2>2
  <2> QED BY <2>1, <2>2
<1> HIDE DEF pre
<1>3. pre \o r.buf \in Seq(Nat) /\ Len(pre \o r.buf) = Len(pre) + Len(r.buf)
    BY <1>1, <1>2, ConcatCells
<1>4. Fields(r) = pre \o r.buf
    BY DEF pre, Fields
<1>5. n \o o \in Seq(Nat) /\ Len(n \o o) = Len(n) + Len(o) /\ Len(n) \in Nat /\ Len(o) \in Nat
    BY ConcatCells
<1>6. Fields(r) \in Seq(Nat) /\ Len(Fields(r)) = Len(pre) + Len(r.buf) /\ Len(Fields(r)) \in Nat
    BY <1>3, <1>4
<1>7. Cells(r, n, o) \in Seq(Nat) /\ Len(Cells(r, n, o)) = Len(Fields(r)) + Len(n \o o)
  <2>1. ASSUME NEW x \in Seq(Nat), NEW y \in Seq(Nat) PROVE x \o y \in Seq(Nat) /\ Len(x \o y) = Len(x) + Len(y)
      BY ConcatCells
  <2> QED BY <2>1, <1>5, <1>6, Zenon DEF Cells
<1>8. Len(Cells(r, n, o)) = Len(Fields(r)) + Len(n) + Len(o)
  <2>1. ASSUME NEW x \in Nat, NEW y \in Nat, NEW z \in Nat PROVE x + (y + z) = x + y + z
      OBVIOUS
  <2>2. Len(Fields(r)) + (Len(n) + Len(o)) = Len(Fields(r)) + Len(n) + Len(o)
      BY <2>1, <1>5, <1>6, Zenon
  <2>3. Len(Cells(r, n, o)) = Len(Fields(r)) + (Len(n) + Len(o))
      BY <1>5, <1>7
  <2> QED BY <2>2, <2>3
<1> QED BY <1>2, <1>5, <1>6, <1>7, <1>8

\* In a good state the frame being read has a length the prefix holds.
LEMMA ReaderNeed ==
    ASSUME StreamInv, err = "OK"
    PROVE  /\ rx.phase = "body" => rx.need < Base * Base
           /\ Cells(rx, net, out) \in Seq(Nat) /\ Len(got) \in 0..Len(handed)
<1>1. rx \in Reader /\ net \in Seq(Nat) /\ out \in Seq(Nat) /\ handed \in Seq(Frame) /\ got \in Seq(Frame)
    BY DEF StreamInv, TypeOK
<1>2. Len(got) \in Nat /\ Len(handed) \in Nat /\ Len(got) <= Len(handed)
    BY <1>1 DEF StreamInv
<1>3. rx.phase = "body" => rx.need < Base * Base
  <2>1. SUFFICES ASSUME rx.phase = "body" PROVE rx.need < Base * Base
      OBVIOUS
  <2>2. Len(got) < Len(handed) /\ rx.need = Len(handed[Len(got) + 1])
      BY <2>1 DEF StreamInv, ReaderInv
  <2>3. handed[Len(got) + 1] \in Frame
      BY <2>2, <1>1, <1>2
  <2> QED BY <2>2, <2>3, EncodedCells
<1>4. Cells(rx, net, out) \in Seq(Nat)
    BY <1>1, <1>3, CellsLen
<1> QED BY <1>2, <1>3, <1>4

\* The beginning.
LEMMA InitStream ==
    ASSUME Init
    PROVE  StreamInv
<1>1. todo \in [frames : Seq(Frame), checked : BOOLEAN]
  <2>1. /\ todo \in [frames : Seq(Seq(Nat)), checked : BOOLEAN]
        /\ \A i \in DOMAIN todo.frames : Len(todo.frames[i]) < Base * Base
      BY FrameAssumption DEF Init
  <2>2. todo.frames \in Seq(Frame)
      BY <2>1 DEF Frame
  <2> QED BY <2>1, <2>2
<1>2. rx \in Reader /\ rx.phase = "prefix" /\ rx.need = PREFIX /\ rx.buf = <<>>
    BY PrefixNat DEF Init, Await, Reader
<1>3. TypeOK
  <2>1. handed \in Seq(Frame) /\ got \in Seq(Frame) /\ out \in Seq(Nat) /\ net \in Seq(Nat)
      BY DEF Init
  <2>2. tx = "open" /\ cut \in BOOLEAN /\ broken \in BOOLEAN /\ err = "OK"
      BY DEF Init
  <2> QED BY <2>1, <2>2, <1>1, <1>2 DEF TypeOK
<1>4. SenderInv /\ VerdictInv /\ Len(got) <= Len(handed) /\ \A i \in 1..Len(got) : got[i] = handed[i]
    BY DEF Init, SenderInv, VerdictInv
<1>5. ReaderInv
    BY <1>2, PrefixNat DEF ReaderInv
<1>6. Cells(rx, net, out) = <<>>
  <2>1. Fields(rx) = <<>> \o <<>> /\ net = <<>> /\ out = <<>>
      BY <1>2 DEF Init, Fields
  <2>2. <<>> \o <<>> = <<>>
      OBVIOUS
  <2>3. Cells(rx, net, out) = (<<>> \o <<>>) \o (<<>> \o <<>>)
      BY <2>1, Zenon DEF Cells
  <2> QED BY <2>2, <2>3, Zenon
<1>7. Placed(Cells(rx, net, out), handed, Len(got), cut)
  <2>1. handed = <<>> /\ Len(got) = 0 /\ cut = FALSE
      BY DEF Init
  <2> QED BY <2>1, <1>6, PlacedInit
<1> QED BY <1>3, <1>4, <1>5, <1>7 DEF StreamInv

\* Sending a frame.
LEMMA SendStep ==
    ASSUME StreamInv, auth_tcp_send
    PROVE  StreamInv'
<1> DEFINE f == Head(todo.frames)
<1>1. /\ handed \in Seq(Frame) /\ got \in Seq(Frame) /\ net \in Seq(Nat) /\ rx \in Reader
      /\ todo \in [frames : Seq(Frame), checked : BOOLEAN]
    BY DEF StreamInv, TypeOK
<1>2. f \in Frame /\ todo' \in [frames : Seq(Frame), checked : BOOLEAN] /\ todo'.checked = todo.checked
  <2>1. f \in Frame /\ Tail(todo.frames) \in Seq(Frame)
      BY <1>1 DEF auth_tcp_send
  <2>2. todo' = [todo EXCEPT !.frames = Tail(todo.frames)]
      BY DEF auth_tcp_send
  <2> QED BY <2>1, <2>2, <1>1
<1>3. /\ tx = "open" /\ out = <<>> /\ ~cut /\ net' = net /\ cut' = cut /\ rx' = rx /\ got' = got
      /\ broken' = broken /\ err' = err
  <2>1. /\ tx = "open" /\ out = <<>> /\ net' = net /\ cut' = cut /\ rx' = rx /\ got' = got
        /\ broken' = broken /\ err' = err
      BY DEF auth_tcp_send
  <2> QED BY <2>1, Zenon DEF StreamInv, SenderInv
<1> HIDE DEF f
<1>4. CASE todo.checked /\ Len(f) > MAX_DATAGRAM
  <2>1. tx' = "closed" /\ handed' = handed /\ out' = out
      BY <1>4 DEF auth_tcp_send, f
  <2>2. TypeOK'
      BY <1>2, <1>3, <2>1 DEF StreamInv, TypeOK
  <2>3. SenderInv' /\ VerdictInv' /\ ReaderInv'
      BY <1>2, <1>3, <2>1 DEF StreamInv, SenderInv, VerdictInv, ReaderInv
  <2> QED BY <2>1, <2>2, <2>3, <1>3 DEF StreamInv
<1>5. CASE ~(todo.checked /\ Len(f) > MAX_DATAGRAM)
  <2>1. tx' = tx /\ handed' = Append(handed, f) /\ out' = Encoded(f)
      BY <1>5 DEF auth_tcp_send, f, Encoded
  <2>2. /\ Encoded(f) \in Seq(Nat) /\ Len(f) \in Nat
      BY <1>2, EncodedCells
  <2>3. /\ handed' \in Seq(Frame) /\ Len(handed') = Len(handed) + 1 /\ handed'[Len(handed) + 1] = f
        /\ \A i \in 1..Len(handed) : handed'[i] = handed[i]
        /\ Len(handed) \in Nat /\ Len(got) \in Nat /\ Len(got) <= Len(handed)
      BY <1>1, <1>2, <2>1 DEF StreamInv
  <2>4. TypeOK'
      BY <1>2, <1>3, <2>1, <2>2, <2>3 DEF StreamInv, TypeOK
  <2>5. SenderInv'
    <3>1. ASSUME todo.checked, NEW a \in 1..Len(handed') PROVE Len(handed'[a]) <= MAX_DATAGRAM
      <4>1. CASE a = Len(handed) + 1
          BY <4>1, <3>1, <1>5, <2>2, <2>3, FrameAssumption
      <4>2. CASE a # Len(handed) + 1
        <5>1. a \in 1..Len(handed)
            BY <4>2, <2>3
        <5>2. Len(handed[a]) <= MAX_DATAGRAM
            BY <5>1, <3>1 DEF StreamInv, SenderInv
        <5> QED BY <5>1, <5>2, <2>3
      <4> QED BY <4>1, <4>2
    <3> QED BY <3>1, <1>2, <1>3, <2>1 DEF SenderInv
  <2>6. Len(got) < Len(handed) => Len(got) < Len(handed') /\ handed'[Len(got) + 1] = handed[Len(got) + 1]
      BY <2>3
  <2>7. ReaderInv' /\ VerdictInv'
      BY <1>2, <1>3, <2>1, <2>6 DEF StreamInv, ReaderInv, VerdictInv
  <2>8. Len(got') <= Len(handed') /\ \A i \in 1..Len(got') : got'[i] = handed'[i]
    <3>1. Len(got') <= Len(handed')
        BY <1>3, <2>3
    <3>2. ASSUME NEW a \in 1..Len(got) PROVE got[a] = handed'[a]
      <4>1. a \in 1..Len(handed) /\ got[a] = handed[a]
          BY <2>3 DEF StreamInv
      <4> QED BY <4>1, <2>3
    <3> QED BY <3>1, <3>2, <1>3
  <2>9. ASSUME err' = "OK" PROVE Placed(Cells(rx, net, out)', handed', Len(got'), cut')
    <3>1. /\ Placed(Cells(rx, net, out), handed, Len(got), FALSE) /\ Cells(rx, net, out) \in Seq(Nat)
          /\ cut = FALSE /\ Len(got) \in 0..Len(handed) /\ Fields(rx) \in Seq(Nat)
      <4>1. /\ err = "OK" /\ Cells(rx, net, out) \in Seq(Nat) /\ Len(got) \in 0..Len(handed)
            /\ rx.phase = "body" => rx.need < Base * Base
          BY <1>3, <2>9, ReaderNeed
      <4>2. Placed(Cells(rx, net, out), handed, Len(got), cut) /\ cut \in BOOLEAN
          BY <4>1, Zenon DEF StreamInv, TypeOK
      <4>3. Fields(rx) \in Seq(Nat)
          BY <4>1, <1>1, CellsLen
      <4>4. cut = FALSE
          BY <4>2, <1>3
      <4> QED BY <4>1, <4>2, <4>3, <4>4
    <3>2. Cells(rx, net, out)' = Cells(rx, net, out) \o Encoded(f)
      <4>1. net \o out = net /\ Cells(rx, net, out) = Fields(rx) \o net
          BY <1>1, <1>3 DEF Cells
      <4>2. Cells(rx, net, out)' = Fields(rx) \o (net \o Encoded(f))
          BY <1>3, <2>1 DEF Cells, Fields
      <4>3. (Fields(rx) \o net) \o Encoded(f) = Fields(rx) \o (net \o Encoded(f))
          BY <3>1, <1>1, <2>2, ConcatAssoc
      <4> QED BY <4>1, <4>2, <4>3
    <3>3. Placed(Cells(rx, net, out) \o Encoded(f), Append(handed, f), Len(got), FALSE)
        BY <3>1, <1>1, <1>2, PlacedSend, Zenon
    <3> QED BY <3>1, <3>2, <3>3, <1>3, <2>1
  <2> QED BY <2>4, <2>5, <2>7, <2>8, <2>9 DEF StreamInv
<1> QED BY <1>4, <1>5

\* The sender stops, perhaps within a frame.
LEMMA SenderStops ==
    ASSUME StreamInv, tx = "open", tx' \in {"closed", "failed"}, out' = <<>>, cut' = (out # <<>>),
           UNCHANGED <<todo, handed, net, rx, got, broken, err>>
    PROVE  StreamInv'
<1>1. net \in Seq(Nat) /\ out \in Seq(Nat) /\ rx \in Reader /\ handed \in Seq(Frame)
    BY DEF StreamInv, TypeOK
<1>2. cut \in BOOLEAN /\ (tx = "open" => ~cut)
    BY DEF StreamInv, TypeOK, SenderInv
<1>3. /\ tx = "open" /\ tx' \in {"closed", "failed"} /\ out' = <<>> /\ cut' = (out # <<>>)
      /\ todo' = todo /\ handed' = handed /\ net' = net /\ rx' = rx /\ got' = got
      /\ broken' = broken /\ err' = err
    OBVIOUS
<1>4. cut = FALSE /\ cut' \in BOOLEAN /\ out' \in Seq(Nat)
    BY <1>2, <1>3
<1>5. TypeOK'
    BY <1>3, <1>4 DEF StreamInv, TypeOK
<1>6. SenderInv' /\ ReaderInv'
    BY <1>3 DEF StreamInv, SenderInv, ReaderInv
<1>7. VerdictInv'
  <2>1. err # "MALFORMED_PACKET" /\ (err = "IO" => broken)
      BY <1>3 DEF StreamInv, VerdictInv
  <2> QED BY <2>1, <1>3 DEF StreamInv, VerdictInv
<1>8. ASSUME err = "OK" PROVE Placed(Cells(rx, net, out)', handed, Len(got), cut')
  <2>1. /\ Cells(rx, net, out) \in Seq(Nat) /\ Len(got) \in 0..Len(handed)
        /\ rx.phase = "body" => rx.need < Base * Base
      BY <1>8, ReaderNeed
  <2>2. Placed(Cells(rx, net, out), handed, Len(got), FALSE)
    <3>1. Placed(Cells(rx, net, out), handed, Len(got), cut)
        BY <1>8, Zenon DEF StreamInv
    <3> QED BY <3>1, <1>4
  <2>3. Fields(rx) \in Seq(Nat)
      BY <2>1, <1>1, CellsLen
  <2> DEFINE x == Fields(rx)
  <2>4. Cells(rx, net, out)' = x \o net
    <3>1. net \o <<>> = net
        BY <1>1
    <3> QED BY <3>1, <1>3 DEF Cells, Fields
  <2>5. Cells(rx, net, out) = (x \o net) \o out
    <3>1. (x \o net) \o out = x \o (net \o out)
        BY <2>3, <1>1, ConcatAssoc
    <3> QED BY <3>1 DEF Cells
  <2> HIDE DEF x
  <2>6. x \in Seq(Nat)
      BY <2>3 DEF x
  <2>7. CASE out = <<>>
    <3>1. (x \o net) \o <<>> = x \o net
        BY <2>6, <1>1
    <3>2. cut' = FALSE
        BY <2>7, <1>3
    <3> QED BY <3>1, <3>2, <2>2, <2>4, <2>5, <2>7
  <2>8. CASE out # <<>>
    <3> DEFINE q == x \o net
               p == q \o out
    <3>1. q \in Seq(Nat)
        BY <2>6, <1>1
    <3> HIDE DEF q
    <3>2. p \in Seq(Nat) /\ Len(q) <= Len(p)
        BY <3>1, <1>1
    <3>3. \A i \in 1..Len(q) : q[i] = p[i]
        BY <3>1, <1>1
    <3> HIDE DEF p
    <3>4. Placed(p, handed, Len(got), FALSE)
        BY <2>2, <2>5 DEF p, q
    <3>5. Placed(q, handed, Len(got), TRUE)
        BY <3>1, <3>2, <3>3, <3>4, <2>1, <1>1, PlacedCut, Zenon
    <3>6. cut' = TRUE
        BY <2>8, <1>3
    <3> QED BY <3>5, <3>6, <2>4 DEF q
  <2> QED BY <2>7, <2>8
<1> QED BY <1>3, <1>5, <1>6, <1>7, <1>8 DEF StreamInv

\* auth_tcp_conn_close.
LEMMA CloseStep ==
    ASSUME StreamInv, Close
    PROVE  StreamInv'
BY SenderStops DEF Close

\* Moving the sender's cells into the connection.
LEMMA WriteStep ==
    ASSUME StreamInv, NEW n \in Chunks, write_all(n)
    PROVE  StreamInv'
<1>1. n \in Nat /\ net \in Seq(Nat) /\ out \in Seq(Nat) /\ rx \in Reader
    BY FrameAssumption DEF StreamInv, TypeOK
<1>2. /\ tx = "open" /\ out # <<>> /\ todo' = todo /\ handed' = handed /\ rx' = rx /\ got' = got
      /\ broken' = broken /\ err' = err
    BY DEF write_all
<1> DEFINE k == IF n < Len(out) THEN n ELSE Len(out)
           x == SubSeq(out, 1, k)
           y == SubSeq(out, k + 1, Len(out))
<1>3. CASE tx' = "failed" /\ out' = <<>> /\ cut' = TRUE /\ net' = net
  <2>1. cut' = (out # <<>>)
      BY <1>2, <1>3
  <2> QED BY <2>1, <1>2, <1>3, SenderStops
<1>4. CASE tx' = tx /\ cut' = cut /\ net' = net \o x /\ out' = y
  <2>2. k \in Nat /\ k <= Len(out)
      BY <1>1
  <2> HIDE DEF k
  <2>3. x \in Seq(Nat) /\ y \in Seq(Nat) /\ out = x \o y
      BY <2>2, <1>1, SplitCells
  <2> HIDE DEF x, y
  <2>4. net' \in Seq(Nat) /\ out' \in Seq(Nat)
      BY <2>3, <1>1, <1>4
  <2>5. TypeOK'
      BY <2>4, <1>2, <1>4 DEF StreamInv, TypeOK
  <2>6. SenderInv' /\ ReaderInv' /\ VerdictInv'
      BY <1>2, <1>4 DEF StreamInv, SenderInv, ReaderInv, VerdictInv
  <2>7. net' \o out' = net \o out
    <3>1. (net \o x) \o y = net \o (x \o y)
        BY <2>3, <1>1, ConcatAssoc
    <3> QED BY <3>1, <2>3, <1>4
  <2>8. Cells(rx, net, out)' = Cells(rx, net, out)
      BY <2>7, <1>2 DEF Cells, Fields
  <2> QED BY <2>5, <2>6, <2>8, <1>2, <1>4 DEF StreamInv
<1> QED BY <1>3, <1>4 DEF write_all

\* The receiver gives up waiting.
LEMMA TimeoutStep ==
    ASSUME StreamInv, Timeout
    PROVE  StreamInv'
<1>1. /\ err = "OK" /\ err' = "TIMEOUT" /\ todo' = todo /\ handed' = handed /\ out' = out
      /\ net' = net /\ tx' = tx /\ cut' = cut /\ rx' = rx /\ got' = got /\ broken' = broken
    BY DEF Timeout
<1>2. TypeOK'
    BY <1>1 DEF StreamInv, TypeOK
<1>3. SenderInv' /\ ReaderInv' /\ VerdictInv'
    BY <1>1 DEF StreamInv, SenderInv, ReaderInv, VerdictInv
<1> QED BY <1>1, <1>2, <1>3 DEF StreamInv

\* A call of the receiver fails.
LEMMA RecvFailsStep ==
    ASSUME StreamInv, RecvFails
    PROVE  StreamInv'
<1>1. /\ err = "OK" /\ err' = "IO" /\ broken' = TRUE /\ todo' = todo /\ handed' = handed
      /\ out' = out /\ net' = net /\ tx' = tx /\ cut' = cut /\ rx' = rx /\ got' = got
    BY DEF RecvFails
<1>2. TypeOK'
    BY <1>1 DEF StreamInv, TypeOK
<1>3. SenderInv' /\ ReaderInv' /\ VerdictInv'
    BY <1>1 DEF StreamInv, SenderInv, ReaderInv, VerdictInv
<1> QED BY <1>1, <1>2, <1>3 DEF StreamInv

\* The receiver sees the end: a stream that was not cut has no open frame.
LEMMA EndStep ==
    ASSUME StreamInv, EndOfStream
    PROVE  StreamInv'
<1>1. /\ handed \in Seq(Frame) /\ got \in Seq(Frame) /\ rx \in Reader
      /\ Len(got) \in Nat /\ Len(handed) \in Nat /\ Len(got) <= Len(handed)
    BY DEF StreamInv, TypeOK
<1>2. /\ err = "OK" /\ net = <<>> /\ tx # "open" /\ todo' = todo /\ handed' = handed /\ out' = out
      /\ net' = net /\ tx' = tx /\ cut' = cut /\ rx' = rx /\ got' = got /\ broken' = broken
      /\ err' = IF rx.buf # <<>> THEN "MALFORMED_PACKET" ELSE "IO"
    BY DEF EndOfStream
<1>3. out = <<>> /\ cut \in BOOLEAN /\ rx.buf \in Seq(Nat) /\ rx.need \in Nat
  <2>1. out = <<>>
      BY <1>2 DEF StreamInv, SenderInv
  <2>2. cut \in BOOLEAN
      BY DEF StreamInv, TypeOK
  <2> QED BY <2>1, <2>2, <1>1 DEF Reader
<1>4. /\ Len(rx.buf) < rx.need /\ (rx.phase = "prefix" => rx.need = PREFIX)
      /\ rx.phase = "body" => rx.need = Len(handed[Len(got) + 1])
    BY <1>2 DEF StreamInv, ReaderInv
<1>5. rx.phase = "body" => rx.need < Base * Base
    BY <1>2, ReaderNeed
<1> DEFINE p == Cells(rx, net, out)
<1>6. p \in Seq(Nat) /\ Len(p) = (IF rx.phase = "body" THEN PREFIX ELSE 0) + Len(rx.buf)
  <2>1. /\ p \in Seq(Nat) /\ Len(p) = Len(Fields(rx)) + Len(net) + Len(out)
        /\ Fields(rx) \in Seq(Nat)
        /\ Len(Fields(rx)) = (IF rx.phase = "body" THEN PREFIX ELSE 0) + Len(rx.buf)
    <3>1. net \in Seq(Nat) /\ out \in Seq(Nat)
        BY <1>2, <1>3
    <3> QED BY <3>1, <1>1, <1>5, CellsLen
  <2>2. Len(net) = 0 /\ Len(out) = 0 /\ Len(Fields(rx)) \in Nat
      BY <2>1, <1>2, <1>3
  <2> HIDE DEF p
  <2>3. Len(p) = Len(Fields(rx))
      BY <2>1, <2>2
  <2> QED BY <2>1, <2>3
<1>7. Placed(p, handed, Len(got), cut)
    BY <1>2, Zenon DEF StreamInv
<1> HIDE DEF p
<1>8. ASSUME ~cut PROVE Len(got) = Len(handed) /\ p = <<>>
  <2> DEFINE g == Len(got)
  <2>1. g \in 0..Len(handed) /\ cut = FALSE
      BY <1>1, <1>3, <1>8
  <2>2. Placed(p, handed, g, FALSE)
      BY <2>1, <1>7
  <2> HIDE DEF g
  <2>3. /\ g = Len(handed) => p = <<>>
        /\ g < Len(handed) => PREFIX + Len(handed[g + 1]) <= Len(p)
      BY <2>1, <2>2, <1>1, <1>6, PlacedNext, Zenon
  <2>4. ASSUME g < Len(handed) PROVE FALSE
    <3>1. Len(handed[g + 1]) \in Nat
      <4>1. handed[g + 1] \in Frame
          BY <2>1, <2>4, <1>1
      <4> QED BY <4>1, EncodedCells
    <3>2. Len(rx.buf) \in Nat /\ PREFIX \in Nat
        BY <1>3, PrefixNat
    <3>3. CASE rx.phase = "body"
      <4>1. Len(p) = PREFIX + Len(rx.buf) /\ Len(rx.buf) < Len(handed[g + 1])
          BY <3>3, <1>4, <1>6 DEF g
      <4> QED BY <4>1, <3>1, <3>2, <2>3, <2>4
    <3>4. CASE rx.phase = "prefix"
      <4>1. Len(p) = Len(rx.buf) /\ Len(rx.buf) < PREFIX
          BY <3>2, <3>4, <1>4, <1>6
      <4> QED BY <4>1, <3>1, <3>2, <2>3, <2>4
    <3> QED BY <3>3, <3>4, <1>1 DEF Reader
  <2> QED BY <2>1, <2>3, <2>4, <1>1 DEF g
<1>9. ASSUME rx.buf # <<>> PROVE cut
  <2>1. Len(rx.buf) \in Nat /\ Len(rx.buf) > 0
      BY <1>3, <1>9
  <2>2. Len(p) > 0
    <3>1. CASE rx.phase = "body"
        BY <3>1, <2>1, <1>6, PrefixNat
    <3>2. CASE rx.phase # "body"
        BY <3>2, <2>1, <1>6
    <3> QED BY <3>1, <3>2
  <2>3. p # <<>>
      BY <2>2, <1>6
  <2> QED BY <2>3, <1>8
<1>10. ASSUME ~cut PROVE got = handed
  <2>1. Len(got) = Len(handed)
      BY <1>8, <1>10
  <2>2. \A i \in 1..Len(got) : got[i] = handed[i]
      BY Zenon DEF StreamInv
  <2> QED BY <2>1, <2>2, <1>1, SameCells
<1>11. TypeOK'
    BY <1>2 DEF StreamInv, TypeOK
<1>12. SenderInv' /\ ReaderInv'
    BY <1>2 DEF StreamInv, SenderInv, ReaderInv
<1>13. VerdictInv'
  <2>1. err' \in {"IO", "MALFORMED_PACKET"} /\ (err' = "MALFORMED_PACKET" => rx.buf # <<>>)
      BY <1>2
  <2> QED BY <2>1, <1>2, <1>9, <1>10 DEF VerdictInv
<1>14. err' # "OK"
    BY <1>2
<1> QED BY <1>2, <1>11, <1>12, <1>13, <1>14 DEF StreamInv

\* What one recv call takes: some cells, no more than are wanted.
LEMMA ReadCells ==
    ASSUME StreamInv, NEW n \in Chunks, err = "OK", net # <<>>,
           NEW k, k = Min({n, rx.need - Len(rx.buf), Len(net)})
    PROVE  LET x == SubSeq(net, 1, k)
               y == SubSeq(net, k + 1, Len(net))
           IN  /\ x \in Seq(Nat) /\ y \in Seq(Nat) /\ net = x \o y
               /\ rx.buf \o x \in Seq(Nat) /\ Len(rx.buf \o x) > 0 /\ Len(rx.buf \o x) <= rx.need
<1> DEFINE x == SubSeq(net, 1, k)
           y == SubSeq(net, k + 1, Len(net))
<1>1. n \in Nat /\ n > 0 /\ net \in Seq(Nat) /\ rx.buf \in Seq(Nat) /\ rx.need \in Nat
    BY FrameAssumption DEF StreamInv, TypeOK, Reader
<1>2. Len(rx.buf) < rx.need /\ Len(rx.buf) \in Nat
    BY <1>1 DEF StreamInv, ReaderInv
<1>3. Len(net) \in Nat /\ Len(net) > 0 /\ rx.need - Len(rx.buf) \in Nat /\ rx.need - Len(rx.buf) > 0
    BY <1>1, <1>2
<1>4. k \in Nat /\ k > 0 /\ k <= rx.need - Len(rx.buf) /\ k <= Len(net)
  <2>1. /\ k \in {n, rx.need - Len(rx.buf), Len(net)}
        /\ k <= rx.need - Len(rx.buf) /\ k <= Len(net)
    <3> DEFINE b == rx.need - Len(rx.buf)
               c == Len(net)
    <3>1. n \in Int /\ b \in Int /\ c \in Int
        BY <1>1, <1>3
    <3>2. k = Min({n, b, c})
        OBVIOUS
    <3> HIDE DEF b, c
    <3>3. Min({n, b, c}) \in {n, b, c} /\ Min({n, b, c}) <= b /\ Min({n, b, c}) <= c
        BY <3>1, MinOfThree, Zenon
    <3>4. k \in {n, b, c} /\ k <= b /\ k <= c
        BY <3>2, <3>3, Zenon
    <3> QED BY <3>4 DEF b, c
  <2> QED BY <2>1, <1>1, <1>3
<1>5. x \in Seq(Nat) /\ y \in Seq(Nat) /\ net = x \o y /\ Len(x) = k
    BY <1>1, <1>4, SplitCells
<1> HIDE DEF x, y
<1>6. rx.buf \o x \in Seq(Nat) /\ Len(rx.buf \o x) = Len(rx.buf) + k
  <2>1. rx.buf \o x \in Seq(Nat)
      BY <1>1, <1>5, ConcatCells
  <2>2. Len(rx.buf \o x) = Len(rx.buf) + Len(x)
      BY <1>1, <1>5, ConcatCells
  <2> QED BY <2>1, <2>2, <1>5
<1>7. Len(rx.buf \o x) > 0 /\ Len(rx.buf \o x) <= rx.need
    BY <1>1, <1>2, <1>4, <1>6
<1> QED BY <1>5, <1>6, <1>7 DEF x, y

\* One recv call, and the end of a field when it was the last.
LEMMA ReadStep ==
    ASSUME StreamInv, NEW n \in Chunks, read_all(n)
    PROVE  StreamInv'
<1> DEFINE k == Min({n, rx.need - Len(rx.buf), Len(net)})
           x == SubSeq(net, 1, k)
           y == SubSeq(net, k + 1, Len(net))
           buf == rx.buf \o x
           len == LengthOf(buf)
           q == y \o out
           g == Len(got)
           f == handed[g + 1]
           pre == IF rx.phase = "body" THEN Prefix(rx.need) ELSE <<>>
<1>1. /\ err = "OK" /\ net # <<>> /\ net' = y /\ todo' = todo /\ handed' = handed /\ out' = out
      /\ tx' = tx /\ cut' = cut /\ broken' = broken
    BY DEF read_all
<1>2. \/ Len(buf) # rx.need /\ rx' = [rx EXCEPT !.buf = buf] /\ got' = got /\ err' = err
      \/ Len(buf) = rx.need /\ rx.phase = "prefix" /\ len \in 1..MAX_DATAGRAM
         /\ rx' = Await("body", len) /\ got' = got /\ err' = err
      \/ Len(buf) = rx.need /\ rx.phase = "prefix" /\ len = 0
         /\ rx' = Await("prefix", PREFIX) /\ got' = Append(got, <<>>) /\ err' = err
      \/ Len(buf) = rx.need /\ rx.phase = "prefix" /\ len > MAX_DATAGRAM
         /\ err' = "PAYLOAD_TOO_LARGE" /\ rx' = rx /\ got' = got
      \/ Len(buf) = rx.need /\ rx.phase = "body"
         /\ rx' = Await("prefix", PREFIX) /\ got' = Append(got, buf) /\ err' = err
    BY DEF read_all, FrameDone
<1>3. /\ x \in Seq(Nat) /\ y \in Seq(Nat) /\ net = x \o y
      /\ buf \in Seq(Nat) /\ Len(buf) > 0 /\ Len(buf) <= rx.need
    BY <1>1, ReadCells
<1> HIDE DEF k, x, y
<1>4. /\ out \in Seq(Nat) /\ rx \in Reader /\ handed \in Seq(Frame) /\ got \in Seq(Frame)
      /\ MAX_DATAGRAM \in Nat /\ cut \in BOOLEAN /\ broken \in BOOLEAN
    BY FrameAssumption DEF StreamInv, TypeOK
<1>5. rx.buf \in Seq(Nat) /\ rx.need \in Nat /\ rx.phase \in {"prefix", "body"}
    BY <1>4 DEF Reader
<1>6. g \in 0..Len(handed) /\ Len(handed) \in Nat /\ (rx.phase = "body" => rx.need < Base * Base)
    BY <1>1, <1>4, ReaderNeed
<1>7. pre \in Seq(Nat) /\ Len(pre) = IF rx.phase = "body" THEN PREFIX ELSE 0
  <2>1. CASE rx.phase = "body"
      BY <2>1, <1>5, <1>6, PrefixReads
  <2>2. CASE rx.phase # "body"
      BY <2>2
  <2> QED BY <2>1, <2>2
<1>8. q \in Seq(Nat) /\ pre \o buf \in Seq(Nat) /\ Len(pre \o buf) = Len(pre) + Len(buf)
  <2> HIDE DEF pre, buf
  <2>1. q \in Seq(Nat)
      BY <1>3, <1>4
  <2>2. pre \o buf \in Seq(Nat)
      BY <1>3, <1>7, ConcatCells
  <2>3. Len(pre \o buf) = Len(pre) + Len(buf)
      BY <1>3, <1>7, ConcatCells
  <2> QED BY <2>1, <2>2, <2>3
<1>9. Cells(rx, net, out) = (pre \o buf) \o q
  <2>1. Cells(rx, net, out) = (pre \o rx.buf) \o ((x \o y) \o out)
      BY <1>3 DEF Cells, Fields
  <2> HIDE DEF pre
  <2>2. (x \o y) \o out = x \o (y \o out)
      BY <1>3, <1>4, ConcatAssoc
  <2>3. pre \o (rx.buf \o x) = (pre \o rx.buf) \o x
      BY <1>3, <1>5, <1>7, ConcatAssoc
  <2>4. ((pre \o rx.buf) \o x) \o q = (pre \o rx.buf) \o (x \o q)
    <3>1. pre \o rx.buf \in Seq(Nat)
        BY <1>5, <1>7
    <3> HIDE DEF q
    <3> QED BY <3>1, <1>3, <1>8, ConcatAssoc
  <2> QED BY <2>1, <2>2, <2>3, <2>4
<1>10. Placed((pre \o buf) \o q, handed, g, cut)
  <2>1. Placed(Cells(rx, net, out), handed, g, cut)
      BY <1>1, Zenon DEF StreamInv
  <2> QED BY <2>1, <1>9
<1>11. g < Len(handed) /\ (Len(pre \o buf) <= PREFIX + Len(f)
                               => \A i \in 1..Len(pre \o buf) : (pre \o buf)[i] = Encoded(f)[i])
  <2> DEFINE z == pre \o buf
  <2>1. z \in Seq(Nat) /\ Len(z) > 0
    <3>1. Len(pre) \in Nat /\ Len(buf) \in Nat
        BY <1>3, <1>7
    <3> HIDE DEF pre, buf
    <3> QED BY <3>1, <1>3, <1>8
  <2>2. Placed(z \o q, handed, g, cut)
      BY <1>10
  <2> HIDE DEF z
  <2>3. g < Len(handed) /\ (Len(z) <= PREFIX + Len(handed[g + 1])
                                => \A i \in 1..Len(z) : z[i] = Encoded(handed[g + 1])[i])
    <3> HIDE DEF q, g
    <3> QED BY <2>1, <2>2, <1>4, <1>6, <1>8, PlacedHead, Zenon
  <2> QED BY <2>3 DEF z
<1>12. f \in Frame /\ Len(f) \in Nat /\ Len(f) < Base * Base /\ f \in Seq(Nat)
  <2>1. f \in Frame
      BY <1>4, <1>6, <1>11
  <2> QED BY <2>1, EncodedCells
<1>13. SenderInv'
    BY <1>1 DEF StreamInv, SenderInv
<1>14. tx \in {"open", "closed", "failed"} /\ todo \in [frames : Seq(Frame), checked : BOOLEAN]
    BY DEF StreamInv, TypeOK
<1>15. ASSUME rx' \in Reader, got' \in Seq(Frame), err' \in {"OK", "PAYLOAD_TOO_LARGE"} PROVE TypeOK'
    BY <1>1, <1>3, <1>4, <1>14, <1>15 DEF TypeOK
<1>16. Len(got) <= Len(handed) /\ \A i \in 1..Len(got) : got[i] = handed[i]
    BY Zenon DEF StreamInv
<1>17. ASSUME rx' = Await("prefix", PREFIX), got' = Append(got, f), err' = err,
              Len(pre \o buf) = PREFIX + Len(f)
       PROVE  StreamInv'
  <2>1. rx' \in Reader /\ rx'.phase = "prefix" /\ rx'.need = PREFIX /\ rx'.buf = <<>>
      BY <1>17, PrefixNat DEF Await, Reader
  <2> HIDE DEF f
  <2>2. /\ got' \in Seq(Frame) /\ Len(got') = g + 1 /\ got'[g + 1] = f
        /\ \A i \in 1..g : got'[i] = got[i]
      BY <1>4, <1>12, <1>17
  <2>3. TypeOK'
      BY <2>1, <2>2, <1>1, <1>15, <1>17
  <2>4. ReaderInv' /\ VerdictInv'
      BY <2>1, <1>1, <1>17, PrefixNat DEF ReaderInv, VerdictInv
  <2>5. Len(got') <= Len(handed')
      BY <2>2, <1>1, <1>6, <1>11
  <2>6. ASSUME NEW a \in 1..Len(got') PROVE got'[a] = handed'[a]
    <3>1. CASE a = g + 1
        BY <3>1, <2>2, <1>1 DEF f
    <3>2. CASE a # g + 1
      <4>1. a \in 1..g
          BY <3>2, <2>2, <1>6
      <4> QED BY <4>1, <2>2, <1>1, <1>16
    <3> QED BY <3>1, <3>2
  <2>7. Placed(q, handed, g + 1, cut)
    <3> DEFINE z == pre \o buf
    <3>1. z \in Seq(Nat) /\ Placed(z \o q, handed, g, cut) /\ Len(z) = PREFIX + Len(handed[g + 1])
        BY <1>8, <1>10, <1>17 DEF f
    <3> HIDE DEF z, q, g
    <3> QED BY <3>1, <1>4, <1>6, <1>8, <1>11, PlacedRest, Zenon
  <2>8. Cells(rx, net, out)' = q
    <3>1. Fields(rx)' = <<>> \o <<>>
        BY <2>1 DEF Fields
    <3>2. <<>> \o <<>> = <<>> /\ <<>> \o q = q
      <4> HIDE DEF q
      <4> QED BY <1>8
    <3>3. Cells(rx, net, out)' = Fields(rx)' \o q
        BY <1>1 DEF Cells
    <3> QED BY <3>1, <3>2, <3>3
  <2>9. Placed(Cells(rx, net, out)', handed', Len(got'), cut')
      BY <2>2, <2>7, <2>8, <1>1
  <2> QED BY <2>3, <2>4, <2>5, <2>6, <2>9, <1>13 DEF StreamInv
<1>18. CASE Len(buf) # rx.need /\ rx' = [rx EXCEPT !.buf = buf] /\ got' = got /\ err' = err
  <2>1. /\ rx' \in Reader /\ rx'.phase = rx.phase /\ rx'.need = rx.need /\ rx'.buf = buf
      BY <1>3, <1>4, <1>18 DEF Reader
  <2>2. TypeOK'
      BY <2>1, <1>1, <1>4, <1>15, <1>18
  <2>3. Len(buf) < rx.need
    <3>1. Len(buf) \in Nat
        BY <1>3
    <3> HIDE DEF buf
    <3> QED BY <3>1, <1>3, <1>5, <1>18
  <2>4. ReaderInv' /\ VerdictInv'
      BY <2>1, <2>3, <1>1, <1>18 DEF StreamInv, ReaderInv, VerdictInv
  <2>5. Cells(rx, net, out)' = Cells(rx, net, out)
    <3>1. Fields(rx)' = pre \o buf
        BY <2>1 DEF Fields
    <3>2. Cells(rx, net, out)' = Fields(rx)' \o q
        BY <1>1 DEF Cells
    <3> QED BY <3>1, <3>2, <1>9
  <2>6. Placed(Cells(rx, net, out)', handed', Len(got'), cut')
      BY <2>5, <1>1, <1>9, <1>10, <1>18
  <2> QED BY <2>2, <2>4, <2>6, <1>1, <1>13, <1>16, <1>18 DEF StreamInv
<1>19. CASE Len(buf) = rx.need /\ rx.phase = "prefix"
  <2>1. rx.need = PREFIX /\ Len(pre \o buf) = PREFIX /\ pre \o buf = buf
    <3>1. rx.need = PREFIX
        BY <1>1, <1>19 DEF StreamInv, ReaderInv
    <3>2. pre = <<>>
        BY <1>19
    <3>3. <<>> \o buf = buf
      <4> HIDE DEF buf
      <4> QED BY <1>3
    <3> QED BY <3>1, <3>2, <3>3, <1>19
  <2>2. buf = Prefix(Len(f))
    <3> DEFINE z == Prefix(Len(f))
    <3>1. z \in Seq(Nat) /\ Len(z) = PREFIX
        BY <1>12, PrefixReads
    <3>2. Len(pre \o buf) <= PREFIX + Len(f)
      <4> HIDE DEF pre, buf, f
      <4> QED BY <2>1, <1>12, PrefixNat
    <3>3. ASSUME NEW c \in 1..PREFIX PROVE buf[c] = z[c]
      <4>1. buf[c] = Encoded(f)[c]
          BY <3>2, <2>1, <1>11
      <4>2. Encoded(f)[c] = z[c]
        <5> HIDE DEF f
        <5> QED BY <1>12, EncodedCells
      <4> QED BY <4>1, <4>2
    <3> HIDE DEF z, buf
    <3>4. buf = z
        BY <3>1, <3>3, <2>1, <1>3, <1>19, SameCells
    <3> QED BY <3>4 DEF z
  <2>3. len = Len(f)
      BY <2>2, <1>12, PrefixReads
  <2> HIDE DEF len
  <2>4. CASE len \in 1..MAX_DATAGRAM /\ rx' = Await("body", len) /\ got' = got /\ err' = err
    <3>1. rx' \in Reader /\ rx'.phase = "body" /\ rx'.need = Len(f) /\ rx'.buf = <<>> /\ Len(f) > 0
        BY <2>3, <2>4, <1>4, <1>12 DEF Await, Reader
    <3>2. TypeOK'
        BY <3>1, <2>4, <1>1, <1>4, <1>15
    <3>3. ReaderInv' /\ VerdictInv'
        BY <3>1, <2>4, <1>1, <1>11 DEF ReaderInv, VerdictInv
    <3>4. Cells(rx, net, out)' = buf \o q
      <4>1. Fields(rx)' = Prefix(Len(f)) \o <<>>
          BY <3>1 DEF Fields
      <4>2. buf \o <<>> = buf
        <5> HIDE DEF buf
        <5> QED BY <1>3
      <4>3. Cells(rx, net, out)' = Fields(rx)' \o q
          BY <1>1 DEF Cells
      <4> QED BY <4>1, <4>2, <4>3, <2>2
    <3>5. Placed(Cells(rx, net, out)', handed', Len(got'), cut')
        BY <3>4, <2>1, <2>4, <1>1, <1>10
    <3> QED BY <3>2, <3>3, <3>5, <2>4, <1>1, <1>13, <1>16 DEF StreamInv
  <2>5. CASE len = 0 /\ rx' = Await("prefix", PREFIX) /\ got' = Append(got, <<>>) /\ err' = err
    <3>1. f = <<>>
      <4> HIDE DEF f
      <4>1. f \in Seq(Nat) /\ Len(f) = 0
          BY <2>3, <2>5, <1>12
      <4>2. ASSUME NEW z \in Seq(Nat), Len(z) = 0 PROVE z = <<>>
          BY <4>2
      <4> QED BY <4>1, <4>2, Zenon
    <3>2. Len(pre \o buf) = PREFIX + Len(f)
      <4> HIDE DEF pre, buf, f
      <4>1. Len(f) = 0
          BY <2>3, <2>5
      <4>2. PREFIX = PREFIX + 0
          BY PrefixNat
      <4>3. PREFIX = PREFIX + Len(f)
          BY <4>1, <4>2
      <4> QED BY <4>3, <2>1
    <3> QED BY <3>1, <3>2, <2>5, <1>17
  <2>6. CASE len > MAX_DATAGRAM /\ err' = "PAYLOAD_TOO_LARGE" /\ rx' = rx /\ got' = got
    <3>1. ~todo.checked
      <4>1. todo.checked => \A i \in 1..Len(handed) : Len(handed[i]) <= MAX_DATAGRAM
          BY Zenon DEF StreamInv, SenderInv
      <4>2. g + 1 \in 1..Len(handed) /\ Len(f) > MAX_DATAGRAM
          BY <2>3, <2>6, <1>6, <1>11
      <4>3. ASSUME todo.checked PROVE Len(f) <= MAX_DATAGRAM
          BY <4>1, <4>2, <4>3
      <4> QED BY <4>2, <4>3, <1>4, <1>12
    <3>2. TypeOK'
        BY <2>6, <1>4, <1>15
    <3>3. ReaderInv' /\ VerdictInv'
        BY <3>1, <2>3, <2>6, <1>1, <1>11 DEF ReaderInv, VerdictInv
    <3>4. err' # "OK"
        BY <2>6
    <3> QED BY <3>2, <3>3, <3>4, <2>6, <1>1, <1>13, <1>16 DEF StreamInv
  <2> QED BY <2>4, <2>5, <2>6, <1>2, <1>19 DEF len
<1>20. CASE /\ Len(buf) = rx.need /\ rx.phase = "body"
            /\ rx' = Await("prefix", PREFIX) /\ got' = Append(got, buf) /\ err' = err
  <2>1. rx.need = Len(f)
      BY <1>1, <1>20 DEF StreamInv, ReaderInv
  <2>2. Len(pre) = PREFIX /\ Len(buf) = Len(f)
      BY <2>1, <1>7, <1>20
  <2>3. Len(pre \o buf) = PREFIX + Len(f)
      BY <2>2, <1>8
  <2>4. \A i \in 1..Len(pre \o buf) : (pre \o buf)[i] = Encoded(f)[i]
    <3>1. PREFIX + Len(f) \in Nat
      <4> HIDE DEF f
      <4> QED BY <1>12, PrefixNat
    <3>2. Len(pre \o buf) <= PREFIX + Len(f)
      <4> HIDE DEF pre, buf, f
      <4> QED BY <3>1, <2>3
    <3> QED BY <3>2, <1>11, Zenon
  <2>5. ASSUME NEW c \in 1..Len(f) PROVE buf[c] = f[c]
    <3>1. (pre \o buf)[PREFIX + c] = buf[c]
      <4> HIDE DEF pre, buf, f
      <4>1. \A i \in 1..Len(buf) : (pre \o buf)[Len(pre) + i] = buf[i]
        <5>1. pre \in Seq(Nat)
            BY <1>7
        <5>2. buf \in Seq(Nat)
            BY <1>3
        <5> QED BY <5>1, <5>2, ConcatCells
      <4> QED BY <4>1, <2>2
    <3>2. Encoded(f)[PREFIX + c] = f[c]
      <4> HIDE DEF f
      <4> QED BY <1>12, EncodedCells
    <3>3. PREFIX + c \in 1..Len(pre \o buf)
      <4> HIDE DEF pre, buf, f
      <4>1. c \in Nat /\ c >= 1 /\ c <= Len(f)
          BY <1>12
      <4> QED BY <4>1, <2>3, <1>12, PrefixNat
    <3> QED BY <3>1, <3>2, <3>3, <2>4
  <2>6. buf = f
    <3> HIDE DEF buf, f
    <3> QED BY <2>2, <2>5, <1>3, <1>12, SameCells
  <2> QED BY <2>3, <2>6, <1>17, <1>20
<1> QED BY <1>2, <1>18, <1>19, <1>20

-----------------------------------------------------------------------------
(* Recursive functions.                                                    *)

\* A set of numbers that holds 0, and with a number below n the next one,
\* holds all up to n.
LEMMA UpTo ==
    ASSUME NEW n \in Nat, NEW S, 0 \in S, \A i \in 0..n : i < n /\ i \in S => i + 1 \in S
    PROVE  \A i \in 0..n : i \in S
<1> DEFINE missing == {i \in 0..n : i \notin S}
<1>1. SUFFICES ASSUME missing # {} PROVE FALSE
    OBVIOUS
<1>2. missing \subseteq Nat
    OBVIOUS
<1> HIDE DEF missing
<1>3. PICK x \in missing : \A y \in missing : ~(<<y, x>> \in OpToRel(<, Nat))
    BY <1>1, <1>2, WFMin, NatLessThanWellFounded, Zenon
<1>4. \A y \in missing : ~(y < x)
    BY <1>2, <1>3 DEF OpToRel
<1> USE DEF missing
<1>5. x \in 0..n /\ x \notin S /\ x # 0
    OBVIOUS
<1>6. x - 1 \in 0..n /\ x - 1 < n /\ (x - 1) + 1 = x
    BY <1>5
<1>7. x - 1 \in S
    BY <1>4, <1>6
<1> QED BY <1>5, <1>6, <1>7

Recurs(f, n, init, step) == f[0] = init /\ \A i \in 1..n : f[i] = step[i][f[i - 1]]

\* A first value and a step on S make a function on 0..n.
LEMMA Recursion ==
    ASSUME NEW n \in Nat, NEW S, NEW init \in S, NEW step \in [1..n -> [S -> S]]
    PROVE  \E f \in [0..n -> S] : Recurs(f, n, init, step)
<1> DEFINE T == {k \in 0..n : \E f \in [0..k -> S] : Recurs(f, k, init, step)}
<1>1. 0 \in T
  <2> DEFINE f == [i \in 0..0 |-> init]
  <2>1. f \in [0..0 -> S] /\ f[0] = init
      OBVIOUS
  <2> HIDE DEF f
  <2>2. Recurs(f, 0, init, step)
      BY <2>1 DEF Recurs
  <2> QED BY <2>1, <2>2
<1>2. ASSUME NEW k \in 0..n, k < n, k \in T
      PROVE  k + 1 \in T
  <2>1. PICK f \in [0..k -> S] : Recurs(f, k, init, step)
      BY <1>2
  <2>2. k \in Nat /\ k + 1 \in 1..n /\ f[k] \in S
      BY <1>2
  <2> DEFINE v == step[k + 1][f[k]]
             e == [i \in 0..k + 1 |-> IF i = k + 1 THEN v ELSE f[i]]
  <2>3. v \in S
      BY <2>2
  <2> HIDE DEF v
  <2>4. e \in [0..k + 1 -> S] /\ e[k + 1] = v /\ \A i \in 0..k : e[i] = f[i]
      BY <2>2, <2>3
  <2> HIDE DEF e
  <2>5. e[0] = init
      BY <2>1, <2>2, <2>4 DEF Recurs
  <2>6. ASSUME NEW i \in 1..k + 1 PROVE e[i] = step[i][e[i - 1]]
    <3>1. CASE i = k + 1
        BY <3>1, <2>2, <2>4 DEF v
    <3>2. CASE i # k + 1
      <4>1. i \in 1..k /\ i - 1 \in 0..k /\ i \in 0..k
          BY <3>2, <2>2
      <4> QED BY <4>1, <2>1, <2>4 DEF Recurs
    <3> QED BY <3>1, <3>2
  <2>7. Recurs(e, k + 1, init, step)
      BY <2>5, <2>6 DEF Recurs
  <2>8. k + 1 \in 0..n
      BY <2>2
  <2> QED BY <2>4, <2>7, <2>8
<1>3. n \in T
  <2> HIDE DEF T
  <2>1. \A i \in 0..n : i < n /\ i \in T => i + 1 \in T
      BY <1>2
  <2>2. \A i \in 0..n : i \in T
      BY <2>1, <1>1, UpTo, Zenon
  <2> QED BY <2>2
<1> QED BY <1>3

-----------------------------------------------------------------------------
(* Encoded entries.                                                        *)

\* The cells of a concatenation of cells.
LEMMA JoinCells ==
    ASSUME NEW p \in Seq(Nat), NEW q \in Seq(Nat)
    PROVE  /\ p \o q \in Seq(Nat) /\ Len(p \o q) = Len(p) + Len(q)
           /\ Len(p) \in Nat /\ Len(q) \in Nat
           /\ \A k \in 1..Len(p) : (p \o q)[k] = p[k]
           /\ \A k \in 1..Len(q) : (p \o q)[Len(p) + k] = q[k]
OBVIOUS

\* Two sequences with the same cells are the same.
LEMMA SameNumbers ==
    ASSUME NEW p \in Seq(Nat), NEW q \in Seq(Nat), Len(p) = Len(q), \A i \in 1..Len(p) : p[i] = q[i]
    PROVE  p = q
OBVIOUS

\* The cells of a piece.
LEMMA PieceNumbers ==
    ASSUME NEW p \in Seq(Nat), NEW m \in Nat, NEW n \in Nat, m <= n, n <= Len(p)
    PROVE  /\ SubSeq(p, m + 1, n) \in Seq(Nat) /\ Len(SubSeq(p, m + 1, n)) = n - m
           /\ \A k \in 1..n - m : SubSeq(p, m + 1, n)[k] = p[m + k]
OBVIOUS

Entry == [id : Nat, value : Seq(Nat)]
EntryCells(e) == <<e.id, 0, Len(e.value)>> \o e.value

\* An encoded entry is a sequence of cells.
LEMMA EntryCellsSeq ==
    ASSUME NEW e \in Entry
    PROVE  /\ EntryCells(e) \in Seq(Nat) /\ Len(EntryCells(e)) = ENTRY_HEAD + Len(e.value)
           /\ EntryCells(e)[1] = e.id /\ EntryCells(e)[2] = 0 /\ EntryCells(e)[3] = Len(e.value)
           /\ \A k \in 1..Len(e.value) : EntryCells(e)[ENTRY_HEAD + k] = e.value[k]
           /\ e.id \in Nat /\ e.value \in Seq(Nat) /\ Len(e.value) \in Nat
<1>1. e.id \in Nat /\ e.value \in Seq(Nat) /\ Len(e.value) \in Nat
    BY DEF Entry
<1> DEFINE h == <<e.id, 0, Len(e.value)>>
<1>2. h \in Seq(Nat) /\ Len(h) = 3 /\ h[1] = e.id /\ h[2] = 0 /\ h[3] = Len(e.value)
    BY <1>1
<1>3. EntryCells(e) = h \o e.value
    BY DEF EntryCells
<1> DEFINE v == e.value
<1>4. v \in Seq(Nat)
    BY <1>1
<1> HIDE DEF h, v
<1>5. /\ h \o v \in Seq(Nat) /\ Len(h \o v) = Len(h) + Len(v)
      /\ \A k \in 1..Len(h) : (h \o v)[k] = h[k]
      /\ \A k \in 1..Len(v) : (h \o v)[Len(h) + k] = v[k]
    BY <1>2, <1>4, JoinCells, Zenon
<1>6. (h \o v)[1] = h[1] /\ (h \o v)[2] = h[2] /\ (h \o v)[3] = h[3]
    BY <1>2, <1>5
<1> QED BY <1>1, <1>2, <1>3, <1>5, <1>6 DEF ENTRY_HEAD, v

Adds(b, entries) ==
    /\ b[0] = <<>>
    /\ \A i \in 1..Len(entries) : b[i] = b[i - 1] \o EntryCells(entries[i])

\* EncodedEntries adds the entries one by one.
LEMMA EncodedSteps ==
    ASSUME NEW entries \in Seq(Entry)
    PROVE  \E b \in [0..Len(entries) -> Seq(Nat)] :
               Adds(b, entries) /\ EncodedEntries(entries) = b[Len(entries)]
<1> DEFINE n == Len(entries)
           S == Seq(Nat)
           step == [i \in 1..n |-> [s \in S |-> s \o EntryCells(entries[i])]]
           add(s, i) == s \o <<entries[i].id, 0, Len(entries[i].value)>> \o entries[i].value
           Body(g) == [i \in 0..n |-> IF i = 0 THEN <<>> ELSE add(g[i - 1], i)]
           t == CHOOSE g : g = Body(g)
<1>1. n \in Nat /\ <<>> \in S
    OBVIOUS
<1>2. \A i \in 1..n : entries[i] \in Entry /\ EntryCells(entries[i]) \in Seq(Nat)
    BY EntryCellsSeq
<1>3. ASSUME NEW i \in 1..n, NEW s \in S
      PROVE  s \o EntryCells(entries[i]) \in S /\ add(s, i) = s \o EntryCells(entries[i])
  <2>1. entries[i].id \in Nat /\ entries[i].value \in Seq(Nat) /\ Len(entries[i].value) \in Nat
      BY <1>2, EntryCellsSeq
  <2> DEFINE h == <<entries[i].id, 0, Len(entries[i].value)>>
             v == entries[i].value
  <2>2. h \in Seq(Nat) /\ v \in Seq(Nat)
      BY <2>1
  <2> HIDE DEF h, v
  <2>3. s \o h \o v = s \o (h \o v)
      BY <2>2, ConcatAssoc, Zenon
  <2>4. s \o EntryCells(entries[i]) \in S
      BY <1>2
  <2> QED BY <2>3, <2>4 DEF EntryCells, h, v
<1> HIDE DEF n, add
<1>4. step \in [1..n -> [S -> S]]
    BY <1>3
<1>5. PICK f \in [0..n -> S] : Recurs(f, n, <<>>, step)
  <2> HIDE DEF step, S
  <2> QED BY <1>1, <1>4, Recursion
<1>6. \A i \in 1..n : f[i] = add(f[i - 1], i)
  <2>1. ASSUME NEW i \in 1..n PROVE f[i] = add(f[i - 1], i)
    <3>1. i - 1 \in 0..n /\ f[i - 1] \in S
        BY <1>1
    <3> QED BY <3>1, <1>3, <1>5 DEF Recurs
  <2> QED BY <2>1
<1>7. f = Body(f)
  <2>1. \A i \in 0..n : f[i] = IF i = 0 THEN <<>> ELSE add(f[i - 1], i)
      BY <1>1, <1>5, <1>6 DEF Recurs
  <2> QED BY <2>1
<1>8. t = Body(t)
  <2> HIDE DEF Body
  <2> QED BY <1>7
<1>9. EncodedEntries(entries) = t[n]
    BY DEF EncodedEntries, n, add
<1> HIDE DEF t
<1>10. \A i \in 0..n : t[i] = IF i = 0 THEN <<>> ELSE add(t[i - 1], i)
    BY <1>8
<1> DEFINE R == {i \in 0..n : t[i] \in S}
<1>11. \A i \in 0..n : i \in R
  <2>1. 0 \in R
    <3>1. 0 \in 0..n
        BY <1>1
    <3>2. t[0] = <<>>
        BY <3>1, <1>10, Zenon
    <3> QED BY <3>1, <3>2, <1>1
  <2>2. ASSUME NEW i \in 0..n, i < n, i \in R PROVE i + 1 \in R
    <3>1. i + 1 \in 0..n /\ i + 1 \in 1..n /\ i + 1 # 0 /\ (i + 1) - 1 = i
        BY <1>1, <2>2
    <3>2. t[i + 1] = add(t[i], i + 1)
        BY <3>1, <1>10
    <3>3. add(t[i], i + 1) \in S
        BY <3>1, <1>3, <2>2
    <3> QED BY <3>1, <3>2, <3>3
  <2> HIDE DEF R
  <2> QED BY <1>1, <2>1, <2>2, UpTo
<1>12. t \in [0..n -> S]
    BY <1>8, <1>11
<1>13. Adds(t, entries)
  <2>1. t[0] = <<>>
      BY <1>1, <1>10
  <2>2. ASSUME NEW i \in 1..n PROVE t[i] = t[i - 1] \o EntryCells(entries[i])
    <3>1. i \in 0..n /\ i - 1 \in 0..n /\ i # 0
        BY <1>1
    <3>2. t[i] = add(t[i - 1], i) /\ t[i - 1] \in S
        BY <3>1, <1>10, <1>12
    <3> QED BY <3>2, <1>3
  <2> QED BY <2>1, <2>2 DEF Adds, n
<1> QED BY <1>9, <1>12, <1>13 DEF n

\* One more entry.
LEMMA EncodedAppend ==
    ASSUME NEW entries \in Seq(Entry), NEW e \in Entry
    PROVE  EncodedEntries(Append(entries, e)) = EncodedEntries(entries) \o EntryCells(e)
<1> DEFINE n == Len(entries)
           more == Append(entries, e)
<1>1. /\ more \in Seq(Entry) /\ Len(more) = n + 1 /\ n \in Nat /\ more[n + 1] = e
      /\ \A i \in 1..n : more[i] = entries[i]
    OBVIOUS
<1> HIDE DEF more
<1>2. PICK b \in [0..n -> Seq(Nat)] : Adds(b, entries) /\ EncodedEntries(entries) = b[n]
    BY EncodedSteps
<1>3. PICK c \in [0..n + 1 -> Seq(Nat)] : Adds(c, more) /\ EncodedEntries(more) = c[n + 1]
    BY <1>1, EncodedSteps
<1> DEFINE R == {i \in 0..n : b[i] = c[i]}
<1> HIDE DEF n
<1>4. 0 \in R
    BY <1>1, <1>2, <1>3 DEF Adds
<1>5. ASSUME NEW i \in 0..n, i < n, i \in R PROVE i + 1 \in R
  <2>1. i + 1 \in 1..n /\ i + 1 \in 0..n /\ i + 1 \in 1..n + 1 /\ (i + 1) - 1 = i
      BY <1>1, <1>5
  <2>2. b[i + 1] = b[i] \o EntryCells(entries[i + 1])
      BY <2>1, <1>2 DEF Adds, n
  <2>3. c[i + 1] = c[i] \o EntryCells(more[i + 1])
      BY <2>1, <1>1, <1>3 DEF Adds
  <2> QED BY <2>1, <2>2, <2>3, <1>1, <1>5
<1>6. n \in R
  <2> HIDE DEF R
  <2>1. \A i \in 0..n : i \in R
      BY <1>1, <1>4, <1>5, UpTo
  <2> QED BY <2>1, <1>1
<1>7. c[n + 1] = c[n] \o EntryCells(e)
  <2>1. n + 1 \in 1..n + 1 /\ (n + 1) - 1 = n
      BY <1>1
  <2> QED BY <2>1, <1>1, <1>3 DEF Adds
<1> QED BY <1>2, <1>3, <1>6, <1>7 DEF more

\* Encoded entries are a sequence of cells.
LEMMA EncodedSeq ==
    ASSUME NEW entries \in Seq(Entry)
    PROVE  EncodedEntries(entries) \in Seq(Nat)
<1>1. PICK b \in [0..Len(entries) -> Seq(Nat)] :
         Adds(b, entries) /\ EncodedEntries(entries) = b[Len(entries)]
    BY EncodedSteps
<1>2. Len(entries) \in 0..Len(entries)
    OBVIOUS
<1> QED BY <1>1, <1>2

\* No entries, no cells.
LEMMA EncodedEmpty ==
    EncodedEntries(<<>>) = <<>>
<1> DEFINE none == <<>>
<1>1. none \in Seq(Entry) /\ Len(none) = 0
    OBVIOUS
<1> HIDE DEF none
<1>2. PICK b \in [0..Len(none) -> Seq(Nat)] : Adds(b, none) /\ EncodedEntries(none) = b[Len(none)]
    BY <1>1, EncodedSteps
<1> QED BY <1>1, <1>2 DEF Adds, none

-----------------------------------------------------------------------------
(* parse_impl.                                                             *)

Good(kind, entries) ==
    \A i \in 1..Len(entries) : IdError(kind, entries[i].id, IF i = 1 THEN 0 ELSE entries[i - 1].id) = "OK"

\* validate_entries accepts what has no entry in error.
LEMMA ValidateOK ==
    ASSUME NEW kind, NEW entries \in Seq(Entry)
    PROVE  validate_entries(kind, entries) = "OK" <=> kind \in Kinds /\ Good(kind, entries)
<1> DEFINE error == [i \in DOMAIN entries |->
                       IdError(kind, entries[i].id, IF i = 1 THEN 0 ELSE entries[i - 1].id)]
           bad == {i \in DOMAIN entries : error[i] # "OK"}
<1>1. DOMAIN entries = 1..Len(entries) /\ Len(entries) \in Nat
    OBVIOUS
<1>2. bad = {} <=> Good(kind, entries)
    BY <1>1 DEF Good
<1>3. validate_entries(kind, entries) = IF kind \notin Kinds THEN "INVALID_ARGUMENT"
                                        ELSE IF bad = {} THEN "OK" ELSE error[Min(bad)]
    BY DEF validate_entries
<1>4. bad # {} => error[Min(bad)] # "OK"
  <2>1. SUFFICES ASSUME bad # {} PROVE Min(bad) \in bad
      OBVIOUS
  <2>2. bad \subseteq Nat
      BY <1>1
  <2> HIDE DEF bad, error
  <2>3. PICK x \in bad : \A y \in bad : ~(<<y, x>> \in OpToRel(<, Nat))
      BY <2>1, <2>2, WFMin, NatLessThanWellFounded, Zenon
  <2>4. \A y \in bad : ~(y < x)
      BY <2>2, <2>3 DEF OpToRel
  <2>5. \A y \in bad : x <= y
      BY <2>2, <2>4
  <2> QED BY <2>5 DEF Min
<1> HIDE DEF bad, error
<1> QED BY <1>2, <1>3, <1>4

ParseErrors == {"OK", "TRUNCATED", "NONZERO_FLAGS", "INVALID_ID", "NON_CANONICAL_ORDER", "INVALID_CRITICAL_ID"}
State == [err : ParseErrors, offset : Nat, previous : Nat, entries : Seq(Entry)]
EntryAt(input, o) == [id |-> input[o + 1], value |-> SubSeq(input, o + 4, o + 3 + input[o + 3])]

\* An entry that fits and has no flags is what its cells say.
LEMMA EntryRead ==
    ASSUME NEW input \in Seq(Nat), NEW o \in Nat, o + ENTRY_HEAD <= Len(input),
           input[o + 3] <= Len(input) - o - ENTRY_HEAD
    PROVE  /\ EntryAt(input, o) \in Entry /\ input[o + 1] \in Nat /\ input[o + 3] \in Nat
           /\ Len(EntryAt(input, o).value) = input[o + 3]
           /\ o + ENTRY_HEAD + input[o + 3] <= Len(input)
           /\ input[o + 2] = 0 =>
                 SubSeq(input, 1, o + ENTRY_HEAD + input[o + 3])
                     = SubSeq(input, 1, o) \o EntryCells(EntryAt(input, o))
<1> USE DEF ENTRY_HEAD
<1> DEFINE n == input[o + 3]
           m == o + 3
           e == EntryAt(input, o)
           v == SubSeq(input, m + 1, m + n)
<1>1. Len(input) \in Nat /\ n \in Nat /\ input[o + 1] \in Nat /\ m \in Nat /\ m + n \in Nat
    OBVIOUS
<1>2. m <= m + n /\ m + n <= Len(input) /\ (m + n) - m = n /\ m = o + 3
    BY <1>1
<1>3. e = [id |-> input[o + 1], value |-> v]
    BY DEF EntryAt
<1> HIDE DEF n, m
<1>4. v \in Seq(Nat) /\ Len(v) = n /\ \A k \in 1..n : v[k] = input[m + k]
  <2>1. /\ SubSeq(input, m + 1, m + n) \in Seq(Nat) /\ Len(SubSeq(input, m + 1, m + n)) = (m + n) - m
        /\ \A k \in 1..(m + n) - m : SubSeq(input, m + 1, m + n)[k] = input[m + k]
      BY <1>1, <1>2, PieceNumbers
  <2> QED BY <1>2, <2>1
<1> HIDE DEF v, e
<1>5. e \in Entry /\ e.id = input[o + 1] /\ e.value = v
    BY <1>1, <1>3, <1>4 DEF Entry
<1>6. ASSUME input[o + 2] = 0
      PROVE  SubSeq(input, 1, m + n) = SubSeq(input, 1, o) \o EntryCells(e)
  <2> DEFINE a == SubSeq(input, 1, m + n)
             b == SubSeq(input, 1, o)
             c == EntryCells(e)
             z == 0
  <2>1. z \in Nat /\ o <= Len(input) /\ z <= o /\ z <= m + n /\ z + 1 = 1 /\ o - z = o /\ (m + n) - z = m + n
      BY <1>1, <1>2
  <2>2. /\ a \in Seq(Nat) /\ Len(a) = m + n /\ \A k \in 1..m + n : a[k] = input[k]
        /\ b \in Seq(Nat) /\ Len(b) = o /\ \A k \in 1..o : b[k] = input[k]
    <3> HIDE DEF z
    <3>1. /\ SubSeq(input, z + 1, m + n) \in Seq(Nat) /\ Len(SubSeq(input, z + 1, m + n)) = (m + n) - z
          /\ \A k \in 1..(m + n) - z : SubSeq(input, z + 1, m + n)[k] = input[z + k]
        BY <1>1, <1>2, <2>1, PieceNumbers
    <3>2. /\ SubSeq(input, z + 1, o) \in Seq(Nat) /\ Len(SubSeq(input, z + 1, o)) = o - z
          /\ \A k \in 1..o - z : SubSeq(input, z + 1, o)[k] = input[z + k]
        BY <1>1, <1>2, <2>1, PieceNumbers
    <3> QED BY <2>1, <3>1, <3>2 DEF z
  <2>3. /\ c \in Seq(Nat) /\ Len(c) = 3 + n /\ c[1] = input[o + 1] /\ c[2] = 0 /\ c[3] = n
        /\ \A k \in 1..n : c[3 + k] = v[k]
    <3>1. /\ c \in Seq(Nat) /\ Len(c) = 3 + Len(e.value) /\ c[1] = e.id /\ c[2] = 0
          /\ c[3] = Len(e.value) /\ \A k \in 1..Len(e.value) : c[3 + k] = e.value[k]
        BY <1>5, EntryCellsSeq
    <3> HIDE DEF c
    <3> QED BY <3>1, <1>4, <1>5
  <2> HIDE DEF a, b, c
  <2>4. /\ b \o c \in Seq(Nat) /\ Len(b \o c) = Len(b) + Len(c)
        /\ \A k \in 1..Len(b) : (b \o c)[k] = b[k]
        /\ \A k \in 1..Len(c) : (b \o c)[Len(b) + k] = c[k]
      BY <2>2, <2>3, JoinCells, Zenon
  <2>5. Len(b \o c) = m + n
      BY <1>1, <1>2, <2>2, <2>3, <2>4
  <2>6. ASSUME NEW k \in 1..m + n PROVE a[k] = (b \o c)[k]
    <3>0. k \in Int /\ k >= 1 /\ (k <= o \/ k > o)
        BY <1>1
    <3>1. CASE k <= o
      <4>1. k \in 1..o /\ k \in 1..Len(b)
          BY <3>0, <3>1, <2>2
      <4>2. a[k] = input[k] /\ b[k] = input[k]
          BY <4>1, <2>2
      <4> QED BY <4>1, <4>2, <2>4
    <3>2. CASE k > o
      <4>1. k - o \in 1..3 + n /\ k = o + (k - o)
          BY <3>2, <1>1, <1>2
      <4>2. (b \o c)[k] = c[k - o]
          BY <4>1, <2>2, <2>3, <2>4
      <4>3. CASE k - o \in {1, 2, 3}
        <5>1. k = o + 1 \/ k = o + 2 \/ k = o + 3
            BY <4>1, <4>3
        <5>2. c[k - o] = input[k]
            BY <5>1, <4>1, <4>3, <2>3, <1>6, <1>2 DEF n
        <5> QED BY <5>2, <4>2, <2>2
      <4>4. CASE k - o \notin {1, 2, 3}
        <5>1. (k - o) - 3 \in 1..n /\ k - o = 3 + ((k - o) - 3) /\ k = m + ((k - o) - 3)
            BY <4>1, <4>4, <1>1, <1>2
        <5>2. c[k - o] = v[(k - o) - 3] /\ v[(k - o) - 3] = input[k]
            BY <5>1, <2>3, <1>4
        <5> QED BY <5>2, <4>2, <2>2
      <4> QED BY <4>3, <4>4
    <3> QED BY <3>0, <3>1, <3>2
  <2>7. Len(a) = Len(b \o c) /\ \A k \in 1..Len(a) : a[k] = (b \o c)[k]
      BY <2>2, <2>5, <2>6
  <2>8. a = b \o c
      BY <2>2, <2>4, <2>7, SameNumbers, Zenon
  <2> QED BY <2>8 DEF a, b, c
<1> QED BY <1>1, <1>2, <1>4, <1>5, <1>6 DEF n, m, e

\* The two ways in which an identifier is refused.
LEMMA IdErrorNames ==
    ASSUME NEW kind, NEW id \in Nat, NEW previous \in Nat
    PROVE  IdError(kind, id, previous) \in ParseErrors
BY DEF IdError, ParseErrors

\* The cells in front of a value.
LEMMA HeadCells ==
    ASSUME NEW input \in Seq(Nat), NEW o \in Nat, o + ENTRY_HEAD <= Len(input)
    PROVE  input[o + 1] \in Nat /\ input[o + 2] \in Nat /\ input[o + 3] \in Nat
BY DEF ENTRY_HEAD

Taken(input, s) ==
    [err |-> "OK", offset |-> s.offset + ENTRY_HEAD + input[s.offset + 3], previous |-> input[s.offset + 1],
     entries |-> Append(s.entries, EntryAt(input, s.offset))]
Fits(input, kind, s) ==
    /\ s.offset + ENTRY_HEAD <= Len(input)
    /\ IdError(kind, input[s.offset + 1], s.previous) = "OK"
    /\ input[s.offset + 2] = 0
    /\ input[s.offset + 3] <= Len(input) - s.offset - ENTRY_HEAD

\* One turn of the loop takes the next entry, or ends it with an error.
LEMMA ParseEntryCases ==
    ASSUME NEW input \in Seq(Nat), NEW kind, NEW s \in State
    PROVE  /\ ParseEntry(input, kind, s) \in State
           /\ Fits(input, kind, s) => ParseEntry(input, kind, s) = Taken(input, s)
           /\ ~Fits(input, kind, s) => ParseEntry(input, kind, s).err # "OK"
<1> DEFINE o == s.offset
           n == input[o + 3]
           flags == input[o + 2]
           e == IdError(kind, input[o + 1], s.previous)
           p == ParseEntry(input, kind, s)
<1>0. s.entries \in Seq(Entry) /\ s.previous \in Nat
    BY DEF State
<1>1. o \in Nat /\ Len(input) \in Nat
    BY DEF State
<1>2. p = IF Len(input) - o < ENTRY_HEAD THEN [s EXCEPT !.err = "TRUNCATED"]
          ELSE IF e # "OK" THEN [s EXCEPT !.err = e]
          ELSE IF flags # 0 THEN [s EXCEPT !.err = "NONZERO_FLAGS"]
          ELSE IF n > Len(input) - o - ENTRY_HEAD THEN [s EXCEPT !.err = "TRUNCATED"]
          ELSE Taken(input, s)
    BY DEF ParseEntry, Taken, EntryAt
<1>3. \A x \in ParseErrors : [s EXCEPT !.err = x] \in State /\ [s EXCEPT !.err = x].err = x
    BY DEF State
<1>4. Fits(input, kind, s) <=> /\ o + ENTRY_HEAD <= Len(input) /\ e = "OK" /\ flags = 0
                               /\ n <= Len(input) - o - ENTRY_HEAD
    BY DEF Fits
<1>5. o + ENTRY_HEAD <= Len(input) => n \in Nat /\ input[o + 1] \in Nat
  <2> HIDE DEF o
  <2> QED BY <1>1, HeadCells
<1>6. o + ENTRY_HEAD <= Len(input) => e \in ParseErrors
  <2> HIDE DEF o
  <2> QED BY <1>0, <1>1, <1>5, IdErrorNames
<1> HIDE DEF e, n, flags, p, o
<1>7. CASE Fits(input, kind, s)
  <2>0. /\ o + ENTRY_HEAD <= Len(input) /\ e = "OK" /\ flags = 0
        /\ n <= Len(input) - o - ENTRY_HEAD /\ n \in Nat /\ input[o + 1] \in Nat
      BY <1>4, <1>5, <1>7
  <2>1. EntryAt(input, o) \in Entry
      BY <1>1, <2>0, EntryRead DEF n
  <2>2. Taken(input, s) \in State
    <3>0. o + ENTRY_HEAD + n \in Nat /\ "OK" \in ParseErrors
        BY <1>1, <2>0 DEF ENTRY_HEAD, ParseErrors
    <3>1. Append(s.entries, EntryAt(input, o)) \in Seq(Entry)
        BY <1>0, <2>1
    <3>2. Taken(input, s) = [err |-> "OK", offset |-> o + ENTRY_HEAD + n, previous |-> input[o + 1],
                             entries |-> Append(s.entries, EntryAt(input, o))]
        BY DEF Taken, o, n
    <3> QED BY <2>0, <3>0, <3>1, <3>2 DEF State
  <2>3. ~(Len(input) - o < ENTRY_HEAD) /\ ~(n > Len(input) - o - ENTRY_HEAD)
      BY <1>1, <2>0 DEF ENTRY_HEAD
  <2>4. p = Taken(input, s)
      BY <2>0, <2>3, <1>2
  <2> QED BY <1>7, <2>2, <2>4 DEF p
<1>8. CASE ~Fits(input, kind, s)
  <2>1. CASE Len(input) - o < ENTRY_HEAD
    <3>1. p = [s EXCEPT !.err = "TRUNCATED"] /\ "TRUNCATED" \in ParseErrors
        BY <1>2, <2>1 DEF ParseErrors
    <3> QED BY <3>1, <1>3, <1>8 DEF p
  <2>2. CASE ~(Len(input) - o < ENTRY_HEAD)
    <3>1. o + ENTRY_HEAD <= Len(input) /\ n \in Nat /\ e \in ParseErrors
        BY <2>2, <1>1, <1>5, <1>6 DEF ENTRY_HEAD
    <3>2. e # "OK" \/ flags # 0 \/ n > Len(input) - o - ENTRY_HEAD
        BY <3>1, <1>1, <1>4, <1>8 DEF ENTRY_HEAD
    <3>3. \E x \in ParseErrors : x # "OK" /\ p = [s EXCEPT !.err = x]
      <4>1. "TRUNCATED" \in ParseErrors /\ "NONZERO_FLAGS" \in ParseErrors
          BY DEF ParseErrors
      <4>2. CASE e # "OK"
          BY <4>2, <2>2, <3>1, <1>2
      <4>3. CASE e = "OK" /\ flags # 0
          BY <4>1, <4>3, <2>2, <1>2
      <4>4. CASE e = "OK" /\ flags = 0 /\ n > Len(input) - o - ENTRY_HEAD
          BY <4>1, <4>4, <2>2, <1>2
      <4> QED BY <3>2, <4>2, <4>3, <4>4
    <3> QED BY <3>3, <1>3, <1>8 DEF p
  <2> QED BY <2>1, <2>2
<1> QED BY <1>7, <1>8

\* The loop of parse_impl: its state before the first turn, a turn, all turns.
Start == [err |-> "OK", offset |-> HEAD, previous |-> 0, entries |-> <<>>]
Turn(input, s) == IF s.err # "OK" THEN s ELSE ParseEntry(input, input[3], s)
Turns(t, input, count) == t[0] = Start /\ \A i \in 1..count : t[i] = Turn(input, t[i - 1])

\* What parse_impl makes of the loop's last state.
Verdict(input, entries_capacity, end) ==
    IF input[1] # MAGIC THEN [err |-> "INVALID_MAGIC"]
    ELSE IF input[2] # CONTEXT_VERSION THEN [err |-> "UNSUPPORTED_VERSION"]
    ELSE IF input[3] \notin Kinds THEN [err |-> "UNKNOWN_KIND"]
    ELSE IF input[4] > (Len(input) - HEAD) \div ENTRY_HEAD THEN [err |-> "TRUNCATED"]
    ELSE IF input[4] > entries_capacity THEN [err |-> "ENTRY_BUFFER_TOO_SMALL"]
    ELSE IF end.err # "OK" THEN [err |-> end.err]
    ELSE IF end.offset # Len(input) THEN [err |-> "TRAILING_BYTES"]
    ELSE [err |-> "OK", kind |-> input[3], entries |-> end.entries]

\* The loop starts in a state,
LEMMA StartState == Start \in State
<1>1. <<>> \in Seq(Entry)
    OBVIOUS
<1> QED BY <1>1 DEF Start, State, ParseErrors, HEAD

\* and every turn leads to one.
LEMMA TurnState ==
    ASSUME NEW input \in Seq(Nat), NEW s \in State
    PROVE  Turn(input, s) \in State
BY ParseEntryCases DEF Turn

\* The states of the loop, one for each entry.
LEMMA LoopSteps ==
    ASSUME NEW input \in Seq(Nat), Len(input) >= HEAD, NEW entries_capacity
    PROVE  /\ input[4] \in Nat
           /\ \E t \in [0..input[4] -> State] :
                 /\ Turns(t, input, input[4])
                 /\ parse_impl(input, entries_capacity) = Verdict(input, entries_capacity, t[input[4]])
<1> DEFINE n == input[4]
           step == [i \in 1..n |-> [s \in State |-> Turn(input, s)]]
           turn(s) == IF s.err # "OK" THEN s ELSE ParseEntry(input, input[3], s)
           Body(g) == [i \in 0..n |-> IF i = 0 THEN [err |-> "OK", offset |-> HEAD, previous |-> 0, entries |-> <<>>]
                                      ELSE IF g[i - 1].err # "OK" THEN g[i - 1]
                                      ELSE ParseEntry(input, input[3], g[i - 1])]
           t == CHOOSE g : g = Body(g)
<1>1. n \in Nat
    BY DEF HEAD
<1>2. parse_impl(input, entries_capacity) = Verdict(input, entries_capacity, t[n])
  <2>1. ~(Len(input) < HEAD)
      BY DEF HEAD
  <2> QED BY <2>1 DEF parse_impl, Verdict
<1> HIDE DEF n
<1>3. step \in [1..n -> [State -> State]]
    BY TurnState
<1>4. PICK f \in [0..n -> State] : Recurs(f, n, Start, step)
  <2> HIDE DEF step
  <2> QED BY <1>1, <1>3, StartState, Recursion
<1>5. \A i \in 0..n : f[i] = IF i = 0 THEN Start ELSE Turn(input, f[i - 1])
  <2>1. ASSUME NEW i \in 0..n, i # 0 PROVE f[i] = Turn(input, f[i - 1])
    <3>1. i \in 1..n /\ i - 1 \in 0..n /\ f[i - 1] \in State
        BY <1>1, <2>1
    <3> QED BY <3>1, <1>4 DEF Recurs
  <2> QED BY <2>1, <1>4 DEF Recurs
<1>6. f = Body(f)
    BY <1>5 DEF Turn, Start
<1>7. t = Body(t)
  <2> HIDE DEF Body
  <2> QED BY <1>6
<1> HIDE DEF t
<1>8. \A i \in 0..n : t[i] = IF i = 0 THEN Start ELSE Turn(input, t[i - 1])
    BY <1>7 DEF Turn, Start
<1> DEFINE R == {i \in 0..n : t[i] \in State}
<1>9. 0 \in R
  <2>1. 0 \in 0..n
      BY <1>1
  <2>2. t[0] = Start
      BY <2>1, <1>8, Zenon
  <2> QED BY <2>1, <2>2, StartState
<1>10. ASSUME NEW i \in 0..n, i < n, i \in R PROVE i + 1 \in R
  <2>1. i + 1 \in 0..n /\ i + 1 # 0 /\ (i + 1) - 1 = i
      BY <1>1, <1>10
  <2>2. t[i + 1] = Turn(input, t[i])
      BY <2>1, <1>8
  <2> QED BY <2>1, <2>2, <1>10, TurnState
<1>11. \A i \in 0..n : i \in R
  <2> HIDE DEF R
  <2> QED BY <1>1, <1>9, <1>10, UpTo
<1>12. t \in [0..n -> State]
    BY <1>7, <1>11
<1>13. Turns(t, input, n)
  <2>1. t[0] = Start
    <3>1. 0 \in 0..n
        BY <1>1
    <3> QED BY <3>1, <1>8, Zenon
  <2>2. ASSUME NEW i \in 1..n PROVE t[i] = Turn(input, t[i - 1])
    <3>1. i \in 0..n /\ i # 0
        BY <1>1
    <3> QED BY <3>1, <1>8
  <2> QED BY <2>1, <2>2 DEF Turns
<1> QED BY <1>1, <1>2, <1>12, <1>13 DEF n

\* What holds after the loop has taken i entries.
ParseInv(input, s, i) ==
    s.err = "OK" =>
        /\ Len(s.entries) = i /\ s.offset <= Len(input)
        /\ Good(input[3], s.entries)
        /\ s.previous = IF i = 0 THEN 0 ELSE s.entries[i].id
        /\ SubSeq(input, 1, s.offset) = SubSeq(input, 1, HEAD) \o EncodedEntries(s.entries)

\* Before the first turn nothing is read.
LEMMA ParseInvStart ==
    ASSUME NEW input \in Seq(Nat), Len(input) >= HEAD
    PROVE  ParseInv(input, Start, 0)
<1>1. /\ Start.err = "OK" /\ Start.entries = <<>> /\ Start.offset = HEAD /\ Start.previous = 0
      /\ Len(Start.entries) = 0
    BY DEF Start
<1>2. Good(input[3], Start.entries)
    BY <1>1 DEF Good
<1>3. SubSeq(input, 1, HEAD) \in Seq(Nat)
    BY DEF HEAD
<1>4. SubSeq(input, 1, HEAD) = SubSeq(input, 1, HEAD) \o EncodedEntries(<<>>)
    BY <1>3, EncodedEmpty
<1>5. HEAD <= Len(input)
    BY DEF HEAD
<1> QED BY <1>1, <1>2, <1>4, <1>5 DEF ParseInv

\* A further entry keeps a list good when its id follows the last one.
LEMMA GoodAppend ==
    ASSUME NEW kind, NEW entries \in Seq(Entry), NEW e \in Entry, Good(kind, entries),
           IdError(kind, e.id, IF Len(entries) = 0 THEN 0 ELSE entries[Len(entries)].id) = "OK"
    PROVE  Good(kind, Append(entries, e))
<1> DEFINE more == Append(entries, e)
           n == Len(entries)
<1>1. /\ Len(more) = n + 1 /\ n \in Nat /\ more[n + 1] = e
      /\ \A i \in 1..n : more[i] = entries[i]
    OBVIOUS
<1> HIDE DEF more, n
<1>2. ASSUME NEW i \in 1..n + 1
      PROVE  IdError(kind, more[i].id, IF i = 1 THEN 0 ELSE more[i - 1].id) = "OK"
  <2>1. CASE i = n + 1
    <3>1. more[i] = e
        BY <2>1, <1>1
    <3>2. (IF i = 1 THEN 0 ELSE more[i - 1].id) = IF n = 0 THEN 0 ELSE entries[n].id
      <4>1. CASE n = 0
          BY <4>1, <2>1
      <4>2. CASE n # 0
        <5>1. i # 1 /\ i - 1 = n /\ n \in 1..n
            BY <4>2, <2>1, <1>1
        <5> QED BY <4>2, <5>1, <1>1
      <4> QED BY <4>1, <4>2
    <3> QED BY <3>1, <3>2 DEF n
  <2>2. CASE i # n + 1
    <3>1. i \in 1..n /\ (i # 1 => i - 1 \in 1..n)
        BY <2>2, <1>1
    <3>2. more[i] = entries[i] /\ (i # 1 => more[i - 1] = entries[i - 1])
        BY <3>1, <1>1
    <3>3. IdError(kind, entries[i].id, IF i = 1 THEN 0 ELSE entries[i - 1].id) = "OK"
        BY <3>1 DEF Good, n
    <3>4. CASE i = 1
        BY <3>2, <3>3, <3>4
    <3>5. CASE i # 1
        BY <3>2, <3>3, <3>5
    <3> QED BY <3>4, <3>5
  <2> QED BY <2>1, <2>2
<1> QED BY <1>1, <1>2 DEF Good, more

\* Taking an entry.
LEMMA ParseInvTurn ==
    ASSUME NEW input \in Seq(Nat), Len(input) >= HEAD, NEW s \in State, NEW i \in Nat,
           ParseInv(input, s, i)
    PROVE  ParseInv(input, Turn(input, s), i + 1) \/ Turn(input, s).err # "OK"
<1> SUFFICES ASSUME Turn(input, s).err = "OK"
             PROVE  ParseInv(input, Turn(input, s), i + 1)
    OBVIOUS
<1>1. s.err = "OK" /\ Turn(input, s) = ParseEntry(input, input[3], s)
    BY DEF Turn
<1>2. Fits(input, input[3], s) /\ Turn(input, s) = Taken(input, s)
    BY <1>1, ParseEntryCases
<1> DEFINE o == s.offset
           n == input[o + 3]
           e == EntryAt(input, o)
           es == s.entries
           p == Taken(input, s)
<1>3. o \in Nat /\ es \in Seq(Entry) /\ Len(es) = i /\ o <= Len(input)
    BY <1>1 DEF State, ParseInv
<1>4. /\ o + ENTRY_HEAD <= Len(input) /\ IdError(input[3], input[o + 1], s.previous) = "OK"
      /\ input[o + 2] = 0 /\ n <= Len(input) - o - ENTRY_HEAD
    BY <1>2 DEF Fits
<1>5. /\ e \in Entry /\ n \in Nat /\ Len(e.value) = n /\ o + ENTRY_HEAD + n <= Len(input)
      /\ SubSeq(input, 1, o + ENTRY_HEAD + n) = SubSeq(input, 1, o) \o EntryCells(e)
    BY <1>3, <1>4, EntryRead
<1>6. /\ p.err = "OK" /\ p.offset = o + ENTRY_HEAD + n /\ p.previous = input[o + 1]
      /\ p.entries = Append(es, e) /\ e.id = input[o + 1]
    BY DEF Taken, EntryAt
<1>7. /\ Good(input[3], es) /\ s.previous = (IF i = 0 THEN 0 ELSE es[i].id)
      /\ SubSeq(input, 1, o) = SubSeq(input, 1, HEAD) \o EncodedEntries(es)
    BY <1>1 DEF ParseInv
<1> HIDE DEF o, n, e, es, p
<1>8. Len(p.entries) = i + 1 /\ p.entries[i + 1] = e
    BY <1>3, <1>5, <1>6
<1>9. Good(input[3], p.entries)
  <2>1. IdError(input[3], e.id, IF Len(es) = 0 THEN 0 ELSE es[Len(es)].id) = "OK"
      BY <1>3, <1>4, <1>6, <1>7
  <2>2. Good(input[3], Append(es, e))
      BY <1>3, <1>5, <1>7, <2>1, GoodAppend
  <2> QED BY <2>2, <1>6
<1>10. p.previous = IF i + 1 = 0 THEN 0 ELSE p.entries[i + 1].id
    BY <1>6, <1>8
<1>11. SubSeq(input, 1, p.offset) = SubSeq(input, 1, HEAD) \o EncodedEntries(p.entries)
  <2> DEFINE h == SubSeq(input, 1, HEAD)
             b == EncodedEntries(es)
             c == EntryCells(e)
  <2>1. h \in Seq(Nat) /\ b \in Seq(Nat) /\ c \in Seq(Nat)
    <3>1. h \in Seq(Nat)
        BY DEF HEAD
    <3> QED BY <3>1, <1>3, <1>5, EncodedSeq, EntryCellsSeq
  <2>2. EncodedEntries(p.entries) = b \o c
      BY <1>3, <1>5, <1>6, EncodedAppend
  <2>3. SubSeq(input, 1, p.offset) = (h \o b) \o c
      BY <1>5, <1>6, <1>7
  <2> HIDE DEF h, b, c
  <2>4. (h \o b) \o c = h \o (b \o c)
      BY <2>1, ConcatAssoc, Zenon
  <2> QED BY <2>2, <2>3, <2>4 DEF h
<1>12. p.offset <= Len(input)
    BY <1>5, <1>6
<1>13. ParseInv(input, p, i + 1)
    BY <1>8, <1>9, <1>10, <1>11, <1>12 DEF ParseInv
<1> QED BY <1>2, <1>13 DEF p

\* What holds after every turn.
LEMMA ParseInvLoop ==
    ASSUME NEW input \in Seq(Nat), Len(input) >= HEAD, NEW n \in Nat, NEW t \in [0..n -> State],
           Turns(t, input, n)
    PROVE  ParseInv(input, t[n], n)
<1> DEFINE R == {i \in 0..n : ParseInv(input, t[i], i)}
<1>1. 0 \in R
    BY ParseInvStart DEF Turns
<1>2. ASSUME NEW i \in 0..n, i < n, i \in R PROVE i + 1 \in R
  <2>1. i + 1 \in 1..n /\ i + 1 \in 0..n /\ (i + 1) - 1 = i /\ i \in Nat /\ t[i] \in State
      BY <1>2
  <2>2. t[i + 1] = Turn(input, t[i])
      BY <2>1 DEF Turns
  <2>3. ParseInv(input, t[i], i)
      BY <1>2
  <2>4. ParseInv(input, t[i + 1], i + 1) \/ t[i + 1].err # "OK"
      BY <2>1, <2>2, <2>3, ParseInvTurn
  <2>5. ParseInv(input, t[i + 1], i + 1)
      BY <2>4 DEF ParseInv
  <2> QED BY <2>1, <2>5
<1>3. n \in R
  <2> HIDE DEF R
  <2>1. \A i \in 0..n : i \in R
      BY <1>1, <1>2, UpTo
  <2> QED BY <2>1
<1> QED BY <1>3

ContextHead(kind, count) == <<MAGIC, CONTEXT_VERSION, kind, count>>

\* The head of a context is a sequence of cells.
LEMMA HeadSeq ==
    ASSUME NEW kind \in Nat, NEW count \in Nat
    PROVE  /\ ContextHead(kind, count) \in Seq(Nat) /\ Len(ContextHead(kind, count)) = HEAD
           /\ ContextHead(kind, count)[1] = MAGIC /\ ContextHead(kind, count)[2] = CONTEXT_VERSION
           /\ ContextHead(kind, count)[3] = kind /\ ContextHead(kind, count)[4] = count
BY DEF ContextHead, MAGIC, CONTEXT_VERSION, HEAD

\* What parse_impl accepts is the encoding of what it returns.
LEMMA ParseSound ==
    ASSUME NEW input \in Seq(Nat), NEW capacity \in Nat, NEW p, p = parse_impl(input, capacity),
           p.err = "OK"
    PROVE  /\ p = [err |-> "OK", kind |-> p.kind, entries |-> p.entries]
           /\ p.kind \in Kinds /\ p.entries \in Seq(Entry) /\ Good(p.kind, p.entries)
           /\ Len(p.entries) <= capacity /\ Len(p.entries) <= Len(input)
           /\ input = ContextHead(p.kind, Len(p.entries)) \o EncodedEntries(p.entries)
<1>1. Len(input) >= HEAD
  <2>1. ~(Len(input) < HEAD)
    <3>1. SUFFICES ASSUME Len(input) < HEAD PROVE FALSE
        OBVIOUS
    <3>2. p = [err |-> "TRUNCATED"]
        BY <3>1 DEF parse_impl
    <3> QED BY <3>2
  <2> QED BY <2>1 DEF HEAD
<1>2. input[4] \in Nat
    BY <1>1, LoopSteps
<1> DEFINE n == input[4]
<1>3. PICK t \in [0..n -> State] : Turns(t, input, n) /\ p = Verdict(input, capacity, t[n])
    BY <1>1, LoopSteps
<1> DEFINE s == t[n]
<1>4. s \in State /\ ParseInv(input, s, n)
  <2> HIDE DEF n
  <2>1. n \in Nat /\ n \in 0..n
      BY <1>2 DEF n
  <2> QED BY <1>1, <1>3, <2>1, ParseInvLoop
<1>5. /\ input[1] = MAGIC /\ input[2] = CONTEXT_VERSION /\ input[3] \in Kinds
      /\ ~(n > (Len(input) - HEAD) \div ENTRY_HEAD) /\ ~(n > capacity) /\ s.err = "OK"
      /\ s.offset = Len(input) /\ p = [err |-> "OK", kind |-> input[3], entries |-> s.entries]
  <2> HIDE DEF n, s
  <2>1. p = Verdict(input, capacity, s)
      BY <1>3 DEF s
  <2>2. input[1] = MAGIC
      BY <2>1 DEF Verdict
  <2>3. input[2] = CONTEXT_VERSION
      BY <2>1, <2>2 DEF Verdict
  <2>4. input[3] \in Kinds
      BY <2>1, <2>2, <2>3 DEF Verdict
  <2>5. ~(n > (Len(input) - HEAD) \div ENTRY_HEAD)
      BY <2>1, <2>2, <2>3, <2>4 DEF Verdict, n
  <2>6. ~(n > capacity)
      BY <2>1, <2>2, <2>3, <2>4, <2>5 DEF Verdict, n
  <2>7. s.err = "OK"
      BY <2>1, <2>2, <2>3, <2>4, <2>5, <2>6 DEF Verdict, n
  <2>8. s.offset = Len(input)
      BY <2>1, <2>2, <2>3, <2>4, <2>5, <2>6, <2>7 DEF Verdict, n
  <2>9. p = [err |-> "OK", kind |-> input[3], entries |-> s.entries]
      BY <2>1, <2>2, <2>3, <2>4, <2>5, <2>6, <2>7, <2>8 DEF Verdict, n
  <2> QED BY <2>2, <2>3, <2>4, <2>5, <2>6, <2>7, <2>8, <2>9
<1>6. p.kind = input[3] /\ p.entries = s.entries
    BY <1>5
<1>7. /\ s.entries \in Seq(Entry) /\ Len(s.entries) = n /\ Good(input[3], s.entries)
      /\ SubSeq(input, 1, Len(input)) = SubSeq(input, 1, HEAD) \o EncodedEntries(s.entries)
    BY <1>4, <1>5 DEF ParseInv, State
<1>8. SubSeq(input, 1, Len(input)) = input
    OBVIOUS
<1>9. SubSeq(input, 1, HEAD) = ContextHead(input[3], n)
  <2>1. /\ SubSeq(input, 1, HEAD) \in Seq(Nat) /\ Len(SubSeq(input, 1, HEAD)) = 4
        /\ \A k \in 1..4 : SubSeq(input, 1, HEAD)[k] = input[k]
      BY <1>1 DEF HEAD
  <2>2. input[3] \in Nat
      BY <1>5 DEF Kinds
  <2> DEFINE a == SubSeq(input, 1, HEAD)
             b == ContextHead(input[3], n)
  <2>3. b \in Seq(Nat) /\ Len(b) = 4 /\ b[1] = MAGIC /\ b[2] = CONTEXT_VERSION /\ b[3] = input[3] /\ b[4] = n
      BY <1>2, <2>2, HeadSeq DEF HEAD
  <2> HIDE DEF a, b
  <2>4. \A k \in 1..4 : a[k] = b[k]
    <3>1. a[1] = b[1] /\ a[2] = b[2] /\ a[3] = b[3] /\ a[4] = b[4]
      <4>1. a[1] = input[1] /\ a[2] = input[2] /\ a[3] = input[3] /\ a[4] = input[4]
          BY <2>1 DEF a
      <4> QED BY <4>1, <1>5, <2>3
    <3> QED BY <3>1
  <2>5. Len(a) = Len(b) /\ \A k \in 1..Len(a) : a[k] = b[k]
      BY <2>1, <2>3, <2>4 DEF a
  <2>6. a \in Seq(Nat)
      BY <2>1 DEF a
  <2>7. a = b
      BY <2>3, <2>5, <2>6, SameNumbers, Zenon
  <2> QED BY <2>7 DEF a, b
<1>10. n <= capacity /\ n <= Len(input)
    BY <1>1, <1>2, <1>5 DEF HEAD, ENTRY_HEAD
<1> HIDE DEF n, s
<1> QED BY <1>5, <1>6, <1>7, <1>8, <1>9, <1>10

\* What was added first stays at the front, and every entry has its head.
Grown(b, i, j) ==
    Len(b[i]) <= Len(b[j]) /\ \A k \in 1..Len(b[i]) : b[j][k] = b[i][k]

\* Every entry adds its cells behind those before it.
LEMMA AddsGrow ==
    ASSUME NEW entries \in Seq(Entry), NEW b \in [0..Len(entries) -> Seq(Nat)], Adds(b, entries)
    PROVE  \A j \in 0..Len(entries) : ENTRY_HEAD * j <= Len(b[j]) /\ \A i \in 0..j : Grown(b, i, j)
<1> USE DEF ENTRY_HEAD
<1> DEFINE n == Len(entries)
           R == {j \in 0..n : 3 * j <= Len(b[j]) /\ \A i \in 0..j : Grown(b, i, j)}
<1>1. n \in Nat /\ \A i \in 0..n : b[i] \in Seq(Nat) /\ Len(b[i]) \in Nat
    OBVIOUS
<1>2. 0 \in R
  <2>1. Len(b[0]) = 0
      BY DEF Adds
  <2>2. \A i \in 0..0 : Grown(b, i, 0)
      BY <2>1 DEF Grown
  <2> QED BY <1>1, <2>1, <2>2
<1>3. ASSUME NEW j \in 0..n, j < n, j \in R PROVE j + 1 \in R
  <2>1. j + 1 \in 1..n /\ j + 1 \in 0..n /\ (j + 1) - 1 = j /\ j \in Nat
      BY <1>1, <1>3
  <2> DEFINE c == EntryCells(entries[j + 1])
  <2>2. c \in Seq(Nat) /\ Len(c) >= 3 /\ Len(c) \in Nat
    <3>1. entries[j + 1] \in Entry
        BY <2>1
    <3>2. c \in Seq(Nat) /\ Len(c) = 3 + Len(entries[j + 1].value) /\ Len(entries[j + 1].value) \in Nat
        BY <3>1, EntryCellsSeq
    <3> QED BY <3>2
  <2>3. b[j + 1] = b[j] \o c
      BY <2>1 DEF Adds
  <2> HIDE DEF c
  <2>4. /\ Len(b[j + 1]) = Len(b[j]) + Len(c)
        /\ \A k \in 1..Len(b[j]) : b[j + 1][k] = b[j][k]
      BY <1>1, <2>2, <2>3, JoinCells
  <2>5. 3 * (j + 1) <= Len(b[j + 1])
    <3>1. 3 * j <= Len(b[j]) /\ Len(b[j]) \in Nat
        BY <1>1, <1>3
    <3> HIDE DEF n
    <3> QED BY <3>1, <2>1, <2>2, <2>4
  <2>6. ASSUME NEW i \in 0..j + 1 PROVE Grown(b, i, j + 1)
    <3>1. CASE i = j + 1
        BY <3>1, <2>1, <1>1 DEF Grown
    <3>2. CASE i # j + 1
      <4>1. i \in 0..j /\ i \in 0..n
          BY <3>2, <2>1
      <4>2. Grown(b, i, j)
          BY <4>1, <1>3
      <4>3. Len(b[i]) \in Nat /\ Len(b[j]) \in Nat
          BY <4>1, <1>1
      <4> HIDE DEF n
      <4>4. Len(b[i]) <= Len(b[j + 1])
          BY <4>2, <4>3, <2>2, <2>4 DEF Grown
      <4>5. ASSUME NEW k \in 1..Len(b[i]) PROVE b[j + 1][k] = b[i][k]
        <5>1. k \in 1..Len(b[j])
            BY <4>2, <4>3 DEF Grown
        <5> QED BY <5>1, <4>2, <2>4 DEF Grown
      <4> QED BY <4>4, <4>5 DEF Grown
    <3> QED BY <3>1, <3>2
  <2> QED BY <2>1, <2>5, <2>6
<1>4. \A j \in 0..n : j \in R
  <2> HIDE DEF R, n
  <2> QED BY <1>1, <1>2, <1>3, UpTo
<1> QED BY <1>4

\* After i turns the loop has the first i entries.
Reached(s, es, b, i) ==
    /\ s.err = "OK" /\ s.offset = HEAD + Len(b[i]) /\ Len(s.entries) = i
    /\ \A j \in 1..i : s.entries[j] = es[j]
    /\ s.previous = IF i = 0 THEN 0 ELSE es[i].id

\* input is a header for kind, and the cells of es as b adds them.
Holds(input, kind, es, b) ==
    /\ Len(input) = HEAD + Len(b[Len(es)]) /\ input[3] = kind
    /\ \A k \in 1..Len(b[Len(es)]) : input[HEAD + k] = b[Len(es)][k]

\* The cells of a sequence and of what is appended.
LEMMA AppendCells ==
    ASSUME NEW f \in Seq(Entry), NEW e \in Entry
    PROVE  /\ Len(Append(f, e)) = Len(f) + 1 /\ Append(f, e)[Len(f) + 1] = e
           /\ \A j \in 1..Len(f) : Append(f, e)[j] = f[j]
OBVIOUS

\* A turn over an encoded entry takes that entry.
LEMMA ReachedTurn ==
    ASSUME NEW kind \in Kinds, NEW es \in Seq(Entry), Good(kind, es),
           NEW b \in [0..Len(es) -> Seq(Nat)], Adds(b, es),
           NEW input \in Seq(Nat), Holds(input, kind, es, b),
           NEW i \in 0..Len(es), i < Len(es), NEW s \in State, Reached(s, es, b, i)
    PROVE  Reached(Turn(input, s), es, b, i + 1)
<1> DEFINE n == Len(es)
           e == es[i + 1]
           c == EntryCells(e)
           o == s.offset
           l == Len(b[i])
<1>1. /\ n \in Nat /\ i + 1 \in 1..n /\ i + 1 \in 0..n /\ (i + 1) - 1 = i /\ i \in Nat
      /\ i \in 0..n /\ n \in 0..n
    OBVIOUS
<1>2. e \in Entry
    BY <1>1
<1>3. /\ c \in Seq(Nat) /\ Len(c) = 3 + Len(e.value) /\ c[1] = e.id /\ c[2] = 0 /\ c[3] = Len(e.value)
      /\ \A k \in 1..Len(e.value) : c[3 + k] = e.value[k]
      /\ e.id \in Nat /\ e.value \in Seq(Nat) /\ Len(e.value) \in Nat
    BY <1>2, EntryCellsSeq DEF ENTRY_HEAD
<1>4. b[i + 1] = b[i] \o c
    BY <1>1 DEF Adds
<1> DEFINE x == b[i]
           y == b[i + 1]
           z == b[n]
<1>5. /\ x \in Seq(Nat) /\ y \in Seq(Nat) /\ z \in Seq(Nat)
      /\ Len(x) \in Nat /\ Len(y) \in Nat /\ Len(z) \in Nat
  <2>1. x \in Seq(Nat) /\ y \in Seq(Nat) /\ z \in Seq(Nat)
      BY <1>1
  <2> HIDE DEF x, y, z
  <2> QED BY <2>1
<1>6. Len(y) <= Len(z) /\ \A k \in 1..Len(y) : z[k] = y[k]
  <2>1. i + 1 \in 0..n
      BY <1>1
  <2>2. Grown(b, i + 1, n)
      BY <1>1, <2>1, AddsGrow, Zenon
  <2> QED BY <2>2 DEF Grown
<1> HIDE DEF c, x, y, z
<1>7. Len(y) = l + Len(c) /\ \A k \in 1..Len(c) : y[l + k] = c[k]
  <2>1. Len(x \o c) = Len(x) + Len(c) /\ \A k \in 1..Len(c) : (x \o c)[Len(x) + k] = c[k]
      BY <1>3, <1>5, JoinCells, Zenon
  <2>2. y = x \o c /\ l = Len(x)
      BY <1>4 DEF x, y, l
  <2> QED BY <2>1, <2>2
<1>8. /\ o = 4 + l /\ Len(input) = 4 + Len(z) /\ l = Len(x)
      /\ \A k \in 1..Len(z) : input[4 + k] = z[k]
    BY DEF Reached, Holds, HEAD, l, x, z, n
<1> HIDE DEF o, l, n, e
<1> DEFINE lc == Len(c)
           lw == Len(e.value)
           li == Len(input)
<1>9. /\ lc \in Nat /\ lw \in Nat /\ li \in Nat /\ l \in Nat /\ o \in Nat
      /\ lc = 3 + lw /\ o = 4 + l /\ o + lc <= li /\ Len(y) = l + lc
  <2> DEFINE ly == Len(y)
             lz == Len(z)
  <2>1. lw \in Nat /\ lc = 3 + lw
      BY <1>3
  <2>2. l \in Nat /\ ly \in Nat /\ lz \in Nat /\ ly <= lz
      BY <1>5, <1>6, <1>8
  <2>3. ly = l + lc /\ o = 4 + l /\ li = 4 + lz
      BY <1>7, <1>8
  <2> HIDE DEF lw, lc, li, ly, lz
  <2>4. /\ lc \in Nat /\ lw \in Nat /\ li \in Nat /\ l \in Nat /\ o \in Nat
        /\ lc = 3 + lw /\ o = 4 + l /\ o + lc <= li /\ ly = l + lc
      BY <2>1, <2>2, <2>3
  <2> QED BY <2>4 DEF ly
<1>10. ASSUME NEW k \in 1..Len(c) PROVE input[o + k] = c[k]
  <2>0. k \in 1..lc
      OBVIOUS
  <2>1. l + k \in 1..Len(y)
    <3> HIDE DEF lc
    <3> QED BY <2>0, <1>9
  <2>2. l + k \in 1..Len(z) /\ z[l + k] = y[l + k]
      BY <2>1, <1>5, <1>6
  <2>3. input[4 + (l + k)] = z[l + k]
      BY <2>2, <1>8
  <2>4. 4 + (l + k) = o + k
    <3> HIDE DEF lc
    <3> QED BY <2>0, <1>9
  <2> QED BY <2>2, <2>3, <2>4, <1>7
<1>11. input[o + 1] = e.id /\ input[o + 2] = 0 /\ input[o + 3] = Len(e.value)
  <2>0. lc >= 3 /\ lc \in Nat
    <3> HIDE DEF lc, lw
    <3> QED BY <1>9
  <2>1. 1 \in 1..lc /\ 2 \in 1..lc /\ 3 \in 1..lc
    <3> HIDE DEF lc
    <3> QED BY <2>0
  <2> QED BY <2>1, <1>3, <1>10
<1>12. IdError(kind, e.id, s.previous) = "OK"
  <2>1. s.previous = IF i = 0 THEN 0 ELSE es[i].id
      BY DEF Reached
  <2>2. IdError(kind, es[i + 1].id, IF i + 1 = 1 THEN 0 ELSE es[(i + 1) - 1].id) = "OK"
      BY <1>1 DEF Good, n
  <2>3. (IF i + 1 = 1 THEN 0 ELSE es[(i + 1) - 1].id) = s.previous
      BY <1>1, <2>1
  <2> QED BY <2>2, <2>3 DEF e
<1>13. Fits(input, input[3], s)
  <2>1. o + ENTRY_HEAD <= Len(input) /\ input[o + 3] <= Len(input) - o - ENTRY_HEAD
    <3>1. input[o + 3] = lw
        BY <1>11
    <3> HIDE DEF lc, lw, li
    <3>2. o + 3 <= li /\ input[o + 3] <= li - o - 3
        BY <3>1, <1>9
    <3> QED BY <3>2 DEF ENTRY_HEAD, li
  <2> QED BY <2>1, <1>11, <1>12 DEF Fits, Holds, o
<1>14. Turn(input, s) = Taken(input, s)
    BY <1>13, ParseEntryCases DEF Turn, Reached
<1>15. EntryAt(input, o) = e
  <2> DEFINE d == EntryAt(input, o)
             v == d.value
  <2>0. /\ d.id = input[o + 1] /\ d = [id |-> d.id, value |-> v]
        /\ v = SubSeq(input, o + 4, o + 3 + input[o + 3])
      BY DEF EntryAt
  <2> DEFINE m == o + 3
             q == m + Len(e.value)
  <2>1. m \in Nat /\ q \in Nat /\ m <= q /\ q <= Len(input) /\ q - m = Len(e.value) /\ m + 1 = o + 4
    <3>1. q = m + lw
        OBVIOUS
    <3> HIDE DEF lc, lw, li, q
    <3>2. m \in Nat /\ q \in Nat /\ m <= q /\ q <= li /\ q - m = lw /\ m + 1 = o + 4
        BY <3>1, <1>9
    <3> QED BY <3>2 DEF lw, li
  <2>2. v = SubSeq(input, m + 1, q)
      BY <2>0, <2>1, <1>11
  <2> HIDE DEF m, q, v, d
  <2>3. v \in Seq(Nat) /\ Len(v) = q - m /\ \A k \in 1..q - m : v[k] = input[m + k]
      BY <2>1, <2>2, PieceNumbers
  <2>4. ASSUME NEW k \in 1..Len(e.value) PROVE v[k] = e.value[k]
    <3>0. k \in 1..lw
        OBVIOUS
    <3>1. 3 + k \in 1..lc /\ o + (3 + k) = m + k
      <4> HIDE DEF lc, lw
      <4> QED BY <3>0, <1>9 DEF m
    <3>2. input[m + k] = c[3 + k]
        BY <3>1, <1>10
    <3> QED BY <3>2, <2>1, <2>3, <1>3
  <2>5. v = e.value
    <3> DEFINE w == e.value
    <3>1. w \in Seq(Nat) /\ Len(v) = Len(w) /\ \A k \in 1..Len(v) : v[k] = w[k]
        BY <1>3, <2>1, <2>3, <2>4
    <3> HIDE DEF w
    <3>2. v = w
        BY <3>1, <2>3, SameNumbers, Zenon
    <3> QED BY <3>2 DEF w
  <2>6. e = [id |-> e.id, value |-> e.value]
      BY <1>2 DEF Entry
  <2> QED BY <2>0, <2>5, <2>6, <1>11 DEF d
<1> DEFINE p == Taken(input, s)
<1>16. /\ p.err = "OK" /\ p.offset = o + ENTRY_HEAD + input[o + 3] /\ p.previous = input[o + 1]
       /\ p.entries = Append(s.entries, e)
    BY <1>15 DEF Taken, o
<1> HIDE DEF p
<1>17. p.offset = HEAD + Len(b[i + 1])
  <2> DEFINE ly == Len(y)
  <2>1. p.offset = o + 3 + lw /\ ly = l + lc
      BY <1>9, <1>11, <1>16 DEF ENTRY_HEAD
  <2> HIDE DEF lc, lw, ly
  <2>2. p.offset = 4 + ly
      BY <2>1, <1>9
  <2> QED BY <2>2 DEF HEAD, ly, y
<1>18. Len(p.entries) = i + 1 /\ \A j \in 1..i + 1 : p.entries[j] = es[j]
  <2> DEFINE f == s.entries
  <2>1. f \in Seq(Entry) /\ Len(f) = i /\ \A j \in 1..i : f[j] = es[j]
      BY DEF Reached, State
  <2> HIDE DEF f
  <2>2. p.entries = Append(f, e)
      BY <1>16 DEF f
  <2>3. /\ Len(Append(f, e)) = i + 1 /\ Append(f, e)[i + 1] = e
        /\ \A j \in 1..i : Append(f, e)[j] = f[j]
    <3>1. /\ Len(Append(f, e)) = Len(f) + 1 /\ Append(f, e)[Len(f) + 1] = e
          /\ \A j \in 1..Len(f) : Append(f, e)[j] = f[j]
        BY <2>1, <1>2, AppendCells, Zenon
    <3> QED BY <3>1, <2>1
  <2>4. ASSUME NEW j \in 1..i + 1 PROVE p.entries[j] = es[j]
    <3>1. CASE j = i + 1
        BY <3>1, <2>2, <2>3 DEF e
    <3>2. CASE j # i + 1
      <4>1. j \in 1..i
          BY <3>2, <1>1
      <4> QED BY <4>1, <2>1, <2>2, <2>3
    <3> QED BY <3>1, <3>2
  <2> QED BY <2>2, <2>3, <2>4
<1>19. p.previous = IF i + 1 = 0 THEN 0 ELSE es[i + 1].id
    BY <1>1, <1>11, <1>16 DEF e
<1>20. Reached(p, es, b, i + 1)
    BY <1>16, <1>17, <1>18, <1>19 DEF Reached
<1> QED BY <1>14, <1>20 DEF p

\* The cells of an encoded context.
CellsOf(input, kind, count, body) ==
    /\ input \in Seq(Nat) /\ Len(input) = HEAD + Len(body)
    /\ input[1] = MAGIC /\ input[2] = CONTEXT_VERSION /\ input[3] = kind /\ input[4] = count
    /\ \A k \in 1..Len(body) : input[HEAD + k] = body[k]
\* What auth_v3_context_encode returns has these cells.
LEMMA ContextCells ==
    ASSUME NEW kind \in Nat, NEW count \in Nat, NEW body \in Seq(Nat)
    PROVE  CellsOf(ContextHead(kind, count) \o body, kind, count, body)
<1> DEFINE h == ContextHead(kind, count)
<1>1. /\ h \in Seq(Nat) /\ Len(h) = HEAD
      /\ h[1] = MAGIC /\ h[2] = CONTEXT_VERSION /\ h[3] = kind /\ h[4] = count
    BY HeadSeq
<1> HIDE DEF h
<1>3. /\ h \o body \in Seq(Nat) /\ Len(h \o body) = Len(h) + Len(body)
      /\ \A k \in 1..Len(h) : (h \o body)[k] = h[k]
      /\ \A k \in 1..Len(body) : (h \o body)[Len(h) + k] = body[k]
    BY <1>1, JoinCells, Zenon
<1>4. 1 \in 1..Len(h) /\ 2 \in 1..Len(h) /\ 3 \in 1..Len(h) /\ 4 \in 1..Len(h)
    BY <1>1 DEF HEAD
<1>5. (h \o body)[1] = h[1] /\ (h \o body)[2] = h[2] /\ (h \o body)[3] = h[3] /\ (h \o body)[4] = h[4]
    BY <1>3, <1>4, Zenon
<1>6. \A k \in 1..Len(body) : (h \o body)[HEAD + k] = body[k]
    BY <1>1, <1>3, Zenon
<1>7. /\ h \o body \in Seq(Nat) /\ Len(h \o body) = HEAD + Len(body)
      /\ (h \o body)[1] = MAGIC /\ (h \o body)[2] = CONTEXT_VERSION
      /\ (h \o body)[3] = kind /\ (h \o body)[4] = count
      /\ \A k \in 1..Len(body) : (h \o body)[HEAD + k] = body[k]
    BY <1>1, <1>3, <1>5, <1>6, Zenon
<1>8. CellsOf(h \o body, kind, count, body)
    BY <1>7, Zenon DEF CellsOf
<1> QED BY <1>8 DEF h

\* What was encoded is parsed, whatever room there is beyond its entries.
LEMMA ParseComplete ==
    ASSUME NEW kind \in Kinds, NEW es \in Seq(Entry), Good(kind, es),
           NEW capacity \in Nat, Len(es) <= capacity,
           NEW input, input = ContextHead(kind, Len(es)) \o EncodedEntries(es)
    PROVE  /\ parse_impl(input, capacity) = [err |-> "OK", kind |-> kind, entries |-> es]
           /\ Len(es) <= Len(input)
<1> DEFINE n == Len(es)
           body == EncodedEntries(es)
<1>1. n \in Nat /\ kind \in Nat /\ body \in Seq(Nat) /\ n \in 0..n
    BY EncodedSeq DEF Kinds
<1> HIDE DEF n, body
<1>2. input = ContextHead(kind, n) \o body
    BY DEF n, body
<1>3. /\ input \in Seq(Nat) /\ Len(input) = HEAD + Len(body)
      /\ input[1] = MAGIC /\ input[2] = CONTEXT_VERSION /\ input[3] = kind /\ input[4] = n
      /\ \A k \in 1..Len(body) : input[HEAD + k] = body[k]
  <2>1. n \in Nat /\ kind \in Nat /\ body \in Seq(Nat)
      BY <1>1
  <2>2. CellsOf(ContextHead(kind, n) \o body, kind, n, body)
      BY <2>1, ContextCells
  <2>3. CellsOf(input, kind, n, body)
      BY <2>2, <1>2
  <2> QED BY <2>3, Zenon DEF CellsOf
<1>4. PICK b \in [0..n -> Seq(Nat)] : Adds(b, es) /\ body = b[n]
    BY EncodedSteps DEF n, body
<1>5. Holds(input, kind, es, b)
    BY <1>3, <1>4 DEF Holds, n
<1>6. Len(input) >= HEAD
  <2>1. Len(body) \in Nat
      BY <1>1
  <2> QED BY <2>1, <1>3 DEF HEAD
<1>7. PICK t \in [0..n -> State] :
         Turns(t, input, n) /\ parse_impl(input, capacity) = Verdict(input, capacity, t[n])
  <2>1. \E t \in [0..input[4] -> State] :
            /\ Turns(t, input, input[4])
            /\ parse_impl(input, capacity) = Verdict(input, capacity, t[input[4]])
      BY <1>3, <1>6, LoopSteps, Zenon
  <2> QED BY <2>1, <1>3
<1> DEFINE R == {i \in 0..n : Reached(t[i], es, b, i)}
<1>8. 0 \in R
  <2>1. t[0] = Start /\ Len(b[0]) = 0
      BY <1>7, <1>4 DEF Turns, Adds
  <2>2. /\ Start.err = "OK" /\ Start.offset = HEAD + 0 /\ Start.previous = 0 /\ Len(Start.entries) = 0
      BY DEF Start, HEAD
  <2>3. Reached(t[0], es, b, 0)
      BY <2>1, <2>2 DEF Reached
  <2> QED BY <2>3, <1>1
<1>9. ASSUME NEW i \in 0..n, i < n, i \in R PROVE i + 1 \in R
  <2>1. i + 1 \in 1..n /\ i + 1 \in 0..n /\ (i + 1) - 1 = i /\ t[i] \in State
      BY <1>1, <1>9
  <2>2. t[i + 1] = Turn(input, t[i])
      BY <2>1, <1>7 DEF Turns
  <2>3. Reached(t[i], es, b, i)
      BY <1>9
  <2>4. Reached(Turn(input, t[i]), es, b, i + 1)
    <3> USE DEF n
    <3> QED BY <2>1, <2>3, <1>3, <1>4, <1>5, <1>9, ReachedTurn, Zenon
  <2> QED BY <2>1, <2>2, <2>4
<1>10. n \in R
  <2> HIDE DEF R
  <2>1. \A i \in 0..n : i \in R
      BY <1>1, <1>8, <1>9, UpTo
  <2> QED BY <2>1, <1>1
<1> DEFINE s == t[n]
<1>11. s \in State /\ Reached(s, es, b, n)
    BY <1>1, <1>10
<1> HIDE DEF s, R
<1>12. s.err = "OK" /\ s.offset = Len(input)
    BY <1>3, <1>4, <1>11 DEF Reached
<1>13. s.entries = es
  <2> DEFINE f == s.entries
  <2>1. f \in Seq(Entry) /\ Len(f) = Len(es) /\ \A j \in 1..Len(f) : f[j] = es[j]
      BY <1>11 DEF Reached, State, n
  <2> HIDE DEF f
  <2>2. f = es
      BY <2>1, SameCells, Zenon
  <2> QED BY <2>2 DEF f
<1>14. ENTRY_HEAD * n <= Len(body) /\ Len(body) \in Nat
  <2>1. \A j \in 0..Len(es) : ENTRY_HEAD * j <= Len(b[j]) /\ \A i \in 0..j : Grown(b, i, j)
      BY <1>4, AddsGrow DEF n
  <2> QED BY <2>1, <1>1, <1>4 DEF n
<1>15. ~(n > (Len(input) - HEAD) \div ENTRY_HEAD) /\ n <= Len(input)
  <2> DEFINE l == Len(body)
             m == Len(input)
  <2>1. l \in Nat /\ 3 * n <= l /\ m = 4 + l
      BY <1>3, <1>14 DEF HEAD, ENTRY_HEAD
  <2> HIDE DEF l, m
  <2>2. ~(n > (m - 4) \div 3) /\ n <= m
      BY <2>1, <1>1
  <2> QED BY <2>2 DEF m, HEAD, ENTRY_HEAD
<1>16. ~(n > capacity)
    BY <1>1 DEF n
<1>17. Verdict(input, capacity, s) = [err |-> "OK", kind |-> kind, entries |-> es]
    BY <1>3, <1>12, <1>13, <1>15, <1>16 DEF Verdict
<1> QED BY <1>7, <1>15, <1>17 DEF s, n

-----------------------------------------------------------------------------
(* One form only.                                                          *)

\* A context that parses is the one encoding of what it parses to.
LEMMA ContextIsCanonical ==
    ASSUME NEW f \in Seq(Nat)
    PROVE  ContextCanonical(f)
<1> DEFINE p == auth_v3_context_parse_bytes(f, ENTRY_COUNT + 1)
<1>1. p = parse_impl(f, ENTRY_COUNT + 1) /\ ENTRY_COUNT + 1 \in Nat
    BY DEF auth_v3_context_parse_bytes, ENTRY_COUNT
<1> HIDE DEF p
<1>2. ASSUME p.err = "OK"
      PROVE  /\ auth_v3_context_encode(p.kind, p.entries, Len(f)) = [err |-> "OK", out |-> f]
             /\ auth_v3_context_encode(p.kind, p.entries, Len(f) - 1).err = "BUFFER_TOO_SMALL"
             /\ auth_v3_context_hash(p.kind, p.entries) = auth_v3_context_hash_bytes(f)
  <2> DEFINE es == p.entries
             kind == p.kind
  <2>1. /\ kind \in Kinds /\ es \in Seq(Entry) /\ Good(kind, es) /\ Len(es) <= Len(f)
        /\ f = ContextHead(kind, Len(es)) \o EncodedEntries(es)
      BY <1>1, <1>2, ParseSound
  <2> HIDE DEF es, kind
  <2>2. validate_entries(kind, es) = "OK"
      BY <2>1, ValidateOK
  <2>3. <<MAGIC, CONTEXT_VERSION, kind, Len(es)>> \o EncodedEntries(es) = f
      BY <2>1 DEF ContextHead
  <2>4. Len(f) \in Nat
      OBVIOUS
  <2>5. parse_impl(f, Len(f)).err = "OK"
    <3>1. parse_impl(f, Len(f)) = [err |-> "OK", kind |-> kind, entries |-> es]
        BY <2>1, <2>4, ParseComplete, Zenon
    <3> QED BY <3>1
  <2>6. auth_v3_context_encode(kind, es, Len(f)) = [err |-> "OK", out |-> f]
    <3>1. ~(Len(f) < Len(f))
        BY <2>4
    <3> QED BY <2>2, <2>3, <3>1 DEF auth_v3_context_encode
  <2>7. auth_v3_context_encode(kind, es, Len(f) - 1).err = "BUFFER_TOO_SMALL"
    <3>1. Len(f) - 1 < Len(f)
        BY <2>4
    <3> QED BY <2>2, <2>3, <3>1 DEF auth_v3_context_encode
  <2>8. auth_v3_context_hash(kind, es) = [err |-> "OK", hash |-> HashOf(f)]
      BY <2>2, <2>3 DEF auth_v3_context_hash
  <2>9. auth_v3_context_hash_bytes(f) = [err |-> "OK", hash |-> HashOf(f)]
      BY <2>5 DEF auth_v3_context_hash_bytes
  <2> QED BY <2>6, <2>7, <2>8, <2>9 DEF es, kind
<1>3. ASSUME NEW s \in Samples,
             auth_v3_context_encode(s.kind, s.entries, Len(f)) = [err |-> "OK", out |-> f]
      PROVE  p = [err |-> "OK", kind |-> s.kind, entries |-> s.entries]
  <2> DEFINE es == s.entries
             kind == s.kind
  <2>1. es \in Seq(Entry) /\ Len(es) <= ENTRY_COUNT + 1
      BY ContextAssumption DEF Entry
  <2> HIDE DEF es, kind
  <2>2. auth_v3_context_encode(kind, es, Len(f)) = [err |-> "OK", out |-> f]
      BY <1>3 DEF es, kind
  <2>3. validate_entries(kind, es) = "OK"
      BY <2>2 DEF auth_v3_context_encode
  <2>4. f = ContextHead(kind, Len(es)) \o EncodedEntries(es)
    <3> DEFINE x == ContextHead(kind, Len(es)) \o EncodedEntries(es)
    <3>1. auth_v3_context_encode(kind, es, Len(f))
            = IF Len(f) < Len(x) THEN [err |-> "BUFFER_TOO_SMALL"] ELSE [err |-> "OK", out |-> x]
        BY <2>3 DEF auth_v3_context_encode, ContextHead
    <3> HIDE DEF x
    <3>2. x = f
        BY <2>2, <3>1
    <3> QED BY <3>2 DEF x
  <2>5. kind \in Kinds /\ Good(kind, es)
      BY <2>1, <2>3, ValidateOK
  <2>6. parse_impl(f, ENTRY_COUNT + 1) = [err |-> "OK", kind |-> kind, entries |-> es]
      BY <1>1, <2>1, <2>4, <2>5, ParseComplete, Zenon
  <2> QED BY <1>1, <2>6 DEF es, kind
<1> QED BY <1>2, <1>3 DEF ContextCanonical, p

\* What the decoder of authorization contexts accepts.
LEMMA AuthzAccepted ==
    ASSUME NEW f \in Seq(Nat), auth_v3_iot_core_authz_decode_bytes(f).err = "OK"
    PROVE  LET context == auth_v3_iot_core_authz_decode_bytes(f).context
           IN  /\ auth_v3_iot_core_authz_validate(context) = "OK" /\ Len(f) = CANONICAL_LEN
               /\ build_entries(context) \in Seq(Entry) /\ Len(build_entries(context)) = ENTRY_COUNT
               /\ Good(1, build_entries(context))
               /\ f = ContextHead(1, ENTRY_COUNT) \o EncodedEntries(build_entries(context))
<1> DEFINE p == auth_v3_context_parse_bytes(f, ENTRY_COUNT)
           context == [i \in 1..ENTRY_COUNT |-> p.entries[i].value]
           e == auth_v3_iot_core_authz_validate(context)
           d == auth_v3_iot_core_authz_decode_bytes(f)
           odd == \E i \in 1..ENTRY_COUNT : p.entries[i].id # i \/ Len(p.entries[i].value) # AuthzWidths[i]
<1>1. d = IF Len(f) # CANONICAL_LEN THEN [err |-> "INVALID_ENCODING_LENGTH"]
          ELSE IF p.err = "ENTRY_BUFFER_TOO_SMALL" THEN [err |-> "ENTRY_LIMIT_EXCEEDED"]
          ELSE IF p.err # "OK" THEN [err |-> "INVALID_ENCODING"]
          ELSE IF p.kind # 1 THEN [err |-> "INVALID_CONTEXT_KIND"]
          ELSE IF Len(p.entries) # ENTRY_COUNT THEN [err |-> "INVALID_ENTRY_SCHEMA"]
          ELSE IF odd THEN [err |-> "INVALID_ENTRY_SCHEMA"]
          ELSE IF e # "OK" THEN [err |-> e] ELSE [err |-> "OK", context |-> context]
    BY DEF auth_v3_iot_core_authz_decode_bytes
<1>2. d.err = "OK"
    OBVIOUS
<1>3. /\ Len(f) = CANONICAL_LEN /\ p.err = "OK" /\ p.kind = 1 /\ Len(p.entries) = ENTRY_COUNT /\ ~odd
      /\ e = "OK" /\ d = [err |-> "OK", context |-> context]
  <2> HIDE DEF p, context, e, d, odd
  <2>1. Len(f) = CANONICAL_LEN
      BY <1>1, <1>2
  <2>2. p.err = "OK"
      BY <2>1, <1>1, <1>2
  <2>3. p.kind = 1
      BY <2>1, <2>2, <1>1, <1>2
  <2>4. Len(p.entries) = ENTRY_COUNT
      BY <2>1, <2>2, <2>3, <1>1, <1>2
  <2>5. ~odd
      BY <2>1, <2>2, <2>3, <2>4, <1>1, <1>2
  <2>6. e = "OK"
      BY <2>1, <2>2, <2>3, <2>4, <2>5, <1>1, <1>2
  <2>7. d = [err |-> "OK", context |-> context]
      BY <2>1, <2>2, <2>3, <2>4, <2>5, <2>6, <1>1, <1>2
  <2> QED BY <2>1, <2>2, <2>3, <2>4, <2>5, <2>6, <2>7
<1>4. p = parse_impl(f, ENTRY_COUNT) /\ ENTRY_COUNT \in Nat
    BY DEF auth_v3_context_parse_bytes, ENTRY_COUNT
<1> DEFINE es == p.entries
<1>5. /\ es \in Seq(Entry) /\ Good(1, es) /\ f = ContextHead(1, Len(es)) \o EncodedEntries(es)
  <2> HIDE DEF p
  <2>1. /\ p.kind \in Kinds /\ p.entries \in Seq(Entry) /\ Good(p.kind, p.entries)
        /\ f = ContextHead(p.kind, Len(p.entries)) \o EncodedEntries(p.entries)
      BY <1>3, <1>4, ParseSound
  <2> QED BY <2>1, <1>3
<1>6. Len(es) = ENTRY_COUNT /\ \A i \in 1..ENTRY_COUNT : es[i].id = i
    BY <1>3
<1>7. build_entries(context) = [i \in 1..ENTRY_COUNT |-> [id |-> i, value |-> es[i].value]]
    BY DEF build_entries
<1> HIDE DEF es, p
<1>8. build_entries(context) = es
  <2> DEFINE b == [i \in 1..ENTRY_COUNT |-> [id |-> i, value |-> es[i].value]]
  <2>1. es = [i \in 1..Len(es) |-> es[i]]
      BY <1>5
  <2>2. ASSUME NEW i \in 1..ENTRY_COUNT PROVE es[i] = [id |-> i, value |-> es[i].value]
    <3>1. es[i] \in Entry
        BY <1>5, <1>6
    <3>2. es[i] = [id |-> es[i].id, value |-> es[i].value]
        BY <3>1 DEF Entry
    <3> QED BY <3>2, <1>6
  <2>3. [i \in 1..ENTRY_COUNT |-> es[i]] = b
      BY <2>2
  <2>4. es = [i \in 1..ENTRY_COUNT |-> es[i]]
      BY <2>1, <1>6
  <2> QED BY <2>3, <2>4, <1>7
<1>9. d.context = context
  <2> HIDE DEF d, context
  <2> QED BY <1>3
<1> HIDE DEF d, context
<1>10. /\ auth_v3_iot_core_authz_validate(context) = "OK" /\ Len(f) = CANONICAL_LEN
       /\ build_entries(context) \in Seq(Entry) /\ Len(build_entries(context)) = ENTRY_COUNT
       /\ Good(1, build_entries(context))
       /\ f = ContextHead(1, ENTRY_COUNT) \o EncodedEntries(build_entries(context))
    BY <1>3, <1>5, <1>6, <1>8
<1> QED BY <1>9, <1>10 DEF d

\* Attribution finds the only record of the credential.
LEMMA AttributionUnique ==
    ASSUME NEW context,
           auth_v3_iot_core_attribution_resolve(Records, Credential, Peer, context).err = "OK",
           NEW i \in DOMAIN Records, Records[i].credential_reference = Credential
    PROVE  /\ Records[i] = auth_v3_iot_core_attribution_resolve(Records, Credential, Peer, context).record
           /\ Records[i].peer_identity = Peer /\ Records[i].context = context
<1> DEFINE hits == {j \in DOMAIN Records : Records[j].credential_reference = Credential}
           c == CHOOSE j \in hits : TRUE
           m == Records[c]
           r == auth_v3_iot_core_attribution_resolve(Records, Credential, Peer, context)
<1>1. r = IF Cardinality(hits) > 1 THEN [err |-> "AMBIGUOUS_REFERENCE"]
          ELSE IF hits = {} THEN [err |-> "MISSING_REFERENCE"]
          ELSE IF m.peer_identity # Peer THEN [err |-> "IDENTITY_MISMATCH"]
          ELSE IF m.context # context THEN [err |-> "AUTHORIZATION_MISMATCH"]
          ELSE [err |-> "OK", record |-> m]
    BY DEF auth_v3_iot_core_attribution_resolve
<1>2. i \in hits /\ c \in hits /\ r.err = "OK"
    OBVIOUS
<1>3. IsFiniteSet(hits)
  <2>1. hits \subseteq DOMAIN Records
      OBVIOUS
  <2> HIDE DEF hits
  <2> QED BY <2>1, ContextAssumption, FS_Subset
<1> HIDE DEF hits, c, m, r
<1>4. ~(Cardinality(hits) > 1) /\ r = [err |-> "OK", record |-> m] /\ m.peer_identity = Peer /\ m.context = context
  <2>1. ~(Cardinality(hits) > 1)
      BY <1>1, <1>2
  <2>2. hits # {}
      BY <1>2
  <2>3. m.peer_identity = Peer
      BY <2>1, <2>2, <1>1, <1>2
  <2>4. m.context = context
      BY <2>1, <2>2, <2>3, <1>1, <1>2
  <2> QED BY <2>1, <2>2, <2>3, <2>4, <1>1
<1>5. i = c
  <2>1. SUFFICES ASSUME i # c PROVE FALSE
      OBVIOUS
  <2>2. {i, c} \subseteq hits
      BY <1>2
  <2>3. Cardinality({i, c}) <= Cardinality(hits)
      BY <1>3, <2>2, FS_Subset
  <2>4. Cardinality({i, c}) = 2
    <3>1. Cardinality({c}) = 1 /\ IsFiniteSet({c})
        BY FS_Singleton
    <3>2. Cardinality({c} \cup {i}) = Cardinality({c}) + 1
        BY <2>1, <3>1, FS_AddElement
    <3>3. {c} \cup {i} = {i, c}
        OBVIOUS
    <3> QED BY <3>1, <3>2, <3>3
  <2>5. Cardinality(hits) \in Nat
      BY <1>3, FS_CardinalityType
  <2> QED BY <2>3, <2>4, <2>5, <1>4
<1> QED BY <1>4, <1>5 DEF m, r

\* An authorization context has one encoding and one record.
LEMMA AuthzIsCanonical ==
    ASSUME NEW f \in Seq(Nat)
    PROVE  AuthzCanonical(f)
<1> DEFINE d == auth_v3_iot_core_authz_decode_bytes(f)
           x == d.context
           r == auth_v3_iot_core_attribution_resolve(Records, Credential, Peer, x)
<1>1. SUFFICES ASSUME d.err = "OK"
               PROVE  /\ auth_v3_iot_core_authz_encode(x, Len(f)) = [err |-> "OK", out |-> f]
                      /\ auth_v3_iot_core_authz_hash(x) = auth_v3_iot_core_authz_hash_bytes(f)
                      /\ r.err = "OK" =>
                            \A i \in DOMAIN Records : Records[i].credential_reference = Credential =>
                                Records[i] = r.record /\ Records[i].peer_identity = Peer
                                /\ auth_v3_iot_core_authz_encode(Records[i].context, Len(f)).out = f
    BY DEF AuthzCanonical
<1> DEFINE es == build_entries(x)
<1>2. /\ auth_v3_iot_core_authz_validate(x) = "OK" /\ Len(f) = CANONICAL_LEN
      /\ es \in Seq(Entry) /\ Len(es) = ENTRY_COUNT /\ Good(1, es)
      /\ f = ContextHead(1, ENTRY_COUNT) \o EncodedEntries(es)
    BY <1>1, AuthzAccepted
<1>3. auth_v3_iot_core_authz_hash_bytes(f) = [err |-> "OK", hash |-> HashOf(f)]
    BY <1>1 DEF auth_v3_iot_core_authz_hash_bytes
<1> HIDE DEF x, es
<1>4. validate_entries(1, es) = "OK"
    BY <1>2, ValidateOK DEF Kinds
<1>5. <<MAGIC, CONTEXT_VERSION, 1, Len(es)>> \o EncodedEntries(es) = f
    BY <1>2 DEF ContextHead
<1>6. auth_v3_context_encode(1, es, Len(f)) = [err |-> "OK", out |-> f]
  <2>1. ~(Len(f) < Len(f))
      OBVIOUS
  <2> QED BY <1>4, <1>5, <2>1 DEF auth_v3_context_encode
<1>7. auth_v3_context_hash(1, es) = [err |-> "OK", hash |-> HashOf(f)]
    BY <1>4, <1>5 DEF auth_v3_context_hash
<1>8. auth_v3_iot_core_authz_encode(x, Len(f)) = [err |-> "OK", out |-> f]
  <2> DEFINE q == auth_v3_context_encode(1, build_entries(x), Len(f))
  <2>1. q = [err |-> "OK", out |-> f]
      BY <1>6 DEF es
  <2>2. auth_v3_iot_core_authz_encode(x, Len(f)) =
            IF q.err = "OK" /\ Len(q.out) # CANONICAL_LEN THEN [err |-> "INVALID_ARGUMENT"] ELSE q
      BY <1>2 DEF auth_v3_iot_core_authz_encode
  <2> HIDE DEF q
  <2> QED BY <1>2, <2>1, <2>2
<1>9. auth_v3_iot_core_authz_hash(x) = [err |-> "OK", hash |-> HashOf(f)]
    BY <1>2, <1>7 DEF auth_v3_iot_core_authz_hash, es
<1>10. ASSUME r.err = "OK", NEW i \in DOMAIN Records, Records[i].credential_reference = Credential
       PROVE  Records[i] = r.record /\ Records[i].peer_identity = Peer /\ Records[i].context = x
    BY <1>10, AttributionUnique
<1>11. [err |-> "OK", out |-> f].out = f
    OBVIOUS
<1> QED BY <1>3, <1>8, <1>9, <1>10, <1>11

-----------------------------------------------------------------------------
(* auth_negotiate.                                                         *)

\* What auth_hello_decode returns when it returns OK, up to the bits of caps.
Hello ==
    [err : {"OK", "MALFORMED_PACKET"}, version : Nat, min_version : Nat, suites : Seq(Nat), caps : Nat,
     mtu_hint : Seq(Nat), vendor_id : Seq(Nat), device_model : Seq(Nat)]
Greeting ==
    {h \in Hello : /\ Len(h.suites) <= MaxSuites /\ Len(h.mtu_hint) <= 1
                   /\ Len(h.vendor_id) <= MaxVendor /\ Len(h.device_model) <= MaxModel}

\* The two directions of a negotiation.
SameVerdict(a, b, x, y) ==
    /\ x.err = y.err
    /\ x.err = "OK" => /\ x.version = y.version /\ x.caps = y.caps
                       /\ x.version >= a.min_version /\ x.version >= b.min_version

\* Both peers come to the same verdict, version and capabilities, and the
\* version is none that either of them excludes.
LEMMA NegotiationAgrees ==
    ASSUME NEW a \in Greeting, NEW b \in Greeting
    PROVE  SameVerdict(a, b, auth_negotiate(a, b), auth_negotiate(b, a))
<1> DEFINE Common(p, q) == {i \in DOMAIN p.suites : \E j \in DOMAIN q.suites : p.suites[i] = q.suites[j]}
           Lower(p, q) == IF p.version < q.version THEN p.version ELSE q.version
           Floor(p, q) == IF p.min_version > q.min_version THEN p.min_version ELSE q.min_version
           Caps(p, q) == Bits(p.caps) \cap Bits(q.caps)
           First(p, q) == p.suites[Min(Common(p, q))]
           Result(p, q) ==
               IF Lower(p, q) < Floor(p, q) THEN [err |-> "UNSUPPORTED_VERSION"]
               ELSE IF Common(p, q) = {} THEN [err |-> "UNSUPPORTED_SUITE"]
               ELSE IF ~(BASELINE \subseteq Caps(p, q)) THEN [err |-> "CAP_MISMATCH"]
               ELSE [err |-> "OK", version |-> Lower(p, q), suite |-> First(p, q), caps |-> Caps(p, q)]
<1>1. auth_negotiate(a, b) = Result(a, b) /\ auth_negotiate(b, a) = Result(b, a)
    BY DEF auth_negotiate
<1>2. a.version \in Nat /\ b.version \in Nat /\ a.min_version \in Nat /\ b.min_version \in Nat
    BY DEF Greeting, Hello
<1>3. Lower(a, b) = Lower(b, a) /\ Floor(a, b) = Floor(b, a)
    BY <1>2
<1>4. ~(Lower(a, b) < Floor(a, b)) => Lower(a, b) >= a.min_version /\ Lower(a, b) >= b.min_version
    BY <1>2
<1>5. Common(a, b) = {} <=> Common(b, a) = {}
    OBVIOUS
<1>6. Caps(a, b) = Caps(b, a)
    OBVIOUS
<1> HIDE DEF Common, Lower, Floor, Caps, First
<1> QED BY <1>1, <1>3, <1>4, <1>5, <1>6 DEF SameVerdict

-----------------------------------------------------------------------------
(* auth_hello_decode.                                                      *)

Tlv == [err : {"OK"}, tag : Nat, value : Seq(Nat)]
Place == [at : Nat, h : Greeting]

\* Cells left behind o hold a TLV, or one that is cut off.
LEMMA TlvRead ==
    ASSUME NEW buf \in Seq(Nat), NEW o \in Nat, o < Len(buf)
    PROVE  \/ auth_tlv_read(buf, o) = [err |-> "MALFORMED_PACKET"]
           \/ auth_tlv_read(buf, o) \in Tlv
<1>1. CASE Len(buf) - o < 2 \/ buf[o + 2] > Len(buf) - o - 2
    BY <1>1 DEF auth_tlv_read
<1>2. CASE ~(Len(buf) - o < 2 \/ buf[o + 2] > Len(buf) - o - 2)
  <2> DEFINE l == Len(buf)
             n == buf[o + 2]
             v == SubSeq(buf, o + 3, o + 2 + n)
  <2>1. l \in Nat /\ o + 1 \in 1..l /\ o + 2 \in 1..l
      BY <1>2
  <2>2. n \in Nat /\ buf[o + 1] \in Nat
      BY <2>1
  <2>6. ~(l - o < 2) /\ ~(n > l - o - 2)
      BY <1>2
  <2> HIDE DEF n, l
  <2>3. (o + 2) + 1 = o + 3 /\ o + 2 <= o + 2 + n /\ o + 2 + n <= l /\ o + 2 \in Nat /\ o + 2 + n \in Nat
      BY <2>6, <2>1, <2>2
  <2>4. v \in Seq(Nat)
    <3> DEFINE a == o + 2
               b == o + 2 + n
    <3>1. a \in Nat /\ b \in Nat /\ a <= b /\ b <= Len(buf) /\ v = SubSeq(buf, a + 1, b)
        BY <2>3 DEF l
    <3> HIDE DEF a, b, v
    <3> QED BY <3>1, PieceNumbers
  <2>5. auth_tlv_read(buf, o) = [err |-> "OK", tag |-> buf[o + 1], value |-> v]
      BY <1>2 DEF auth_tlv_read, n
  <2> QED BY <2>2, <2>4, <2>5 DEF Tlv
<1> QED BY <1>1, <1>2

\* Taking a TLV keeps to the sizes of auth_hello_t's arrays.
LEMMA TakeKeeps ==
    ASSUME NEW h \in Greeting, NEW t, t.tag \in Nat, t.value \in Seq(Nat)
    PROVE  TakeTlv(h, t) \in Greeting
<1>1. h \in Hello /\ t.value \in Seq(Nat) /\ Len(t.value) \in Nat
    BY DEF Greeting, Tlv
<1>2. Len(t.value) = 1 => t.value[1] \in Nat
    BY <1>1
<1>3. \/ TakeTlv(h, t) = [h EXCEPT !.err = "MALFORMED_PACKET"]
      \/ Len(t.value) = 1 /\ TakeTlv(h, t) = [h EXCEPT !.min_version = t.value[1]]
      \/ Len(t.value) = 1 /\ TakeTlv(h, t) = [h EXCEPT !.mtu_hint = t.value]
      \/ Len(t.value) <= MaxVendor /\ TakeTlv(h, t) = [h EXCEPT !.vendor_id = t.value]
      \/ Len(t.value) <= MaxModel /\ TakeTlv(h, t) = [h EXCEPT !.device_model = t.value]
      \/ TakeTlv(h, t) = h
    BY DEF TakeTlv, TLV_MIN_VERSION, TLV_MTU_HINT, TLV_VENDOR_ID, TLV_DEVICE_MODEL
<1>4. CASE TakeTlv(h, t) = [h EXCEPT !.err = "MALFORMED_PACKET"]
    BY <1>1, <1>4 DEF Greeting, Hello
<1>5. CASE Len(t.value) = 1 /\ TakeTlv(h, t) = [h EXCEPT !.min_version = t.value[1]]
  <2>1. ASSUME NEW x \in Nat PROVE [h EXCEPT !.min_version = x] \in Greeting
      BY <1>1 DEF Greeting, Hello
  <2> QED BY <2>1, <1>2, <1>5
<1>6. CASE Len(t.value) = 1 /\ TakeTlv(h, t) = [h EXCEPT !.mtu_hint = t.value]
  <2>1. ASSUME NEW x \in Seq(Nat), Len(x) <= 1 PROVE [h EXCEPT !.mtu_hint = x] \in Greeting
      BY <1>1, <2>1 DEF Greeting, Hello
  <2>2. Len(t.value) <= 1
      BY <1>6
  <2> QED BY <2>1, <2>2, <1>1, <1>6
<1>7. CASE Len(t.value) <= MaxVendor /\ TakeTlv(h, t) = [h EXCEPT !.vendor_id = t.value]
  <2>1. ASSUME NEW x \in Seq(Nat), Len(x) <= MaxVendor PROVE [h EXCEPT !.vendor_id = x] \in Greeting
      BY <1>1, <2>1 DEF Greeting, Hello
  <2> QED BY <2>1, <1>1, <1>7
<1>8. CASE Len(t.value) <= MaxModel /\ TakeTlv(h, t) = [h EXCEPT !.device_model = t.value]
  <2>1. ASSUME NEW x \in Seq(Nat), Len(x) <= MaxModel PROVE [h EXCEPT !.device_model = x] \in Greeting
      BY <1>1, <2>1 DEF Greeting, Hello
  <2> QED BY <2>1, <1>1, <1>8
<1>9. CASE TakeTlv(h, t) = h
    BY <1>9
<1> QED BY <1>3, <1>4, <1>5, <1>6, <1>7, <1>8, <1>9

\* One turn of the loop of auth_hello_decode, and all of them.
Visit(buf, s) ==
    LET t == auth_tlv_read(buf, s.at)
    IN  IF s.h.err # "OK" \/ s.at >= Len(buf) THEN s
        ELSE IF t.err # "OK" THEN [s EXCEPT !.h.err = t.err]
        ELSE [at |-> s.at + 2 + Len(t.value), h |-> TakeTlv(s.h, t)]
Fixed(buf) ==
    [err |-> "OK", version |-> buf[1], min_version |-> buf[1],
     suites |-> SubSeq(buf, 3, buf[2] + 2), caps |-> buf[buf[2] + 3],
     mtu_hint |-> <<>>, vendor_id |-> <<>>, device_model |-> <<>>]
Visits(w, buf) ==
    /\ w[0] = [at |-> buf[2] + 3, h |-> Fixed(buf)]
    /\ \A i \in 1..Len(buf) : w[i] = Visit(buf, w[i - 1])

\* A turn leads to a place.
LEMMA VisitPlace ==
    ASSUME NEW buf \in Seq(Nat), NEW s \in Place
    PROVE  Visit(buf, s) \in Place
<1> DEFINE t == auth_tlv_read(buf, s.at)
<1>1. s.at \in Nat /\ s.h \in Greeting /\ s.h \in Hello /\ Len(buf) \in Nat
    BY DEF Place, Greeting
<1>2. CASE s.h.err # "OK" \/ s.at >= Len(buf)
    BY <1>2 DEF Visit
<1>3. CASE s.h.err = "OK" /\ ~(s.at >= Len(buf))
  <2>1. t = [err |-> "MALFORMED_PACKET"] \/ t \in Tlv
      BY <1>1, <1>3, TlvRead
  <2>2. Visit(buf, s) = IF t.err # "OK" THEN [s EXCEPT !.h.err = t.err]
                        ELSE [at |-> s.at + 2 + Len(t.value), h |-> TakeTlv(s.h, t)]
      BY <1>3 DEF Visit
  <2> HIDE DEF t
  <2>3. CASE t = [err |-> "MALFORMED_PACKET"]
    <3>1. t.err # "OK" /\ t.err = "MALFORMED_PACKET"
        BY <2>3
    <3>2. Visit(buf, s) = [s EXCEPT !.h.err = "MALFORMED_PACKET"]
        BY <2>2, <3>1
    <3>3. [s.h EXCEPT !.err = "MALFORMED_PACKET"] \in Greeting
        BY <1>1 DEF Greeting, Hello
    <3>4. [s EXCEPT !.h.err = "MALFORMED_PACKET"] = [s EXCEPT !.h = [s.h EXCEPT !.err = "MALFORMED_PACKET"]]
        BY DEF Place
    <3> QED BY <3>2, <3>3, <3>4 DEF Place
  <2>4. CASE t \in Tlv
    <3>1. t.err = "OK" /\ t.tag \in Nat /\ t.value \in Seq(Nat)
        BY <2>4 DEF Tlv
    <3>2. TakeTlv(s.h, t) \in Greeting
        BY <1>1, <3>1, TakeKeeps
    <3>3. s.at + 2 + Len(t.value) \in Nat
        BY <1>1, <3>1
    <3>4. Visit(buf, s) = [at |-> s.at + 2 + Len(t.value), h |-> TakeTlv(s.h, t)]
        BY <2>2, <3>1
    <3> QED BY <3>2, <3>3, <3>4 DEF Place
  <2> QED BY <2>1, <2>3, <2>4
<1> QED BY <1>2, <1>3

\* The fixed part is there.
Whole(buf) == Len(buf) >= 2 /\ buf[2] <= MaxSuites /\ Len(buf) - 2 >= buf[2] + 1

\* The fixed part of a HELLO.
LEMMA FixedPlace ==
    ASSUME NEW buf \in Seq(Nat), Whole(buf)
    PROVE  [at |-> buf[2] + 3, h |-> Fixed(buf)] \in Place
<1> DEFINE n == buf[2]
           l == Len(buf)
<1>1. l \in Nat /\ l >= 2 /\ n <= MaxSuites /\ l - 2 >= n + 1
    BY DEF Whole
<1>2. 1 \in 1..l /\ 2 \in 1..l
    BY <1>1
<1>3. buf[1] \in Nat /\ n \in Nat
    BY <1>2
<1> HIDE DEF n
<1>4. n + 3 \in 1..l /\ 2 \in Nat /\ n + 2 \in Nat /\ 2 <= n + 2 /\ n + 2 <= l /\ 2 + 1 = 3 /\ n + 3 \in Nat
    BY <1>1, <1>3
<1>5. buf[n + 3] \in Nat
    BY <1>4
<1>6. SubSeq(buf, 3, n + 2) \in Seq(Nat) /\ Len(SubSeq(buf, 3, n + 2)) = n
  <2> DEFINE e == n + 2
             b == 2
             v == SubSeq(buf, b + 1, e)
  <2>1. b \in Nat /\ e \in Nat /\ b <= e /\ e <= Len(buf) /\ e - b = n
      BY <1>3, <1>4
  <2>2. SubSeq(buf, 3, n + 2) = v
      BY <1>4
  <2>3. v = SubSeq(buf, b + 1, e)
      OBVIOUS
  <2> HIDE DEF b, e, v
  <2>4. v \in Seq(Nat) /\ Len(v) = e - b
      BY <2>1, <2>3, PieceNumbers
  <2> QED BY <2>1, <2>2, <2>4
<1> DEFINE v == SubSeq(buf, 3, n + 2)
           e == <<>>
<1>7. Fixed(buf) = [err |-> "OK", version |-> buf[1], min_version |-> buf[1], suites |-> v,
                    caps |-> buf[n + 3], mtu_hint |-> e, vendor_id |-> e, device_model |-> e]
    BY DEF Fixed, n
<1>8. v \in Seq(Nat) /\ Len(v) <= MaxSuites
    BY <1>1, <1>6
<1>9. e \in Seq(Nat) /\ Len(e) = 0
    OBVIOUS
<1> HIDE DEF v, e, l
<1>10. Fixed(buf) \in Hello
    BY <1>3, <1>5, <1>7, <1>8, <1>9 DEF Hello
<1>11. Fixed(buf).suites = v /\ Fixed(buf).mtu_hint = e /\ Fixed(buf).vendor_id = e /\ Fixed(buf).device_model = e
    BY <1>7
<1>12. Fixed(buf) \in Greeting
    BY <1>8, <1>9, <1>10, <1>11 DEF Greeting, MaxVendor, MaxModel
<1> QED BY <1>4, <1>12 DEF Place, n

\* The places of the loop of auth_hello_decode; its last has the result.
LEMMA HelloSteps ==
    ASSUME NEW buf \in Seq(Nat), Whole(buf)
    PROVE  \E w \in [0..Len(buf) -> Place] :
               Visits(w, buf) /\ auth_hello_decode(buf) = w[Len(buf)].h
<1> DEFINE n == Len(buf)
           first == [at |-> buf[2] + 3, h |-> Fixed(buf)]
           step == [i \in 1..n |-> [s \in Place |-> Visit(buf, s)]]
           start == [err |-> "OK", version |-> buf[1], min_version |-> buf[1],
                     suites |-> SubSeq(buf, 3, buf[2] + 2), caps |-> buf[buf[2] + 3],
                     mtu_hint |-> <<>>, vendor_id |-> <<>>, device_model |-> <<>>]
           Body(g) == [i \in 0..n |->
                          IF i = 0 THEN [at |-> buf[2] + 3, h |-> start]
                          ELSE LET s == g[i - 1]
                                   t == auth_tlv_read(buf, s.at)
                               IN  IF s.h.err # "OK" \/ s.at >= n THEN s
                                   ELSE IF t.err # "OK" THEN [s EXCEPT !.h.err = t.err]
                                   ELSE [at |-> s.at + 2 + Len(t.value), h |-> TakeTlv(s.h, t)]]
           w == CHOOSE g : g = Body(g)
<1>1. n \in Nat /\ first \in Place
    BY FixedPlace
<1>2. auth_hello_decode(buf) = w[n].h
  <2>1. ~(Len(buf) < 2) /\ ~(buf[2] > MaxSuites) /\ ~(Len(buf) - 2 < buf[2] + 1)
    <3> DEFINE l == Len(buf)
               m == buf[2]
    <3>1. l \in Nat /\ l >= 2 /\ m <= MaxSuites /\ l - 2 >= m + 1
        BY DEF Whole
    <3>2. 2 \in 1..l
        BY <3>1
    <3>3. m \in Nat
        BY <3>2
    <3> HIDE DEF l, m
    <3>4. ~(l < 2) /\ ~(m > MaxSuites) /\ ~(l - 2 < m + 1)
        BY <3>1, <3>3 DEF MaxSuites
    <3> QED BY <3>4 DEF l, m
  <2> QED BY <2>1 DEF auth_hello_decode
<1>3. \A g : Body(g) = [i \in 0..n |-> IF i = 0 THEN first ELSE Visit(buf, g[i - 1])]
    BY DEF Visit, Fixed
<1> HIDE DEF n, Body, first
<1>4. step \in [1..n -> [Place -> Place]]
    BY VisitPlace
<1>5. PICK f \in [0..n -> Place] : Recurs(f, n, first, step)
  <2> HIDE DEF step
  <2> QED BY <1>1, <1>4, Recursion
<1>6. \A i \in 0..n : f[i] = IF i = 0 THEN first ELSE Visit(buf, f[i - 1])
  <2>1. ASSUME NEW i \in 0..n, i # 0 PROVE f[i] = Visit(buf, f[i - 1])
    <3>1. i \in 1..n /\ i - 1 \in 0..n /\ f[i - 1] \in Place
        BY <1>1, <2>1
    <3> QED BY <3>1, <1>5 DEF Recurs
  <2> QED BY <2>1, <1>5 DEF Recurs
<1>7. f = Body(f)
    BY <1>3, <1>6
<1>8. w = Body(w)
    BY <1>7
<1> HIDE DEF w
<1>9. w = [i \in 0..n |-> IF i = 0 THEN first ELSE Visit(buf, w[i - 1])]
    BY <1>3, <1>8, Zenon
<1>10. \A i \in 0..n : w[i] = IF i = 0 THEN first ELSE Visit(buf, w[i - 1])
    BY <1>9
<1> DEFINE R == {i \in 0..n : w[i] \in Place}
<1>11. 0 \in R
  <2>1. 0 \in 0..n
      BY <1>1
  <2>2. w[0] = first
      BY <2>1, <1>10, Zenon
  <2> QED BY <2>1, <2>2, <1>1
<1>12. ASSUME NEW i \in 0..n, i < n, i \in R PROVE i + 1 \in R
  <2>1. i + 1 \in 0..n /\ i + 1 # 0 /\ (i + 1) - 1 = i
      BY <1>1, <1>12
  <2>2. w[i + 1] = Visit(buf, w[i])
      BY <2>1, <1>10
  <2> QED BY <2>1, <2>2, <1>12, VisitPlace
<1>13. \A i \in 0..n : i \in R
  <2> HIDE DEF R
  <2> QED BY <1>1, <1>11, <1>12, UpTo
<1>14. w \in [0..n -> Place]
    BY <1>9, <1>13
<1>15. Visits(w, buf)
  <2>1. w[0] = first
    <3>1. 0 \in 0..n
        BY <1>1
    <3> QED BY <3>1, <1>10, Zenon
  <2>2. ASSUME NEW i \in 1..n PROVE w[i] = Visit(buf, w[i - 1])
    <3>1. i \in 0..n /\ i # 0
        BY <1>1
    <3> QED BY <3>1, <1>10
  <2> QED BY <2>1, <2>2 DEF Visits, first, n
<1> QED BY <1>2, <1>14, <1>15 DEF n

\* What auth_hello_decode accepts fits auth_hello_t.
LEMMA HelloAccepted ==
    ASSUME NEW buf \in Seq(Nat), auth_hello_decode(buf).err = "OK"
    PROVE  auth_hello_decode(buf) \in Greeting
<1> DEFINE l == Len(buf)
           n == buf[2]
<1>1. ~(l < 2) /\ ~(n > MaxSuites) /\ ~(l - 2 < n + 1)
    BY DEF auth_hello_decode
<1>2. l \in Nat
    OBVIOUS
<1>3. l >= 2 /\ 2 \in 1..l
    BY <1>1, <1>2
<1>4. n \in Nat
    BY <1>3
<1> HIDE DEF l, n
<1>5. l >= 2 /\ n <= MaxSuites /\ l - 2 >= n + 1
    BY <1>1, <1>2, <1>4 DEF MaxSuites
<1>6. Whole(buf)
    BY <1>5 DEF Whole, l, n
<1>7. PICK w \in [0..Len(buf) -> Place] : auth_hello_decode(buf) = w[Len(buf)].h
    BY <1>6, HelloSteps
<1>8. w[Len(buf)] \in Place
    BY <1>2 DEF l
<1> QED BY <1>7, <1>8 DEF Place

-----------------------------------------------------------------------------
(* auth_hello_encode.                                                      *)

\* c begins with the cells of b.
Carries(c, b) == Len(b) <= Len(c) /\ \A k \in 1..Len(b) : c[k] = b[k]

\* c is b and one TLV.
Written(c, b, tag, v) ==
    /\ Len(c) = Len(b) + 2 + Len(v) /\ Carries(c, b)
    /\ c[Len(b) + 1] = tag /\ c[Len(b) + 2] = Len(v)
    /\ \A k \in 1..Len(v) : c[Len(b) + 2 + k] = v[k]

\* auth_tlv_write adds the tag, the length and the value.
LEMMA TlvWritten ==
    ASSUME NEW b \in Seq(Nat), NEW tag \in Nat, NEW v \in Seq(Nat)
    PROVE  /\ auth_tlv_write(b, tag, v) \in Seq(Nat)
           /\ Written(auth_tlv_write(b, tag, v), b, tag, v)
<1> DEFINE h == <<tag, Len(v)>>
           p == b \o h
           c == p \o v
           lb == Len(b)
           lv == Len(v)
<1>1. h \in Seq(Nat) /\ Len(h) = 2 /\ h[1] = tag /\ h[2] = Len(v)
    OBVIOUS
<1>2. auth_tlv_write(b, tag, v) = c
    BY DEF auth_tlv_write
<1>3. lb \in Nat /\ lv \in Nat
    OBVIOUS
<1> HIDE DEF h
<1>4. /\ p \in Seq(Nat) /\ Len(p) = Len(b) + Len(h)
      /\ \A k \in 1..Len(b) : p[k] = b[k]
      /\ \A k \in 1..Len(h) : p[Len(b) + k] = h[k]
    BY <1>1, JoinCells, Zenon
<1> HIDE DEF p
<1>5. /\ c \in Seq(Nat) /\ Len(c) = Len(p) + Len(v)
      /\ \A k \in 1..Len(p) : c[k] = p[k]
      /\ \A k \in 1..Len(v) : c[Len(p) + k] = v[k]
    BY <1>4, JoinCells, Zenon
<1> HIDE DEF c, lb, lv
<1>6. Len(p) = lb + 2 /\ Len(c) = lb + 2 + lv
    BY <1>1, <1>3, <1>4, <1>5 DEF lb, lv
<1>7. p[lb + 1] = tag /\ p[lb + 2] = lv
    BY <1>1, <1>4 DEF lb, lv
<1>8. lb + 1 \in 1..Len(p) /\ lb + 2 \in 1..Len(p) /\ 1..lb \subseteq 1..Len(p) /\ lb <= Len(c)
    BY <1>3, <1>6
<1>9. c[lb + 1] = tag /\ c[lb + 2] = lv
    BY <1>5, <1>7, <1>8
<1>10. \A k \in 1..lb : c[k] = b[k]
    BY <1>4, <1>5, <1>8 DEF lb
<1>11. \A k \in 1..lv : c[lb + 2 + k] = v[k]
    BY <1>5, <1>6 DEF lv
<1> QED BY <1>2, <1>5, <1>6, <1>8, <1>9, <1>10, <1>11 DEF Written, Carries, lb, lv

\* A turn over a TLV that was written takes it.
LEMMA VisitWritten ==
    ASSUME NEW b \in Seq(Nat), NEW c \in Seq(Nat), NEW tag \in Nat, NEW v \in Seq(Nat),
           Written(c, b, tag, v), NEW enc \in Seq(Nat), Carries(enc, c),
           NEW h \in Greeting, h.err = "OK"
    PROVE  Visit(enc, [at |-> Len(b), h |-> h])
               = [at |-> Len(c), h |-> TakeTlv(h, [err |-> "OK", tag |-> tag, value |-> v])]
<1> DEFINE lb == Len(b)
           lc == Len(c)
           le == Len(enc)
           lv == Len(v)
           o == lb + 2
           u == SubSeq(enc, lb + 3, lb + 2 + enc[lb + 2])
<1>1. lb \in Nat /\ lc \in Nat /\ le \in Nat /\ lv \in Nat
    OBVIOUS
<1>2. /\ lc = lb + 2 + lv /\ c[lb + 1] = tag /\ c[lb + 2] = lv
      /\ \A k \in 1..lv : c[lb + 2 + k] = v[k]
    BY DEF Written
<1>3. lc <= le /\ \A k \in 1..lc : enc[k] = c[k]
    BY DEF Carries
<1> HIDE DEF lb, lc, le, lv
<1>4. lb + 1 \in 1..lc /\ lb + 2 \in 1..lc /\ \A k \in 1..lv : lb + 2 + k \in 1..lc
    BY <1>1, <1>2
<1>5. enc[lb + 1] = tag /\ enc[lb + 2] = lv /\ \A k \in 1..lv : enc[lb + 2 + k] = v[k]
    BY <1>2, <1>3, <1>4
<1>6. ~(le - lb < 2 \/ lv > le - lb - 2) /\ ~(lb >= le)
    BY <1>1, <1>2, <1>3
<1>7. u = v
  <2> DEFINE e == lb + 2 + lv
             x == SubSeq(enc, o + 1, e)
  <2>1. o \in Nat /\ e \in Nat /\ o <= e /\ e <= le /\ e - o = lv /\ o + 1 = lb + 3
      BY <1>1, <1>2, <1>3
  <2>2. u = SubSeq(enc, o + 1, e)
      BY <1>5, <2>1
  <2>3. \A k \in 1..lv : enc[o + k] = v[k]
      BY <1>5
  <2> HIDE DEF o, e, u
  <2>4. x \in Seq(Nat) /\ Len(x) = e - o /\ \A k \in 1..e - o : x[k] = enc[o + k]
      BY <2>1, PieceNumbers DEF le
  <2> HIDE DEF x
  <2>5. x = v
    <3>1. Len(x) = Len(v)
        BY <2>1, <2>4 DEF lv
    <3>2. \A k \in 1..Len(x) : x[k] = v[k]
        BY <2>1, <2>3, <2>4
    <3> QED BY <3>1, <3>2, <2>4, SameNumbers
  <2> QED BY <2>2, <2>5 DEF x
<1>8. auth_tlv_read(enc, lb) = [err |-> "OK", tag |-> tag, value |-> v]
  <2>1. ~(Len(enc) - lb < 2 \/ enc[lb + 2] > Len(enc) - lb - 2)
      BY <1>5, <1>6 DEF le
  <2>2. auth_tlv_read(enc, lb) = [err |-> "OK", tag |-> enc[lb + 1], value |-> u]
      BY <2>1 DEF auth_tlv_read
  <2> QED BY <2>2, <1>5, <1>7
<1> HIDE DEF u, o
<1> DEFINE s == [at |-> lb, h |-> h]
           t == [err |-> "OK", tag |-> tag, value |-> v]
<1>9. s.at = lb /\ s.h = h /\ t.err = "OK" /\ t.value = v
    OBVIOUS
<1>10. auth_tlv_read(enc, s.at) = t
    BY <1>8
<1> HIDE DEF s, t
<1>11. Visit(enc, s) = [at |-> s.at + 2 + Len(t.value), h |-> TakeTlv(s.h, t)]
  <2>1. ~(s.h.err # "OK" \/ s.at >= Len(enc))
      BY <1>6, <1>9 DEF le
  <2> QED BY <2>1, <1>9, <1>10 DEF Visit
<1>12. Visit(enc, s) = [at |-> lc, h |-> TakeTlv(h, t)]
    BY <1>2, <1>9, <1>11 DEF lv
<1> QED BY <1>12 DEF s, t, lb, lc

\* The loop reaches the end of b, with h.
Arrives(w, b, h) == \E j \in 0..Len(b) : w[j] = [at |-> Len(b), h |-> h]
WithOption(b, tag, v) == IF v = <<>> THEN b ELSE auth_tlv_write(b, tag, v)
Taking(h, tag, v) == IF v = <<>> THEN h ELSE TakeTlv(h, [err |-> "OK", tag |-> tag, value |-> v])

\* Whatever an option adds comes behind what was there.
LEMMA OptionWritten ==
    ASSUME NEW b \in Seq(Nat), NEW tag \in Nat, NEW v \in Seq(Nat)
    PROVE  WithOption(b, tag, v) \in Seq(Nat) /\ Carries(WithOption(b, tag, v), b)
<1>1. CASE v = <<>>
    BY <1>1 DEF WithOption, Carries
<1>2. CASE v # <<>>
    BY <1>2, TlvWritten DEF WithOption, Written
<1> QED BY <1>1, <1>2

\* From the end of b to the end of an option written behind it.
LEMMA OptionTaken ==
    ASSUME NEW b \in Seq(Nat), NEW tag \in Nat, NEW v \in Seq(Nat), NEW enc \in Seq(Nat),
           Carries(enc, WithOption(b, tag, v)), NEW w, Visits(w, enc),
           NEW h \in Greeting, h.err = "OK", Arrives(w, b, h)
    PROVE  Arrives(w, WithOption(b, tag, v), Taking(h, tag, v))
<1>1. CASE v = <<>>
    BY <1>1 DEF WithOption, Taking
<1>2. CASE v # <<>>
  <2> DEFINE c == auth_tlv_write(b, tag, v)
             g == TakeTlv(h, [err |-> "OK", tag |-> tag, value |-> v])
  <2>1. c \in Seq(Nat) /\ Written(c, b, tag, v)
      BY TlvWritten
  <2>2. c = WithOption(b, tag, v) /\ g = Taking(h, tag, v)
      BY <1>2 DEF WithOption, Taking
  <2>3. PICK j \in 0..Len(b) : w[j] = [at |-> Len(b), h |-> h]
      BY DEF Arrives
  <2> HIDE DEF c
  <2>4. Carries(enc, c)
      BY <2>2
  <2>5. Visit(enc, [at |-> Len(b), h |-> h]) = [at |-> Len(c), h |-> g]
      BY <2>1, <2>4, VisitWritten
  <2> DEFINE lb == Len(b)
             lc == Len(c)
             le == Len(enc)
             lv == Len(v)
  <2>6. lb \in Nat /\ lc \in Nat /\ le \in Nat /\ lv \in Nat /\ lc = lb + 2 + lv /\ lc <= le
    <3>1. lb \in Nat /\ lc \in Nat /\ le \in Nat /\ lv \in Nat
        BY <2>1
    <3>2. lc = lb + 2 + lv
        BY <2>1 DEF Written
    <3>3. lc <= le
        BY <2>4 DEF Carries
    <3> QED BY <3>1, <3>2, <3>3
  <2> HIDE DEF lb, lc, le, lv, g
  <2>7. j + 1 \in 0..lc /\ j + 1 \in 1..le /\ (j + 1) - 1 = j
    <3>1. j \in 0..lb
        BY DEF lb
    <3> QED BY <2>6, <3>1
  <2>8. w[j + 1] = Visit(enc, w[j])
    <3>1. \A i \in 1..le : w[i] = Visit(enc, w[i - 1])
        BY DEF Visits, le
    <3>2. w[j + 1] = Visit(enc, w[(j + 1) - 1])
        BY <2>7, <3>1, Zenon
    <3> QED BY <2>7, <3>2
  <2>9. w[j + 1] = [at |-> Len(c), h |-> g]
      BY <2>3, <2>5, <2>8
  <2>10. Arrives(w, c, g)
      BY <2>7, <2>9 DEF Arrives, lc
  <2> QED BY <2>2, <2>10
<1> QED BY <1>1, <1>2

\* At the end of the buffer the loop stays where it is.
LEMMA StaysAtEnd ==
    ASSUME NEW enc \in Seq(Nat), NEW w, Visits(w, enc), NEW h, Arrives(w, enc, h)
    PROVE  w[Len(enc)] = [at |-> Len(enc), h |-> h]
<1> DEFINE n == Len(enc)
           s == [at |-> n, h |-> h]
<1>1. n \in Nat
    OBVIOUS
<1>2. PICK j \in 0..n : w[j] = s
    BY DEF Arrives
<1>3. s.at >= Len(enc)
    BY <1>1
<1> HIDE DEF s
<1>4. Visit(enc, s) = s
    BY <1>3 DEF Visit
<1>5. \A i \in 1..n : w[i] = Visit(enc, w[i - 1])
    BY DEF Visits
<1> HIDE DEF n
<1> DEFINE R == {i \in 0..n : i < j \/ w[i] = s}
<1>6. 0 \in R
    BY <1>1, <1>2
<1>7. ASSUME NEW i \in 0..n, i < n, i \in R PROVE i + 1 \in R
  <2>1. i + 1 \in 0..n /\ i + 1 \in 1..n /\ (i + 1) - 1 = i
      BY <1>1, <1>7
  <2>2. CASE i + 1 < j
      BY <2>1, <2>2
  <2>3. CASE i + 1 = j
      BY <2>1, <2>3, <1>2
  <2>4. CASE i + 1 > j
    <3>1. w[i] = s
        BY <2>4, <1>7
    <3>2. w[i + 1] = Visit(enc, w[i])
        BY <2>1, <1>5
    <3> QED BY <3>1, <3>2, <2>1, <1>4
  <2> QED BY <2>1, <2>2, <2>3, <2>4
<1>8. \A i \in 0..n : i \in R
  <2> HIDE DEF R
  <2> QED BY <1>1, <1>6, <1>7, UpTo
<1>9. n \in 0..n /\ ~(n < j)
    BY <1>1, <1>2
<1>10. w[n] = s
    BY <1>8, <1>9
<1> QED BY <1>10 DEF n, s

\* The version, suites and capabilities of a, with these options.
HelloOf(a, min, mtu, vendor, model) ==
    [err |-> "OK", version |-> a.version, min_version |-> min, suites |-> a.suites,
     caps |-> a.caps, mtu_hint |-> mtu, vendor_id |-> vendor, device_model |-> model]

\* These are what auth_hello_decode may return.
LEMMA HelloOfTyped ==
    ASSUME NEW a \in Greeting, NEW min \in Nat, NEW mtu \in Seq(Nat), NEW vendor \in Seq(Nat),
           NEW model \in Seq(Nat), Len(mtu) <= 1, Len(vendor) <= MaxVendor, Len(model) <= MaxModel
    PROVE  HelloOf(a, min, mtu, vendor, model) \in Greeting /\ HelloOf(a, min, mtu, vendor, model).err = "OK"
<1> DEFINE h == HelloOf(a, min, mtu, vendor, model)
<1>1. a.version \in Nat /\ a.suites \in Seq(Nat) /\ a.caps \in Nat /\ Len(a.suites) <= MaxSuites
    BY DEF Greeting, Hello
<1>2. /\ h.err = "OK" /\ h.suites = a.suites /\ h.mtu_hint = mtu /\ h.vendor_id = vendor
      /\ h.device_model = model
    BY DEF HelloOf
<1>3. h \in Hello
    BY <1>1 DEF HelloOf, Hello
<1> HIDE DEF h
<1>4. h \in Greeting
    BY <1>1, <1>2, <1>3 DEF Greeting
<1> QED BY <1>2, <1>4 DEF h

\* The options one by one, as the decoder takes them.
LEMMA TakingMin ==
    ASSUME NEW a, NEW min \in Nat, NEW m
    PROVE  Taking(HelloOf(a, m, <<>>, <<>>, <<>>), TLV_MIN_VERSION, <<min>>) = HelloOf(a, min, <<>>, <<>>, <<>>)
<1> DEFINE h == HelloOf(a, m, <<>>, <<>>, <<>>)
           v == <<min>>
           t == [err |-> "OK", tag |-> TLV_MIN_VERSION, value |-> v]
<1>1. v # <<>> /\ Len(v) = 1 /\ v[1] = min
    OBVIOUS
<1> HIDE DEF v
<1>2. t.tag = TLV_MIN_VERSION /\ t.value = v
    OBVIOUS
<1>3. Taking(h, TLV_MIN_VERSION, v) = TakeTlv(h, t)
    BY <1>1 DEF Taking
<1> HIDE DEF h, t
<1>4. TakeTlv(h, t) = [h EXCEPT !.min_version = min]
    BY <1>1, <1>2 DEF TakeTlv, TLV_MIN_VERSION, TLV_MTU_HINT, TLV_VENDOR_ID, TLV_DEVICE_MODEL
<1>5. [h EXCEPT !.min_version = min] = HelloOf(a, min, <<>>, <<>>, <<>>)
    BY DEF h, HelloOf
<1> QED BY <1>3, <1>4, <1>5 DEF h, v

\* The hint of the MTU.
LEMMA TakingMtu ==
    ASSUME NEW a, NEW min, NEW v \in Seq(Nat), Len(v) <= 1
    PROVE  Taking(HelloOf(a, min, <<>>, <<>>, <<>>), TLV_MTU_HINT, v) = HelloOf(a, min, v, <<>>, <<>>)
<1>1. CASE v = <<>>
    BY <1>1 DEF Taking
<1>2. CASE v # <<>>
  <2>1. Len(v) = 1
    <3> DEFINE n == Len(v)
    <3>1. n = 0 => v = <<>>
        OBVIOUS
    <3>2. n \in Nat /\ n <= 1
        OBVIOUS
    <3> HIDE DEF n
    <3>3. n = 1
        BY <3>1, <3>2, <1>2
    <3> QED BY <3>3 DEF n
  <2> DEFINE h == HelloOf(a, min, <<>>, <<>>, <<>>)
             t == [err |-> "OK", tag |-> TLV_MTU_HINT, value |-> v]
  <2>2. t.tag = TLV_MTU_HINT /\ t.value = v
      OBVIOUS
  <2>3. Taking(h, TLV_MTU_HINT, v) = TakeTlv(h, t)
      BY <1>2 DEF Taking
  <2> HIDE DEF h, t
  <2>4. TakeTlv(h, t) = [h EXCEPT !.mtu_hint = v]
      BY <2>1, <2>2 DEF TakeTlv, TLV_MIN_VERSION, TLV_MTU_HINT, TLV_VENDOR_ID, TLV_DEVICE_MODEL
  <2>5. [h EXCEPT !.mtu_hint = v] = HelloOf(a, min, v, <<>>, <<>>)
      BY DEF h, HelloOf
  <2> QED BY <2>3, <2>4, <2>5 DEF h
<1> QED BY <1>1, <1>2

\* The name of the vendor.
LEMMA TakingVendor ==
    ASSUME NEW a, NEW min, NEW mtu, NEW v \in Seq(Nat), Len(v) <= MaxVendor
    PROVE  Taking(HelloOf(a, min, mtu, <<>>, <<>>), TLV_VENDOR_ID, v) = HelloOf(a, min, mtu, v, <<>>)
<1>1. CASE v = <<>>
    BY <1>1 DEF Taking
<1>2. CASE v # <<>>
  <2> DEFINE h == HelloOf(a, min, mtu, <<>>, <<>>)
             t == [err |-> "OK", tag |-> TLV_VENDOR_ID, value |-> v]
  <2>2. t.tag = TLV_VENDOR_ID /\ t.value = v
      OBVIOUS
  <2>3. Taking(h, TLV_VENDOR_ID, v) = TakeTlv(h, t)
      BY <1>2 DEF Taking
  <2> HIDE DEF h, t
  <2>4. TakeTlv(h, t) = [h EXCEPT !.vendor_id = v]
      BY <2>2 DEF TakeTlv, TLV_MIN_VERSION, TLV_MTU_HINT, TLV_VENDOR_ID, TLV_DEVICE_MODEL
  <2>5. [h EXCEPT !.vendor_id = v] = HelloOf(a, min, mtu, v, <<>>)
      BY DEF h, HelloOf
  <2> QED BY <2>3, <2>4, <2>5 DEF h
<1> QED BY <1>1, <1>2

\* The name of the model.
LEMMA TakingModel ==
    ASSUME NEW a, NEW min, NEW mtu, NEW vendor, NEW v \in Seq(Nat), Len(v) <= MaxModel
    PROVE  Taking(HelloOf(a, min, mtu, vendor, <<>>), TLV_DEVICE_MODEL, v) = HelloOf(a, min, mtu, vendor, v)
<1>1. CASE v = <<>>
    BY <1>1 DEF Taking
<1>2. CASE v # <<>>
  <2> DEFINE h == HelloOf(a, min, mtu, vendor, <<>>)
             t == [err |-> "OK", tag |-> TLV_DEVICE_MODEL, value |-> v]
  <2>2. t.tag = TLV_DEVICE_MODEL /\ t.value = v
      OBVIOUS
  <2>3. Taking(h, TLV_DEVICE_MODEL, v) = TakeTlv(h, t)
      BY <1>2 DEF Taking
  <2> HIDE DEF h, t
  <2>4. TakeTlv(h, t) = [h EXCEPT !.device_model = v]
      BY <2>2 DEF TakeTlv, TLV_MIN_VERSION, TLV_MTU_HINT, TLV_VENDOR_ID, TLV_DEVICE_MODEL
  <2>5. [h EXCEPT !.device_model = v] = HelloOf(a, min, mtu, vendor, v)
      BY DEF h, HelloOf
  <2> QED BY <2>3, <2>4, <2>5 DEF h
<1> QED BY <1>1, <1>2

\* The cells of the fixed part.
FixedCells(a) == <<a.version, Len(a.suites)>> \o a.suites \o <<a.caps>>
HasFixed(f, a) ==
    /\ f \in Seq(Nat) /\ Len(f) = Len(a.suites) + 3
    /\ f[1] = a.version /\ f[2] = Len(a.suites) /\ f[Len(a.suites) + 3] = a.caps
    /\ \A k \in 1..Len(a.suites) : f[k + 2] = a.suites[k]
\* auth_hello_encode writes them.
LEMMA FixedWritten ==
    ASSUME NEW a \in Greeting
    PROVE  HasFixed(FixedCells(a), a)
<1> DEFINE s == a.suites
           n == Len(s)
           h == <<a.version, n>>
           c == <<a.caps>>
           p == h \o s
           f == p \o c
<1>1. s \in Seq(Nat) /\ n \in Nat /\ a.version \in Nat /\ a.caps \in Nat
    BY DEF Greeting, Hello
<1>2. h \in Seq(Nat) /\ Len(h) = 2 /\ h[1] = a.version /\ h[2] = n
  <2> HIDE DEF n
  <2> QED BY <1>1
<1>3. c \in Seq(Nat) /\ Len(c) = 1 /\ c[1] = a.caps
    BY <1>1
<1>4. FixedCells(a) = f
    BY DEF FixedCells
<1> HIDE DEF s, h, c
<1>5. /\ p \in Seq(Nat) /\ Len(p) = Len(h) + Len(s)
      /\ \A k \in 1..Len(h) : p[k] = h[k]
      /\ \A k \in 1..Len(s) : p[Len(h) + k] = s[k]
    BY <1>1, <1>2, JoinCells, Zenon
<1> HIDE DEF p
<1>6. /\ f \in Seq(Nat) /\ Len(f) = Len(p) + Len(c)
      /\ \A k \in 1..Len(p) : f[k] = p[k]
      /\ \A k \in 1..Len(c) : f[Len(p) + k] = c[k]
    BY <1>3, <1>5, JoinCells, Zenon
<1> HIDE DEF f
<1> HIDE DEF n
<1>7. Len(p) = n + 2 /\ Len(f) = n + 3
  <2>1. Len(p) = 2 + n /\ Len(f) = Len(p) + 1
      BY <1>2, <1>3, <1>5, <1>6 DEF n
  <2> QED BY <2>1, <1>1
<1>8. p[1] = a.version /\ p[2] = n /\ \A k \in 1..n : p[2 + k] = s[k]
  <2>1. 1 \in 1..Len(h) /\ 2 \in 1..Len(h)
      BY <1>2
  <2>2. p[1] = h[1] /\ p[2] = h[2]
      BY <2>1, <1>5, Zenon
  <2>3. \A k \in 1..n : p[2 + k] = s[k]
      BY <1>2, <1>5 DEF n
  <2> QED BY <2>2, <2>3, <1>2
<1>9. 1 \in 1..Len(p) /\ 2 \in 1..Len(p) /\ \A k \in 1..n : 2 + k = k + 2 /\ k + 2 \in 1..Len(p)
    BY <1>1, <1>7
<1>10. f[1] = a.version /\ f[2] = n /\ \A k \in 1..n : f[k + 2] = s[k]
    BY <1>6, <1>8, <1>9
<1>11. f[n + 3] = a.caps
  <2>1. 1 \in 1..Len(c) /\ Len(p) + 1 = n + 3
      BY <1>1, <1>3, <1>7
  <2> QED BY <2>1, <1>3, <1>6
<1> QED BY <1>4, <1>6, <1>7, <1>10, <1>11 DEF HasFixed, n, s

\* What begins with c begins with what c begins with.
LEMMA CarriesMore ==
    ASSUME NEW b \in Seq(Nat), NEW c \in Seq(Nat), NEW d \in Seq(Nat), Carries(d, c), Carries(c, b)
    PROVE  Carries(d, b)
<1> DEFINE lb == Len(b)
           lc == Len(c)
           ld == Len(d)
<1>1. lb \in Nat /\ lc \in Nat /\ ld \in Nat /\ lb <= lc /\ lc <= ld
    BY DEF Carries
<1>2. (\A k \in 1..lc : d[k] = c[k]) /\ (\A k \in 1..lb : c[k] = b[k])
    BY DEF Carries
<1> HIDE DEF lb, lc, ld
<1>3. lb <= ld /\ \A k \in 1..lb : k \in 1..lc
    BY <1>1
<1>4. \A k \in 1..lb : d[k] = b[k]
    BY <1>2, <1>3
<1> QED BY <1>3, <1>4 DEF Carries, lb, ld

\* Read behind the fixed part, the loop is where the options begin.
LEMMA FixedRead ==
    ASSUME NEW a \in Greeting, NEW f, HasFixed(f, a), NEW enc \in Seq(Nat), Carries(enc, f)
    PROVE  /\ Whole(enc)
           /\ enc[2] + 3 = Len(f)
           /\ Fixed(enc) = HelloOf(a, a.version, <<>>, <<>>, <<>>)
<1> DEFINE s == a.suites
           n == Len(s)
           le == Len(enc)
<1>1. s \in Seq(Nat) /\ n \in Nat /\ n <= MaxSuites /\ le \in Nat
    BY DEF Greeting, Hello
<1>2. /\ Len(f) = n + 3 /\ f[1] = a.version /\ f[2] = n /\ f[n + 3] = a.caps
      /\ \A k \in 1..n : f[k + 2] = s[k]
    BY DEF HasFixed
<1>3. Len(f) <= le /\ \A k \in 1..Len(f) : enc[k] = f[k]
    BY DEF Carries
<1> HIDE DEF s, n, le
<1>4. n + 3 <= le /\ \A k \in 1..n + 3 : enc[k] = f[k]
    BY <1>2, <1>3
<1>5. 1 \in 1..n + 3 /\ 2 \in 1..n + 3 /\ n + 3 \in 1..n + 3 /\ \A k \in 1..n : k + 2 \in 1..n + 3
    BY <1>1
<1>6. enc[1] = a.version /\ enc[2] = n /\ enc[n + 3] = a.caps
    BY <1>2, <1>4, <1>5
<1>7. \A k \in 1..n : enc[k + 2] = s[k]
    BY <1>2, <1>4, <1>5
<1>8. Whole(enc)
  <2>1. le >= 2 /\ n <= MaxSuites /\ le - 2 >= n + 1
      BY <1>1, <1>4
  <2> QED BY <2>1, <1>6 DEF Whole, le
<1>9. SubSeq(enc, 3, n + 2) = s
  <2> DEFINE e == n + 2
             b == 2
             x == SubSeq(enc, b + 1, e)
  <2>1. b \in Nat /\ e \in Nat /\ b <= e /\ e <= Len(enc) /\ e - b = n
      BY <1>1, <1>4 DEF le
  <2>2. SubSeq(enc, 3, n + 2) = SubSeq(enc, b + 1, e)
      OBVIOUS
  <2>3. \A k \in 1..n : enc[b + k] = s[k]
    <3>1. \A k \in 1..n : b + k = k + 2
        BY <1>1
    <3> QED BY <3>1, <1>7
  <2> HIDE DEF b, e
  <2>4. x \in Seq(Nat) /\ Len(x) = e - b /\ \A k \in 1..e - b : x[k] = enc[b + k]
      BY <2>1, PieceNumbers
  <2> HIDE DEF x
  <2>5. x = s
    <3>1. Len(x) = Len(s)
        BY <2>1, <2>4 DEF n
    <3>2. \A k \in 1..Len(x) : x[k] = s[k]
        BY <2>1, <2>3, <2>4
    <3> QED BY <3>1, <3>2, <2>4, <1>1, SameNumbers
  <2> QED BY <2>2, <2>5 DEF x
<1>10. Fixed(enc) = HelloOf(a, a.version, <<>>, <<>>, <<>>)
  <2> DEFINE none == <<>>
  <2>1. Fixed(enc) = [err |-> "OK", version |-> enc[1], min_version |-> enc[1],
                      suites |-> SubSeq(enc, 3, enc[2] + 2), caps |-> enc[enc[2] + 3],
                      mtu_hint |-> none, vendor_id |-> none, device_model |-> none]
      BY DEF Fixed
  <2>2. HelloOf(a, a.version, none, none, none)
            = [err |-> "OK", version |-> a.version, min_version |-> a.version, suites |-> s,
               caps |-> a.caps, mtu_hint |-> none, vendor_id |-> none, device_model |-> none]
      BY DEF HelloOf, s
  <2> HIDE DEF none
  <2>3. Fixed(enc) = HelloOf(a, a.version, none, none, none)
      BY <2>1, <2>2, <1>6, <1>9
  <2> QED BY <2>3 DEF none
<1> QED BY <1>2, <1>6, <1>8, <1>10

\* A HELLO that was decoded is the one that decoding its encoding returns.
LEMMA HelloRoundTrip ==
    ASSUME NEW a \in Greeting, a.err = "OK"
    PROVE  auth_hello_decode(auth_hello_encode(a).out) = a
<1> DEFINE none == <<>>
           min == <<a.min_version>>
           b0 == FixedCells(a)
           b1 == WithOption(b0, TLV_MIN_VERSION, min)
           b2 == WithOption(b1, TLV_MTU_HINT, a.mtu_hint)
           b3 == WithOption(b2, TLV_VENDOR_ID, a.vendor_id)
           b4 == WithOption(b3, TLV_DEVICE_MODEL, a.device_model)
           h0 == HelloOf(a, a.version, none, none, none)
           h1 == HelloOf(a, a.min_version, none, none, none)
           h2 == HelloOf(a, a.min_version, a.mtu_hint, none, none)
           h3 == HelloOf(a, a.min_version, a.mtu_hint, a.vendor_id, none)
           h4 == HelloOf(a, a.min_version, a.mtu_hint, a.vendor_id, a.device_model)
<1>1. /\ a.version \in Nat /\ a.min_version \in Nat /\ a.suites \in Seq(Nat) /\ a.caps \in Nat
      /\ a.mtu_hint \in Seq(Nat) /\ a.vendor_id \in Seq(Nat) /\ a.device_model \in Seq(Nat)
      /\ Len(a.suites) <= MaxSuites /\ Len(a.mtu_hint) <= 1
      /\ Len(a.vendor_id) <= MaxVendor /\ Len(a.device_model) <= MaxModel
    BY DEF Greeting, Hello
<1>2. min \in Seq(Nat) /\ min # <<>>
    BY <1>1
<1>3. none \in Seq(Nat) /\ Len(none) <= 1 /\ Len(none) <= MaxVendor /\ Len(none) <= MaxModel
    BY DEF MaxVendor, MaxModel
<1>4. auth_hello_encode(a).out = b4
  <2>1. ~(Len(a.suites) > MaxSuites)
      BY <1>1 DEF MaxSuites
  <2>2. auth_tlv_write(b0, TLV_MIN_VERSION, min) = b1
      BY <1>2 DEF WithOption
  <2> QED BY <2>1, <2>2 DEF auth_hello_encode, FixedCells, WithOption
<1>5. h4 = a
  <2>1. a = [err |-> a.err, version |-> a.version, min_version |-> a.min_version, suites |-> a.suites,
             caps |-> a.caps, mtu_hint |-> a.mtu_hint, vendor_id |-> a.vendor_id, device_model |-> a.device_model]
      BY DEF Greeting, Hello
  <2> QED BY <2>1 DEF HelloOf
<1>6. TLV_MIN_VERSION \in Nat /\ TLV_MTU_HINT \in Nat /\ TLV_VENDOR_ID \in Nat /\ TLV_DEVICE_MODEL \in Nat
    BY DEF TLV_MIN_VERSION, TLV_MTU_HINT, TLV_VENDOR_ID, TLV_DEVICE_MODEL
<1>7. HasFixed(b0, a) /\ b0 \in Seq(Nat)
    BY FixedWritten DEF HasFixed
<1>8. /\ h0 \in Greeting /\ h1 \in Greeting /\ h2 \in Greeting /\ h3 \in Greeting
      /\ h0.err = "OK" /\ h1.err = "OK" /\ h2.err = "OK" /\ h3.err = "OK"
  <2> HIDE DEF none
  <2>1. h0 \in Greeting /\ h0.err = "OK"
      BY <1>1, <1>3, HelloOfTyped, Zenon
  <2>2. h1 \in Greeting /\ h1.err = "OK"
      BY <1>1, <1>3, HelloOfTyped, Zenon
  <2>3. h2 \in Greeting /\ h2.err = "OK"
      BY <1>1, <1>3, HelloOfTyped, Zenon
  <2>4. h3 \in Greeting /\ h3.err = "OK"
      BY <1>1, <1>3, HelloOfTyped, Zenon
  <2> QED BY <2>1, <2>2, <2>3, <2>4
<1>9. /\ Taking(h0, TLV_MIN_VERSION, min) = h1
      /\ Taking(h1, TLV_MTU_HINT, a.mtu_hint) = h2
      /\ Taking(h2, TLV_VENDOR_ID, a.vendor_id) = h3
      /\ Taking(h3, TLV_DEVICE_MODEL, a.device_model) = h4
    BY <1>1, TakingMin, TakingMtu, TakingVendor, TakingModel
<1>10. h0 = HelloOf(a, a.version, <<>>, <<>>, <<>>)
    OBVIOUS
<1>11. /\ b1 = WithOption(b0, TLV_MIN_VERSION, min)
       /\ b2 = WithOption(b1, TLV_MTU_HINT, a.mtu_hint)
       /\ b3 = WithOption(b2, TLV_VENDOR_ID, a.vendor_id)
       /\ b4 = WithOption(b3, TLV_DEVICE_MODEL, a.device_model)
    OBVIOUS
<1> HIDE DEF none, min, b0, b1, b2, b3, b4, h0, h1, h2, h3, h4
<1>12. b1 \in Seq(Nat) /\ Carries(b1, b0)
    BY <1>2, <1>6, <1>7, <1>11, OptionWritten
<1>13. b2 \in Seq(Nat) /\ Carries(b2, b1)
    BY <1>1, <1>6, <1>11, <1>12, OptionWritten
<1>14. b3 \in Seq(Nat) /\ Carries(b3, b2)
    BY <1>1, <1>6, <1>11, <1>13, OptionWritten
<1>15. b4 \in Seq(Nat) /\ Carries(b4, b3)
    BY <1>1, <1>6, <1>11, <1>14, OptionWritten
<1>16. Carries(b4, b4)
    BY <1>15 DEF Carries
<1>17. Carries(b4, b2)
    BY <1>13, <1>14, <1>15, CarriesMore
<1>18. Carries(b4, b1)
    BY <1>12, <1>13, <1>15, <1>17, CarriesMore
<1>19. Carries(b4, b0)
    BY <1>7, <1>12, <1>15, <1>18, CarriesMore
<1>20. Whole(b4) /\ b4[2] + 3 = Len(b0) /\ Fixed(b4) = h0
    BY <1>7, <1>10, <1>15, <1>19, FixedRead
<1>21. PICK w \in [0..Len(b4) -> Place] : Visits(w, b4) /\ auth_hello_decode(b4) = w[Len(b4)].h
    BY <1>15, <1>20, HelloSteps
<1>22. Arrives(w, b0, h0)
  <2>1. w[0] = [at |-> Len(b0), h |-> h0]
      BY <1>20, <1>21 DEF Visits
  <2>2. 0 \in 0..Len(b0)
      BY <1>7
  <2> QED BY <2>1, <2>2 DEF Arrives
<1>23. Arrives(w, b1, h1)
    BY <1>2, <1>6, <1>7, <1>8, <1>9, <1>11, <1>15, <1>18, <1>21, <1>22, OptionTaken
<1>24. Arrives(w, b2, h2)
    BY <1>1, <1>6, <1>8, <1>9, <1>11, <1>12, <1>15, <1>17, <1>21, <1>23, OptionTaken
<1>25. Arrives(w, b3, h3)
    BY <1>1, <1>6, <1>8, <1>9, <1>11, <1>13, <1>15, <1>21, <1>24, OptionTaken
<1>26. Arrives(w, b4, h4)
    BY <1>1, <1>6, <1>8, <1>9, <1>11, <1>14, <1>15, <1>16, <1>21, <1>25, OptionTaken
<1>27. w[Len(b4)] = [at |-> Len(b4), h |-> h4]
    BY <1>15, <1>21, <1>26, StaysAtEnd
<1> QED BY <1>4, <1>5, <1>21, <1>27

-----------------------------------------------------------------------------
(* Transcripts.                                                            *)

Labels == {Names[i] : i \in DOMAIN Names}
FieldList == Seq(Labels \X Seq(Int))

\* Every name has a number.
LEMMA CodeInt ==
    ASSUME NEW l \in Labels
    PROVE  Code[l] \in Int
<1>1. DOMAIN Names \subseteq Int
    BY DEF Names
<1>2. \E i \in DOMAIN Names : Names[i] = l
    BY DEF Labels
<1>3. Code[l] = CHOOSE i \in DOMAIN Names : Names[i] = l
    BY DEF Code, Labels
<1> QED BY <1>1, <1>2, <1>3

\* What one append adds, and the transcript after every append.
FieldCells(f) == <<Code[f[1]], Len(f[2])>> \o f[2]
Follows(t, domain, fields) ==
    /\ t[0] = <<Code[domain]>>
    /\ \A i \in 1..Len(fields) : t[i] = t[i - 1] \o FieldCells(fields[i])

\* Two sequences with the same cells are the same.
LEMMA SameInts ==
    ASSUME NEW p \in Seq(Int), NEW q \in Seq(Int), Len(p) = Len(q), \A i \in 1..Len(p) : p[i] = q[i]
    PROVE  p = q
OBVIOUS

\* The cells of a concatenation.
LEMMA JoinInts ==
    ASSUME NEW p \in Seq(Int), NEW q \in Seq(Int)
    PROVE  /\ p \o q \in Seq(Int) /\ Len(p \o q) = Len(p) + Len(q)
           /\ Len(p) \in Nat /\ Len(q) \in Nat
           /\ \A k \in 1..Len(p) : (p \o q)[k] = p[k]
           /\ \A k \in 1..Len(q) : (p \o q)[Len(p) + k] = q[k]
OBVIOUS

\* Concatenation is associative.
LEMMA JoinAssoc ==
    ASSUME NEW p \in Seq(Int), NEW q \in Seq(Int), NEW r \in Seq(Int)
    PROVE  (p \o q) \o r = p \o (q \o r)
OBVIOUS

\* The cells of a field.
LEMMA FieldCellsSeq ==
    ASSUME NEW f \in Labels \X Seq(Int)
    PROVE  /\ FieldCells(f) \in Seq(Int) /\ Len(FieldCells(f)) = 2 + Len(f[2])
           /\ \A k \in 1..Len(f[2]) : FieldCells(f)[2 + k] = f[2][k]
           /\ \A t \in Seq(Int) : auth_transcript_append(t, f[1], f[2]) = t \o FieldCells(f)
<1> DEFINE h == <<Code[f[1]], Len(f[2])>>
           v == f[2]
<1>1. v \in Seq(Int) /\ Code[f[1]] \in Int
    BY CodeInt
<1>2. h \in Seq(Int) /\ Len(h) = 2
    BY <1>1
<1>3. FieldCells(f) = h \o v
    BY DEF FieldCells
<1>4. \A t \in Seq(Int) : auth_transcript_append(t, f[1], f[2]) = t \o h \o v
    BY DEF auth_transcript_append
<1> HIDE DEF h, v
<1>5. \A t \in Seq(Int) : t \o h \o v = t \o (h \o v)
    BY <1>1, <1>2, JoinAssoc
<1>6. /\ h \o v \in Seq(Int) /\ Len(h \o v) = Len(h) + Len(v)
      /\ \A k \in 1..Len(v) : (h \o v)[Len(h) + k] = v[k]
    BY <1>1, <1>2, JoinInts, Zenon
<1>7. \A k \in 1..Len(v) : (h \o v)[2 + k] = v[k]
    BY <1>2, <1>6
<1>8. \A t \in Seq(Int) : auth_transcript_append(t, f[1], f[2]) = t \o FieldCells(f)
    BY <1>3, <1>4, <1>5
<1> QED BY <1>2, <1>3, <1>6, <1>7, <1>8 DEF v

\* Transcript is the last of the steps that append its fields in order.
LEMMA TranscriptSteps ==
    ASSUME NEW domain \in Labels, NEW fields \in FieldList
    PROVE  \E t \in [0..Len(fields) -> Seq(Int)] :
               Follows(t, domain, fields) /\ Transcript(domain, fields) = t[Len(fields)]
<1> DEFINE n == Len(fields)
           S == Seq(Int)
           first == <<Code[domain]>>
           add(s, i) == s \o FieldCells(fields[i])
           step == [i \in 1..n |-> [s \in S |-> add(s, i)]]
           Body(g) == [i \in 0..n |-> IF i = 0 THEN auth_transcript_init(domain)
                                      ELSE auth_transcript_append(g[i - 1], fields[i][1], fields[i][2])]
           t == CHOOSE g : g = Body(g)
<1>1. n \in Nat
    BY DEF FieldList
<1>2. first \in S
    BY CodeInt
<1>3. ASSUME NEW i \in 1..n, NEW s \in S
      PROVE  add(s, i) \in S /\ auth_transcript_append(s, fields[i][1], fields[i][2]) = add(s, i)
  <2>1. fields[i] \in Labels \X Seq(Int)
      BY DEF FieldList
  <2> DEFINE f == fields[i]
  <2>2. f \in Labels \X Seq(Int)
      BY <2>1
  <2> HIDE DEF f
  <2>3. FieldCells(f) \in Seq(Int) /\ auth_transcript_append(s, f[1], f[2]) = s \o FieldCells(f)
      BY <2>2, FieldCellsSeq
  <2>4. s \o FieldCells(f) \in S
      BY <2>3
  <2> QED BY <2>3, <2>4 DEF f
<1>4. Transcript(domain, fields) = t[n]
    BY DEF Transcript
<1> HIDE DEF n, add
<1>5. step \in [1..n -> [S -> S]]
    BY <1>3
<1>6. PICK f \in [0..n -> S] : Recurs(f, n, first, step)
  <2> HIDE DEF step, S, first
  <2> QED BY <1>1, <1>2, <1>5, Recursion
<1>7. \A i \in 1..n : f[i] = add(f[i - 1], i)
  <2>1. ASSUME NEW i \in 1..n PROVE f[i] = add(f[i - 1], i)
    <3>1. i - 1 \in 0..n /\ f[i - 1] \in S
        BY <1>1
    <3> QED BY <3>1, <1>6 DEF Recurs
  <2> QED BY <2>1
<1>8. f = Body(f)
  <2>1. ASSUME NEW i \in 1..n
        PROVE  f[i] = auth_transcript_append(f[i - 1], fields[i][1], fields[i][2])
    <3>1. i - 1 \in 0..n /\ f[i - 1] \in S
        BY <1>1
    <3> QED BY <3>1, <1>3, <1>7
  <2>2. f[0] = auth_transcript_init(domain)
      BY <1>6 DEF Recurs, auth_transcript_init
  <2>3. \A i \in 0..n : f[i] = IF i = 0 THEN auth_transcript_init(domain)
                               ELSE auth_transcript_append(f[i - 1], fields[i][1], fields[i][2])
      BY <1>1, <2>1, <2>2
  <2> QED BY <2>3
<1>9. t = Body(t)
  <2> HIDE DEF Body
  <2> QED BY <1>8
<1> HIDE DEF t
<1>10. \A i \in 0..n : t[i] = IF i = 0 THEN auth_transcript_init(domain)
                              ELSE auth_transcript_append(t[i - 1], fields[i][1], fields[i][2])
    BY <1>9
<1> DEFINE R == {i \in 0..n : t[i] = f[i]}
<1>11. 0 \in R
  <2>1. 0 \in 0..n
      BY <1>1
  <2>2. t[0] = auth_transcript_init(domain)
      BY <2>1, <1>10, Zenon
  <2> QED BY <2>1, <2>2, <1>6 DEF Recurs, auth_transcript_init
<1>12. ASSUME NEW i \in 0..n, i < n, i \in R PROVE i + 1 \in R
  <2>1. i + 1 \in 0..n /\ i + 1 \in 1..n /\ i + 1 # 0 /\ (i + 1) - 1 = i
      BY <1>1, <1>12
  <2>2. t[i + 1] = auth_transcript_append(t[i], fields[i + 1][1], fields[i + 1][2])
      BY <2>1, <1>10
  <2>3. f[i + 1] = add(f[i], i + 1) /\ f[i] \in S
      BY <2>1, <1>7
  <2>4. auth_transcript_append(f[i], fields[i + 1][1], fields[i + 1][2]) = add(f[i], i + 1)
      BY <2>1, <2>3, <1>3
  <2> QED BY <2>1, <2>2, <2>3, <2>4, <1>12
<1>13. n \in R
  <2> HIDE DEF R
  <2>1. \A i \in 0..n : i \in R
      BY <1>1, <1>11, <1>12, UpTo
  <2> QED BY <2>1, <1>1
<1>14. Follows(f, domain, fields)
    BY <1>6, <1>7 DEF Recurs, Follows, add, n
<1> QED BY <1>4, <1>6, <1>13, <1>14 DEF n

\* Two sequences of one length that differ at k.
Apart(p, q, k) == k \in 1..Len(p) /\ Len(p) = Len(q) /\ p[k] # q[k]

\* They differ whatever follows,
LEMMA ApartMore ==
    ASSUME NEW p \in Seq(Int), NEW q \in Seq(Int), NEW r \in Seq(Int), NEW k, Apart(p, q, k)
    PROVE  Apart(p \o r, q \o r, k)
<1> DEFINE a == p \o r
           b == q \o r
           lp == Len(p)
           lq == Len(q)
           lr == Len(r)
<1>1. Len(a) = lp + lr /\ lp \in Nat /\ lr \in Nat /\ \A i \in 1..lp : a[i] = p[i]
    BY JoinInts
<1>2. Len(b) = lq + lr /\ \A i \in 1..lq : b[i] = q[i]
    BY JoinInts
<1>3. k \in 1..lp /\ lp = lq /\ p[k] # q[k]
    BY DEF Apart
<1> HIDE DEF a, b, lp, lq, lr
<1>4. k \in 1..Len(a) /\ Len(a) = Len(b)
    BY <1>1, <1>2, <1>3
<1>5. a[k] # b[k]
    BY <1>1, <1>2, <1>3
<1>6. Apart(a, b, k)
    BY <1>4, <1>5 DEF Apart
<1> QED BY <1>6 DEF a, b

\* and whatever comes before.
LEMMA ApartBehind ==
    ASSUME NEW p \in Seq(Int), NEW q \in Seq(Int), NEW r \in Seq(Int), NEW k, Apart(p, q, k)
    PROVE  Apart(r \o p, r \o q, Len(r) + k)
<1> DEFINE a == r \o p
           b == r \o q
           lp == Len(p)
           lq == Len(q)
           lr == Len(r)
<1>1. Len(a) = lr + lp /\ lp \in Nat /\ lr \in Nat /\ \A i \in 1..lp : a[lr + i] = p[i]
    BY JoinInts
<1>2. Len(b) = lr + lq /\ \A i \in 1..lq : b[lr + i] = q[i]
    BY JoinInts
<1>3. k \in 1..lp /\ lp = lq /\ p[k] # q[k]
    BY DEF Apart
<1> HIDE DEF a, b, lp, lq, lr
<1>4. lr + k \in 1..Len(a) /\ Len(a) = Len(b)
    BY <1>1, <1>2, <1>3
<1>5. a[lr + k] # b[lr + k]
    BY <1>1, <1>2, <1>3
<1>6. Apart(a, b, lr + k)
    BY <1>4, <1>5 DEF Apart
<1> QED BY <1>6 DEF a, b, lr

\* Two lists of fields that differ in the number of field m only.
OneApart(e, f, m) ==
    /\ Len(e) = Len(f) /\ m \in 1..Len(e)
    /\ \A i \in 1..Len(e) : i # m => e[i] = f[i]
    /\ Len(e[m][2]) = 1 /\ Len(f[m][2]) = 1 /\ e[m][2][1] # f[m][2][1]

\* A number that differs makes two transcripts that differ.
LEMMA TranscriptApart ==
    ASSUME NEW domain \in Labels, NEW e \in FieldList, NEW f \in FieldList, NEW m, OneApart(e, f, m)
    PROVE  /\ Transcript(domain, e) \in Seq(Int) /\ Transcript(domain, f) \in Seq(Int)
           /\ Transcript(domain, e) # Transcript(domain, f)
<1> DEFINE n == Len(e)
<1>1. n \in Nat /\ Len(f) = n
    BY DEF FieldList, OneApart
<1>2. PICK t \in [0..n -> Seq(Int)] : Follows(t, domain, e) /\ Transcript(domain, e) = t[n]
    BY TranscriptSteps
<1>3. PICK u \in [0..n -> Seq(Int)] : Follows(u, domain, f) /\ Transcript(domain, f) = u[n]
  <2>1. \E w \in [0..Len(f) -> Seq(Int)] : Follows(w, domain, f) /\ Transcript(domain, f) = w[Len(f)]
      BY TranscriptSteps
  <2> QED BY <2>1, <1>1
<1>4. /\ m \in 1..n /\ \A i \in 1..n : i # m => e[i] = f[i]
      /\ Len(e[m][2]) = 1 /\ Len(f[m][2]) = 1 /\ e[m][2][1] # f[m][2][1]
    BY DEF OneApart
<1>5. \A i \in 1..n : e[i] \in Labels \X Seq(Int) /\ f[i] \in Labels \X Seq(Int)
    BY <1>1 DEF FieldList
<1>6. \A i \in 1..n : FieldCells(e[i]) \in Seq(Int) /\ FieldCells(f[i]) \in Seq(Int)
    BY <1>5, FieldCellsSeq
<1>7. /\ t[0] = u[0]
      /\ \A i \in 1..n : t[i] = t[i - 1] \o FieldCells(e[i]) /\ u[i] = u[i - 1] \o FieldCells(f[i])
    BY <1>1, <1>2, <1>3 DEF Follows
<1>8. Apart(FieldCells(e[m]), FieldCells(f[m]), 3)
  <2> DEFINE p == FieldCells(e[m])
             q == FieldCells(f[m])
  <2>1. Len(p) = 3 /\ p[3] = e[m][2][1]
    <3>1. e[m] \in Labels \X Seq(Int)
        BY <1>4, <1>5
    <3>2. Len(p) = 2 + Len(e[m][2]) /\ \A k \in 1..Len(e[m][2]) : p[2 + k] = e[m][2][k]
        BY <3>1, FieldCellsSeq
    <3>3. Len(e[m][2]) = 1
        BY <1>4
    <3> HIDE DEF p
    <3> QED BY <3>2, <3>3
  <2>2. Len(q) = 3 /\ q[3] = f[m][2][1]
    <3>1. f[m] \in Labels \X Seq(Int)
        BY <1>4, <1>5
    <3>2. Len(q) = 2 + Len(f[m][2]) /\ \A k \in 1..Len(f[m][2]) : q[2 + k] = f[m][2][k]
        BY <3>1, FieldCellsSeq
    <3>3. Len(f[m][2]) = 1
        BY <1>4
    <3> HIDE DEF q
    <3> QED BY <3>2, <3>3
  <2> HIDE DEF p, q
  <2>3. Apart(p, q, 3)
      BY <2>1, <2>2, <1>4 DEF Apart
  <2> QED BY <2>3 DEF p, q
<1> HIDE DEF n
<1> DEFINE R == {i \in 0..n : IF i < m THEN t[i] = u[i] ELSE Apart(t[i], u[i], Len(t[m - 1]) + 3)}
<1>9. 0 \in R
    BY <1>1, <1>4, <1>7
<1>10. ASSUME NEW i \in 0..n, i < n, i \in R PROVE i + 1 \in R
  <2>1. i + 1 \in 0..n /\ i + 1 \in 1..n /\ (i + 1) - 1 = i /\ i \in 0..n
      BY <1>1, <1>10
  <2>2. t[i + 1] = t[i] \o FieldCells(e[i + 1]) /\ u[i + 1] = u[i] \o FieldCells(f[i + 1])
      BY <2>1, <1>7
  <2>3. t[i] \in Seq(Int) /\ u[i] \in Seq(Int)
      OBVIOUS
  <2>4. CASE i + 1 < m
    <3>1. t[i] = u[i] /\ e[i + 1] = f[i + 1]
        BY <2>1, <2>4, <1>1, <1>4, <1>10
    <3>2. t[i + 1] = u[i + 1]
        BY <2>2, <3>1
    <3> QED BY <3>2, <2>1, <2>4
  <2>5. CASE i + 1 = m
    <3>1. t[i] = u[i] /\ m - 1 = i /\ ~(i + 1 < m)
        BY <2>1, <2>5, <1>1, <1>4, <1>10
    <3>2. Apart(t[i] \o FieldCells(e[m]), t[i] \o FieldCells(f[m]), Len(t[i]) + 3)
        BY <2>3, <1>4, <1>6, <1>8, ApartBehind
    <3>3. Apart(t[i + 1], u[i + 1], Len(t[m - 1]) + 3)
        BY <2>2, <2>5, <3>1, <3>2
    <3> QED BY <3>1, <3>3, <2>1
  <2>6. CASE i + 1 > m
    <3>1. ~(i + 1 < m) /\ ~(i < m) /\ i + 1 # m
        BY <2>6, <1>1, <1>4
    <3>2. Apart(t[i], u[i], Len(t[m - 1]) + 3) /\ e[i + 1] = f[i + 1]
        BY <3>1, <2>1, <1>4, <1>10
    <3>3. Apart(t[i] \o FieldCells(e[i + 1]), u[i] \o FieldCells(e[i + 1]), Len(t[m - 1]) + 3)
        BY <2>1, <2>3, <3>2, <1>6, ApartMore
    <3>4. Apart(t[i + 1], u[i + 1], Len(t[m - 1]) + 3)
        BY <2>2, <3>2, <3>3
    <3> QED BY <3>1, <3>4, <2>1
  <2> QED BY <2>4, <2>5, <2>6, <1>4, <1>1
<1>11. n \in R
  <2> HIDE DEF R
  <2>1. \A i \in 0..n : i \in R
      BY <1>1, <1>9, <1>10, UpTo
  <2> QED BY <2>1, <1>1
<1>12. Apart(t[n], u[n], Len(t[m - 1]) + 3)
  <2>1. ~(n < m)
      BY <1>1, <1>4
  <2> QED BY <2>1, <1>11
<1>13. t[n] # u[n]
    BY <1>12 DEF Apart
<1>14. t[n] \in Seq(Int) /\ u[n] \in Seq(Int)
    BY <1>1
<1> QED BY <1>2, <1>3, <1>13, <1>14

-----------------------------------------------------------------------------
(* The tags of AUTH v3.                                                    *)

\* The fields of auth_v3_build_kc_transcript for an authorization hash x.
V3Fields(x) ==
    << <<"protocol_version", <<Session.context.protocol_version>> >>,
       <<"suite_id", <<Session.context.suite_id>> >>,
       <<"profile_id", <<Session.context.profile_id>> >>,
       <<"selected_capabilities", <<Session.context.selected_capabilities>> >>,
       <<"session_id", <<Session.context.session_id>> >>, <<"authz_context_hash", <<x>> >>,
       <<"critical_extensions_hash", <<Session.context.critical_extensions_hash>> >>,
       <<"channel_binding_hash", <<Session.context.channel_binding_hash>> >>,
       <<"pid", <<Session.parts.pid>> >>, <<"a_c", Session.parts.a_c>>,
       <<"s_c", <<Session.parts.s_c>> >>, <<"nonce_c", <<Session.parts.nonce_c>> >>,
       <<"eph_c", Session.parts.eph_c>>, <<"server_pub", Session.parts.server_pub>>,
       <<"a_s", Session.parts.a_s>>, <<"s_s", <<Session.parts.s_s>> >>,
       <<"nonce_s", <<Session.parts.nonce_s>> >>, <<"eph_s", Session.parts.eph_s>> >>

\* Two lists of eighteen fields, of which the sixth may differ.
SameButSixth(S, t, u, f, g) ==
    /\ t \in Seq(S) /\ Len(t) = 18 /\ t[6] = f
    /\ u \in Seq(S) /\ Len(u) = 18 /\ u[6] = g
    /\ \A i \in 1..18 : i # 6 => t[i] = u[i]
\* Eighteen fields are a list of fields.
LEMMA EighteenFields ==
    ASSUME NEW S, NEW f1 \in S, NEW f2 \in S, NEW f3 \in S, NEW f4 \in S, NEW f5 \in S, NEW f6 \in S,
           NEW f7 \in S, NEW f8 \in S, NEW f9 \in S, NEW f10 \in S, NEW f11 \in S, NEW f12 \in S,
           NEW f13 \in S, NEW f14 \in S, NEW f15 \in S, NEW f16 \in S, NEW f17 \in S, NEW f18 \in S,
           NEW g6 \in S,
           NEW t, t = <<f1, f2, f3, f4, f5, f6, f7, f8, f9, f10, f11, f12, f13, f14, f15, f16, f17, f18>>,
           NEW u, u = <<f1, f2, f3, f4, f5, g6, f7, f8, f9, f10, f11, f12, f13, f14, f15, f16, f17, f18>>
    PROVE  SameButSixth(S, t, u, f6, g6)
<1>1. t \in Seq(S) /\ Len(t) = 18 /\ t[6] = f6
    OBVIOUS
<1>2. u \in Seq(S) /\ Len(u) = 18 /\ u[6] = g6
    OBVIOUS
<1>3. ASSUME NEW i \in 1..18, i # 6 PROVE t[i] = u[i]
    BY <1>3
<1> QED BY <1>1, <1>2, <1>3 DEF SameButSixth

\* The names of the fields.
LEMMA V3Labels ==
    /\ "kc_v3" \in Labels /\ "protocol_version" \in Labels /\ "suite_id" \in Labels
    /\ "profile_id" \in Labels /\ "selected_capabilities" \in Labels
    /\ "session_id" \in Labels /\ "authz_context_hash" \in Labels
    /\ "critical_extensions_hash" \in Labels /\ "channel_binding_hash" \in Labels
    /\ "pid" \in Labels /\ "a_c" \in Labels /\ "s_c" \in Labels /\ "nonce_c" \in Labels
    /\ "eph_c" \in Labels /\ "server_pub" \in Labels /\ "a_s" \in Labels
    /\ "s_s" \in Labels /\ "nonce_s" \in Labels /\ "eph_s" \in Labels
<1>1. /\ DOMAIN Names = 1..49 /\ Names[36] = "kc_v3" /\ Names[42] = "protocol_version"
      /\ Names[43] = "suite_id" /\ Names[44] = "profile_id"
      /\ Names[45] = "selected_capabilities" /\ Names[46] = "session_id"
      /\ Names[47] = "authz_context_hash" /\ Names[48] = "critical_extensions_hash"
      /\ Names[49] = "channel_binding_hash" /\ Names[4] = "pid" /\ Names[25] = "a_c"
      /\ Names[26] = "s_c" /\ Names[19] = "nonce_c" /\ Names[20] = "eph_c"
      /\ Names[13] = "server_pub" /\ Names[27] = "a_s" /\ Names[28] = "s_s"
      /\ Names[21] = "nonce_s" /\ Names[22] = "eph_s"
    BY DEF Names
<1> HIDE DEF Names
<1>2. \A i \in 1..49 : Names[i] \in Labels
    BY <1>1 DEF Labels
<1>3. /\ Names[36] \in Labels /\ Names[42] \in Labels /\ Names[43] \in Labels
      /\ Names[44] \in Labels /\ Names[45] \in Labels /\ Names[46] \in Labels
      /\ Names[47] \in Labels /\ Names[48] \in Labels /\ Names[49] \in Labels
      /\ Names[4] \in Labels /\ Names[25] \in Labels /\ Names[26] \in Labels
      /\ Names[19] \in Labels /\ Names[20] \in Labels /\ Names[13] \in Labels
      /\ Names[27] \in Labels /\ Names[28] \in Labels /\ Names[21] \in Labels
      /\ Names[22] \in Labels
    BY <1>2
<1>4. /\ "kc_v3" \in Labels /\ "protocol_version" \in Labels /\ "suite_id" \in Labels
      /\ "profile_id" \in Labels /\ "selected_capabilities" \in Labels
      /\ "session_id" \in Labels /\ "authz_context_hash" \in Labels
      /\ "critical_extensions_hash" \in Labels /\ "channel_binding_hash" \in Labels
    BY <1>1, <1>3
<1> QED BY <1>1, <1>3, <1>4

\* What the session is made of.
LEMMA SessionParts ==
    /\ Session.context.protocol_version \in Int /\ Session.context.suite_id \in Int
    /\ Session.context.profile_id \in Int /\ Session.context.selected_capabilities \in Int
    /\ Session.context.session_id \in Int
    /\ Session.context.critical_extensions_hash \in Int
    /\ Session.context.channel_binding_hash \in Int /\ Session.parts.pid \in Int
    /\ Session.parts.s_c \in Int /\ Session.parts.nonce_c \in Int
    /\ Session.parts.s_s \in Int /\ Session.parts.nonce_s \in Int /\ Session.key \in Int
    /\ Session.parts.a_c \in Seq(Int) /\ Session.parts.eph_c \in Seq(Int)
    /\ Session.parts.server_pub \in Seq(Int) /\ Session.parts.a_s \in Seq(Int)
    /\ Session.parts.eph_s \in Seq(Int)
BY SessionAssumption

\* The lists for two authorization hashes.
LEMMA V3Lists ==
    ASSUME NEW x \in Int, NEW y \in Int
    PROVE  SameButSixth(Labels \X Seq(Int), V3Fields(x), V3Fields(y),
                        <<"authz_context_hash", <<x>> >>, <<"authz_context_hash", <<y>> >>)
<1> DEFINE F == Labels \X Seq(Int)
<1>1. ASSUME NEW l \in Labels, NEW v \in Int PROVE <<l, <<v>> >> \in F
  <2>1. <<v>> \in Seq(Int)
      OBVIOUS
  <2> QED BY <2>1
<1>2. ASSUME NEW l \in Labels, NEW v \in Seq(Int) PROVE <<l, v>> \in F
    OBVIOUS
<1> DEFINE f1 == <<"protocol_version", <<Session.context.protocol_version>> >>
           f2 == <<"suite_id", <<Session.context.suite_id>> >>
           f3 == <<"profile_id", <<Session.context.profile_id>> >>
           f4 == <<"selected_capabilities", <<Session.context.selected_capabilities>> >>
           f5 == <<"session_id", <<Session.context.session_id>> >>
           f6 == <<"authz_context_hash", <<x>> >>
           g6 == <<"authz_context_hash", <<y>> >>
           f7 == <<"critical_extensions_hash", <<Session.context.critical_extensions_hash>> >>
           f8 == <<"channel_binding_hash", <<Session.context.channel_binding_hash>> >>
           f9 == <<"pid", <<Session.parts.pid>> >>
           f10 == <<"a_c", Session.parts.a_c>>
           f11 == <<"s_c", <<Session.parts.s_c>> >>
           f12 == <<"nonce_c", <<Session.parts.nonce_c>> >>
           f13 == <<"eph_c", Session.parts.eph_c>>
           f14 == <<"server_pub", Session.parts.server_pub>>
           f15 == <<"a_s", Session.parts.a_s>>
           f16 == <<"s_s", <<Session.parts.s_s>> >>
           f17 == <<"nonce_s", <<Session.parts.nonce_s>> >>
           f18 == <<"eph_s", Session.parts.eph_s>>
<1>3. /\ V3Fields(x) = <<f1, f2, f3, f4, f5, f6, f7, f8, f9, f10, f11, f12, f13, f14, f15, f16, f17, f18>>
      /\ V3Fields(y) = <<f1, f2, f3, f4, f5, g6, f7, f8, f9, f10, f11, f12, f13, f14, f15, f16, f17, f18>>
    BY DEF V3Fields
<1> HIDE DEF F
<1>4. f1 \in F /\ f2 \in F /\ f3 \in F /\ f4 \in F /\ f5 \in F /\ f6 \in F /\ g6 \in F /\ f7 \in F
    BY <1>1, V3Labels, SessionParts, Zenon
<1>5. f8 \in F /\ f9 \in F /\ f11 \in F /\ f12 \in F /\ f16 \in F /\ f17 \in F
    BY <1>1, V3Labels, SessionParts, Zenon
<1>6. f10 \in F /\ f13 \in F /\ f14 \in F /\ f15 \in F /\ f18 \in F
    BY <1>2, V3Labels, SessionParts, Zenon
<1> HIDE DEF f1, f2, f3, f4, f5, f6, g6, f7, f8, f9, f10, f11, f12, f13, f14, f15, f16, f17, f18
<1>7. SameButSixth(F, V3Fields(x), V3Fields(y), f6, g6)
    BY <1>3, <1>4, <1>5, <1>6, EighteenFields, Zenon
<1> QED BY <1>7 DEF F, f6, g6

\* What SHA-256 and HMAC are taken for: a number for whatever is hashed, and a
\* different one for different inputs.
IdealHash ==
    /\ \A t : HashOf(t) \in Int
    /\ \A t, u \in Seq(Int) : HashOf(t) = HashOf(u) => t = u

\* The transcript of a session whose authorization hash is x, and its hash.
V3Hash(x) == HashOf(Transcript("kc_v3", V3Fields(x)))

\* Sessions with different authorization hashes have different transcripts.
LEMMA V3Apart ==
    ASSUME IdealHash, NEW x \in Int, NEW y \in Int, x # y
    PROVE  V3Hash(x) \in Int /\ V3Hash(y) \in Int /\ V3Hash(x) # V3Hash(y)
<1> DEFINE e == V3Fields(x)
           f == V3Fields(y)
           v == <<x>>
           w == <<y>>
           a == <<"authz_context_hash", v>>
           b == <<"authz_context_hash", w>>
<1>1. SameButSixth(Labels \X Seq(Int), e, f, a, b)
    BY V3Lists
<1>2. a[2] = v /\ b[2] = w /\ Len(v) = 1 /\ Len(w) = 1 /\ v[1] = x /\ w[1] = y
    OBVIOUS
<1> HIDE DEF a, b, v, w, e, f
<1>3. e \in FieldList /\ f \in FieldList
    BY <1>1 DEF SameButSixth, FieldList
<1>4. OneApart(e, f, 6)
    BY <1>1, <1>2 DEF SameButSixth, OneApart
<1>5. "kc_v3" \in Labels
    BY V3Labels
<1>6. /\ Transcript("kc_v3", e) \in Seq(Int) /\ Transcript("kc_v3", f) \in Seq(Int)
      /\ Transcript("kc_v3", e) # Transcript("kc_v3", f)
    BY <1>3, <1>4, <1>5, TranscriptApart
<1>7. HashOf(Transcript("kc_v3", e)) # HashOf(Transcript("kc_v3", f))
    BY <1>6 DEF IdealHash
<1>8. HashOf(Transcript("kc_v3", e)) \in Int /\ HashOf(Transcript("kc_v3", f)) \in Int
    BY DEF IdealHash
<1> QED BY <1>7, <1>8 DEF V3Hash, e, f

\* The names of keys and tags.
LEMMA V3TagLabels ==
    /\ Code["kc s2c v3"] \in Int /\ Code["kc c2s v3"] \in Int /\ Code["kc complete s2c v3"] \in Int
    /\ Code["server finished"] \in Int /\ Code["client finished"] \in Int
    /\ Code["server complete v3"] \in Int /\ Code["complete_v3"] \in Int
<1>1. /\ DOMAIN Names = 1..49 /\ Names[32] = "server finished" /\ Names[33] = "client finished"
      /\ Names[37] = "complete_v3" /\ Names[38] = "kc s2c v3" /\ Names[39] = "kc c2s v3"
      /\ Names[40] = "kc complete s2c v3" /\ Names[41] = "server complete v3"
    BY DEF Names
<1> HIDE DEF Names
<1>2. \A i \in 1..49 : Code[Names[i]] \in Int
    BY <1>1, CodeInt DEF Labels
<1>3. Code[Names[32]] \in Int /\ Code[Names[33]] \in Int /\ Code[Names[37]] \in Int /\ Code[Names[38]] \in Int
    BY <1>2
<1>4. Code[Names[39]] \in Int /\ Code[Names[40]] \in Int /\ Code[Names[41]] \in Int
    BY <1>2
<1> QED BY <1>1, <1>3, <1>4, Zenon

\* Keys for different transcripts differ.
LEMMA HkdfApart ==
    ASSUME IdealHash, NEW k \in Int, NEW c \in Int, NEW x \in Int, NEW y \in Int, x # y
    PROVE  /\ auth_hkdf_sha256(<<x>>, <<k>>, <<c>>) \in Int /\ auth_hkdf_sha256(<<y>>, <<k>>, <<c>>) \in Int
           /\ auth_hkdf_sha256(<<x>>, <<k>>, <<c>>) # auth_hkdf_sha256(<<y>>, <<k>>, <<c>>)
<1> DEFINE v == <<x>>
           w == <<y>>
           m == <<-2>>
           l == <<k>>
           d == <<c>>
<1>1. v \in Seq(Int) /\ w \in Seq(Int) /\ m \in Seq(Int) /\ l \in Seq(Int) /\ d \in Seq(Int)
    OBVIOUS
<1>2. Apart(v, w, 1)
    BY DEF Apart
<1>3. /\ auth_hkdf_sha256(v, l, d) = HashOf(v \o m \o l \o m \o d)
      /\ auth_hkdf_sha256(w, l, d) = HashOf(w \o m \o l \o m \o d)
    BY DEF auth_hkdf_sha256
<1> HIDE DEF v, w, m, l, d
<1>4. ASSUME NEW r \in Seq(Int), NEW s \in Seq(Int), NEW t \in Seq(Int), Apart(r, s, 1)
      PROVE  r \o t \in Seq(Int) /\ s \o t \in Seq(Int) /\ Apart(r \o t, s \o t, 1)
    BY <1>4, JoinInts, ApartMore
<1> DEFINE v1 == v \o m
           w1 == w \o m
           v2 == v1 \o l
           w2 == w1 \o l
           v3 == v2 \o m
           w3 == w2 \o m
           p == v3 \o d
           q == w3 \o d
<1>5. v1 \in Seq(Int) /\ w1 \in Seq(Int) /\ Apart(v1, w1, 1)
    BY <1>1, <1>2, <1>4
<1> HIDE DEF v1, w1
<1>6. v2 \in Seq(Int) /\ w2 \in Seq(Int) /\ Apart(v2, w2, 1)
    BY <1>1, <1>4, <1>5
<1> HIDE DEF v2, w2
<1>7. v3 \in Seq(Int) /\ w3 \in Seq(Int) /\ Apart(v3, w3, 1)
    BY <1>1, <1>4, <1>6
<1> HIDE DEF v3, w3
<1>9. p \in Seq(Int) /\ q \in Seq(Int) /\ Apart(p, q, 1)
    BY <1>1, <1>4, <1>7
<1> HIDE DEF p, q
<1>8. HashOf(p) # HashOf(q) /\ HashOf(p) \in Int /\ HashOf(q) \in Int
  <2>1. p # q
      BY <1>9 DEF Apart
  <2> QED BY <2>1, <1>9 DEF IdealHash
<1> QED BY <1>3, <1>8 DEF p, q, v1, w1, v2, w2, v3, w3, v, w, l, d

\* Tags under different keys differ.
LEMMA TagApart ==
    ASSUME IdealHash, NEW label, Code[label] \in Int, NEW k \in Int, NEW l \in Int, k # l,
           NEW x \in Int, NEW y \in Int
    PROVE  auth_hmac_tag(k, label, x) # auth_hmac_tag(l, label, y)
<1> DEFINE p == <<k, Code[label], x>>
           q == <<l, Code[label], y>>
<1>1. p \in Seq(Int) /\ q \in Seq(Int) /\ p[1] = k /\ q[1] = l
    OBVIOUS
<1>2. auth_hmac_tag(k, label, x) = HashOf(p) /\ auth_hmac_tag(l, label, y) = HashOf(q)
    BY DEF auth_hmac_tag
<1> HIDE DEF p, q
<1>3. p # q
    BY <1>1
<1> QED BY <1>1, <1>2, <1>3 DEF IdealHash

\* The tags of Tags, in terms of the authorization hash.
TagsOf(th) ==
    LET k == auth_v3_derive_kc_keys(Session.key, th)
        tag_c == auth_v3_finished_tag(k.c2s, "client finished", th)
    IN  <<auth_v3_finished_tag(k.s2c, "server finished", th), tag_c,
          auth_v3_completion_tag(k.complete, auth_v3_completion_hash(th, tag_c))>>
\* Tags depends on the bytes of the context by their hash only.
LEMMA TagsHash ==
    ASSUME NEW f, auth_v3_iot_core_authz_hash_bytes(f).err = "OK"
    PROVE  Tags(f) = TagsOf(V3Hash(HashOf(f)))
<1> DEFINE x == auth_v3_iot_core_authz_hash_bytes(f).hash
           c == [Session.context EXCEPT !.authz_context_hash = x]
<1>1. x = HashOf(f)
    BY DEF auth_v3_iot_core_authz_hash_bytes
<1> HIDE DEF x
<1>2. /\ c.protocol_version = Session.context.protocol_version
      /\ c.suite_id = Session.context.suite_id
      /\ c.profile_id = Session.context.profile_id
      /\ c.selected_capabilities = Session.context.selected_capabilities
      /\ c.session_id = Session.context.session_id /\ c.authz_context_hash = x
      /\ c.critical_extensions_hash = Session.context.critical_extensions_hash
      /\ c.channel_binding_hash = Session.context.channel_binding_hash
    BY SessionAssumption
<1>3. Tags(f) = TagsOf(auth_v3_kc_transcript_hash(c, Session.parts))
    BY DEF Tags, TagsOf, x
<1> HIDE DEF c
<1>4. auth_v3_build_kc_transcript(c, Session.parts) = Transcript("kc_v3", V3Fields(x))
    BY <1>2, Zenon DEF auth_v3_build_kc_transcript, V3Fields
<1>5. auth_v3_kc_transcript_hash(c, Session.parts) = V3Hash(x)
    BY <1>4 DEF auth_v3_kc_transcript_hash, auth_transcript_hash_sha256, V3Hash
<1> QED BY <1>1, <1>3, <1>5

\* Different transcripts, different tags.
LEMMA TagsApart ==
    ASSUME IdealHash, NEW x \in Int, NEW y \in Int, x # y
    PROVE  \A i \in 1..3 : TagsOf(x)[i] # TagsOf(y)[i]
<1> DEFINE k == auth_v3_derive_kc_keys(Session.key, x)
           l == auth_v3_derive_kc_keys(Session.key, y)
<1>1. Session.key \in Int
    BY SessionParts
<1>2. /\ k.s2c \in Int /\ l.s2c \in Int /\ k.s2c # l.s2c
      /\ k.c2s \in Int /\ l.c2s \in Int /\ k.c2s # l.c2s
      /\ k.complete \in Int /\ l.complete \in Int /\ k.complete # l.complete
  <2>1. ASSUME NEW c \in Int
        PROVE  /\ auth_hkdf_sha256(<<x>>, <<Session.key>>, <<c>>) \in Int
               /\ auth_hkdf_sha256(<<y>>, <<Session.key>>, <<c>>) \in Int
               /\ auth_hkdf_sha256(<<x>>, <<Session.key>>, <<c>>) # auth_hkdf_sha256(<<y>>, <<Session.key>>, <<c>>)
      BY <1>1, HkdfApart
  <2>2. /\ k.s2c = auth_hkdf_sha256(<<x>>, <<Session.key>>, <<Code["kc s2c v3"]>>)
        /\ l.s2c = auth_hkdf_sha256(<<y>>, <<Session.key>>, <<Code["kc s2c v3"]>>)
        /\ k.c2s = auth_hkdf_sha256(<<x>>, <<Session.key>>, <<Code["kc c2s v3"]>>)
        /\ l.c2s = auth_hkdf_sha256(<<y>>, <<Session.key>>, <<Code["kc c2s v3"]>>)
        /\ k.complete = auth_hkdf_sha256(<<x>>, <<Session.key>>, <<Code["kc complete s2c v3"]>>)
        /\ l.complete = auth_hkdf_sha256(<<y>>, <<Session.key>>, <<Code["kc complete s2c v3"]>>)
      BY DEF auth_v3_derive_kc_keys
  <2> HIDE DEF k, l
  <2>3. k.s2c \in Int /\ l.s2c \in Int /\ k.s2c # l.s2c
      BY <2>1, <2>2, V3TagLabels
  <2>4. k.c2s \in Int /\ l.c2s \in Int /\ k.c2s # l.c2s
      BY <2>1, <2>2, V3TagLabels
  <2>5. k.complete \in Int /\ l.complete \in Int /\ k.complete # l.complete
      BY <2>1, <2>2, V3TagLabels
  <2> QED BY <2>3, <2>4, <2>5
<1> DEFINE c == auth_hmac_tag(k.c2s, "client finished", x)
           d == auth_hmac_tag(l.c2s, "client finished", y)
           u == HashOf(<<Code["complete_v3"], x, c>>)
           v == HashOf(<<Code["complete_v3"], y, d>>)
<1>3. /\ TagsOf(x) = <<auth_hmac_tag(k.s2c, "server finished", x), c, auth_hmac_tag(k.complete, "server complete v3", u)>>
      /\ TagsOf(y) = <<auth_hmac_tag(l.s2c, "server finished", y), d, auth_hmac_tag(l.complete, "server complete v3", v)>>
    BY DEF TagsOf, auth_v3_finished_tag, auth_v3_completion_tag, auth_v3_completion_hash
<1>4. u \in Int /\ v \in Int
    BY DEF IdealHash
<1> HIDE DEF k, l
<1>5. auth_hmac_tag(k.s2c, "server finished", x) # auth_hmac_tag(l.s2c, "server finished", y)
    BY <1>2, V3TagLabels, TagApart
<1>6. c # d
    BY <1>2, V3TagLabels, TagApart
<1> HIDE DEF u, v, c, d
<1>10. Code["server complete v3"] \in Int
    BY V3TagLabels
<1>7. auth_hmac_tag(k.complete, "server complete v3", u) # auth_hmac_tag(l.complete, "server complete v3", v)
    BY <1>2, <1>4, <1>10, TagApart, Zenon
<1> DEFINE t == TagsOf(x)
           w == TagsOf(y)
           p == auth_hmac_tag(k.s2c, "server finished", x)
           q == auth_hmac_tag(l.s2c, "server finished", y)
           r == auth_hmac_tag(k.complete, "server complete v3", u)
           s == auth_hmac_tag(l.complete, "server complete v3", v)
<1>8. t = <<p, c, r>> /\ w = <<q, d, s>> /\ p # q /\ r # s
    BY <1>3, <1>5, <1>7, Zenon
<1> HIDE DEF t, w, p, q, r, s
<1>9. \A i \in 1..3 : t[i] # w[i]
    BY <1>6, <1>8
<1> QED BY <1>9 DEF t, w

\* Two peers that received f and g.
LEMMA PeersDoAgree ==
    ASSUME IdealHash, NEW f \in Seq(Nat), NEW g \in Seq(Nat)
    PROVE  PeersAgree(f, g)
<1> DEFINE a == auth_hello_decode(f)
           b == auth_hello_decode(g)
           x == auth_negotiate(a, b)
           y == auth_negotiate(b, a)
<1>1. ASSUME auth_v3_iot_core_authz_hash_bytes(f).err = "OK",
             auth_v3_iot_core_authz_hash_bytes(g).err = "OK", f # g
      PROVE  \A i \in 1..3 : Tags(f)[i] # Tags(g)[i]
  <2>1. f \in Seq(Int) /\ g \in Seq(Int)
      OBVIOUS
  <2>2. HashOf(f) \in Int /\ HashOf(g) \in Int /\ HashOf(f) # HashOf(g)
      BY <2>1, <1>1 DEF IdealHash
  <2>3. V3Hash(HashOf(f)) \in Int /\ V3Hash(HashOf(g)) \in Int /\ V3Hash(HashOf(f)) # V3Hash(HashOf(g))
      BY <2>2, V3Apart
  <2>4. Tags(f) = TagsOf(V3Hash(HashOf(f))) /\ Tags(g) = TagsOf(V3Hash(HashOf(g)))
      BY <1>1, TagsHash
  <2> QED BY <2>3, <2>4, TagsApart
<1>2. ASSUME a.err = "OK", b.err = "OK"
      PROVE  SameVerdict(a, b, x, y) /\ auth_hello_decode(auth_hello_encode(a).out) = a
  <2>1. a \in Greeting /\ b \in Greeting
      BY <1>2, HelloAccepted
  <2> HIDE DEF a, b
  <2>2. SameVerdict(a, b, x, y)
      BY <2>1, NegotiationAgrees
  <2>3. auth_hello_decode(auth_hello_encode(a).out) = a
      BY <2>1, <1>2, HelloRoundTrip
  <2> QED BY <2>2, <2>3
<1> QED BY <1>1, <1>2 DEF PeersAgree, SameVerdict

-----------------------------------------------------------------------------
(* The theorems.                                                           *)

\* However the kernel cuts the stream, and wherever a send, a poll or a recv
\* fails, the cells of the stream are those of the frames sent, in their order,
\* and the fields auth_tcp_recv reads are where they begin.
THEOREM StreamInvariant == Spec => []StreamInv
<1>1. Init => StreamInv
    BY InitStream
<1>2. StreamInv /\ [Next]_vars => StreamInv'
  <2> SUFFICES ASSUME StreamInv, [Next]_vars PROVE StreamInv'
      OBVIOUS
  <2>1. CASE auth_tcp_send
      BY <2>1, SendStep
  <2>2. CASE Close
      BY <2>2, CloseStep
  <2>3. CASE EndOfStream
      BY <2>3, EndStep
  <2>4. CASE Timeout
      BY <2>4, TimeoutStep
  <2>8. CASE RecvFails
      BY <2>8, RecvFailsStep
  <2>5. ASSUME NEW n \in Chunks, write_all(n) PROVE StreamInv'
      BY <2>5, WriteStep
  <2>6. ASSUME NEW n \in Chunks, read_all(n) PROVE StreamInv'
      BY <2>6, ReadStep
  <2>7. CASE UNCHANGED vars
      BY <2>7 DEF vars, StreamInv, TypeOK, SenderInv, ReaderInv, VerdictInv, Cells, Fields
  <2> QED BY <2>1, <2>2, <2>3, <2>4, <2>5, <2>6, <2>7, <2>8 DEF Next
<1> QED BY <1>1, <1>2, PTL DEF Spec

\* auth_tcp_recv returns the frames auth_tcp_send was given, in order and
\* unchanged, whatever the pieces in which they travel.  When it reports
\* AUTH_ERR_IO although none of its own poll and recv calls failed and the sender
\* did not stop within a frame, it has returned all of them; it reports a torn
\* field only when the sender stopped within a frame, and an oversize frame only
\* where there was one.
THEOREM FramesArriveInOrder == Spec => []FramesInOrder
<1>1. StreamInv => FramesInOrder
  <2> SUFFICES ASSUME StreamInv PROVE FramesInOrder
      OBVIOUS
  <2>1. got \in Seq(Frame) /\ handed \in Seq(Frame)
      BY DEF StreamInv, TypeOK
  <2>2. Len(got) \in Nat /\ Len(got) <= Len(handed) /\ \A i \in 1..Len(got) : got[i] = handed[i]
      BY <2>1 DEF StreamInv
  <2>3. SubSeq(got, 1, Len(got)) = SubSeq(handed, 1, Len(got))
    <3> DEFINE a == SubSeq(got, 1, Len(got))
               b == SubSeq(handed, 1, Len(got))
    <3>1. a \in Seq(Frame) /\ Len(a) = Len(got) /\ \A i \in 1..Len(got) : a[i] = got[i]
        BY <2>1, <2>2
    <3>2. b \in Seq(Frame) /\ Len(b) = Len(got) /\ \A i \in 1..Len(got) : b[i] = handed[i]
        BY <2>1, <2>2
    <3> HIDE DEF a, b
    <3>3. a = b
        BY <3>1, <3>2, <2>2, SameCells
    <3> QED BY <3>3 DEF a, b
  <2>4. IsPrefix(got, handed)
      BY <2>2, <2>3 DEF IsPrefix
  <2> QED BY <2>4 DEF StreamInv, VerdictInv, FramesInOrder
<1> QED BY <1>1, StreamInvariant, PTL

\* Whatever bytes arrive, auth_v3_context_parse_bytes and
\* auth_v3_iot_core_authz_decode_bytes accept only the canonical encoding of
\* what they return, every valid context parses to itself, and attribution
\* finds only the one record that states exactly the decoded context.
THEOREM DecodingIsCanonical == Spec => []CanonicalDecoding
<1>1. StreamInv => CanonicalDecoding
  <2> SUFFICES ASSUME StreamInv, NEW i \in DOMAIN got
               PROVE  ContextCanonical(got[i]) /\ AuthzCanonical(got[i])
      BY DEF CanonicalDecoding
  <2>1. got \in Seq(Frame)
      BY DEF StreamInv, TypeOK
  <2>2. got[i] \in Seq(Nat)
      BY <2>1 DEF Frame
  <2> QED BY <2>2, ContextIsCanonical, AuthzIsCanonical
<1> QED BY <1>1, StreamInvariant, PTL

\* Moreover, with an ideal hash, two peers that hold different authorization
\* contexts agree on no tag of AUTH v3, and two that exchange their HELLOs come
\* to the same verdict of auth_negotiate, from what auth_hello_decode gives back
\* as auth_hello_encode wrote it.
THEOREM DecodingIsStrict == IdealHash => (Spec => []StrictDecoding)
<1> SUFFICES ASSUME IdealHash PROVE Spec => []StrictDecoding
    OBVIOUS
<1>1. StreamInv => StrictDecoding
  <2> SUFFICES ASSUME StreamInv PROVE StrictDecoding
      OBVIOUS
  <2>1. got \in Seq(Frame)
      BY DEF StreamInv, TypeOK
  <2>2. \A i \in DOMAIN got : got[i] \in Seq(Nat)
      BY <2>1 DEF Frame
  <2>3. CanonicalDecoding
      BY <2>2, ContextIsCanonical, AuthzIsCanonical DEF CanonicalDecoding
  <2>4. \A i, j \in DOMAIN got : PeersAgree(got[i], got[j])
      BY <2>2, PeersDoAgree
  <2> QED BY <2>3, <2>4 DEF StrictDecoding
<1> QED BY <1>1, StreamInvariant, PTL
=============================================================================
