-------------------------- MODULE Handshake_proofs ---------------------------
(***************************************************************************)
(* Key confirmation, for every draw, every list of roles and every number  *)
(* of altered fields and forged acknowledgements, with a hash that is taken *)
(* as ideal.                                                               *)
(***************************************************************************)
EXTENDS Handshake, TLAPS, WellFoundedInduction

-----------------------------------------------------------------------------
(* Transcripts.                                                            *)

\* What altering a number up to n times by 1 or by Q may add to it.
Drift(n) == {d \in Int : \E i, j \in Nat : i + j <= n /\ d = i + j * Q}

\* What SHA-256 and HMAC are taken for: a number for whatever is hashed, a
\* different one for different inputs, and neither a value altered up to
\* MaxDamage times nor a field that is nothing but such alterations of zero is
\* the value of another input.
IdealHash ==
    /\ \A t : HashOf(t) \in Int
    /\ \A t, u \in Seq(Int) : \A d \in Drift(MaxDamage) :
          HashOf(t) # d /\ (HashOf(t) = HashOf(u) + d => t = u)

Point == {p \in Seq(Int) : Len(p) = 2}
Cell == {c \in Seq(Int) : Len(c) \in {1, 2}}
Labels == {Names[i] : i \in DOMAIN Names}

\* A set of numbers that holds 0, and with a number below n the next one,
\* holds all up to n.
LEMMA UpTo ==
    ASSUME NEW n \in Nat, NEW S, 0 \in S, \A i \in 0..n : i < n /\ i \in S => i + 1 \in S
    PROVE  \A i \in 0..n : i \in S
<1> DEFINE missing == {i \in 0..n : i \notin S}
<1>1. SUFFICES ASSUME missing # {} PROVE FALSE
    OBVIOUS
<1>2. missing \subseteq Nat
    OBVIOUS
<1> HIDE DEF missing
<1>3. PICK x \in missing : \A y \in missing : ~(<<y, x>> \in OpToRel(<, Nat))
    BY <1>1, <1>2, WFMin, NatLessThanWellFounded, Zenon
<1>4. \A y \in missing : ~(y < x)
    BY <1>2, <1>3 DEF OpToRel
<1> USE DEF missing
<1>5. x \in 0..n /\ x \notin S /\ x # 0
    OBVIOUS
<1>6. x - 1 \in 0..n /\ x - 1 < n /\ (x - 1) + 1 = x
    BY <1>5
<1>7. x - 1 \in S
    BY <1>4, <1>6
<1> QED BY <1>5, <1>6, <1>7

\* Every name has a number.
LEMMA CodeInt ==
    ASSUME NEW l \in Labels
    PROVE  Code[l] \in Int
<1>1. DOMAIN Names \subseteq Int
    BY DEF Names
<1>2. \E i \in DOMAIN Names : Names[i] = l
    BY DEF Labels
<1>3. Code[l] = CHOOSE i \in DOMAIN Names : Names[i] = l
    BY DEF Code, Labels
<1> QED BY <1>1, <1>2, <1>3

LEMMA KcLabels ==
    /\ "kc_v2" \in Labels /\ "pid" \in Labels /\ "a_c" \in Labels /\ "s_c" \in Labels
    /\ "nonce_c" \in Labels /\ "eph_c" \in Labels /\ "server_pub" \in Labels /\ "a_s" \in Labels
    /\ "s_s" \in Labels /\ "nonce_s" \in Labels /\ "eph_s" \in Labels
<1>1. /\ DOMAIN Names = 1..49 /\ Names[6] = "kc_v2" /\ Names[4] = "pid" /\ Names[25] = "a_c"
      /\ Names[26] = "s_c" /\ Names[19] = "nonce_c" /\ Names[20] = "eph_c" /\ Names[13] = "server_pub"
      /\ Names[27] = "a_s" /\ Names[28] = "s_s" /\ Names[21] = "nonce_s" /\ Names[22] = "eph_s"
    BY DEF Names
<1> HIDE DEF Names
<1> QED BY <1>1 DEF Labels

\* One append to a transcript.
LEMMA AppendSeq ==
    ASSUME NEW t \in Seq(Int), NEW f \in Labels \X Seq(Int)
    PROVE  auth_transcript_append(t, f[1], f[2]) \in Seq(Int)
<1>1. Code[f[1]] \in Int /\ f[2] \in Seq(Int) /\ Len(f[2]) \in Int
    BY CodeInt
<1>2. <<Code[f[1]], Len(f[2])>> \in Seq(Int)
    BY <1>1
<1> QED BY <1>1, <1>2 DEF auth_transcript_append

\* The transcript after every append.
Follows(t, n, domain, fields) ==
    /\ t[0] = auth_transcript_init(domain)
    /\ \A i \in 1..n : t[i] = auth_transcript_append(t[i - 1], fields[i][1], fields[i][2])

\* Transcript is the last of the steps that append its fields in order.
LEMMA TranscriptSteps ==
    ASSUME NEW domain \in Labels, NEW fields \in Seq(Labels \X Seq(Int))
    PROVE  \E t \in [0..Len(fields) -> Seq(Int)] :
               Follows(t, Len(fields), domain, fields) /\ Transcript(domain, fields) = t[Len(fields)]
<1> DEFINE n == Len(fields)
           init == auth_transcript_init(domain)
           add(s, i) == auth_transcript_append(s, fields[i][1], fields[i][2])
           S == {k \in 0..n : \E f \in [0..k -> Seq(Int)] : Follows(f, k, domain, fields)}
<1>1. n \in Nat
    OBVIOUS
<1>2. init \in Seq(Int)
    BY CodeInt DEF auth_transcript_init
<1>3. \A i \in 1..n : \A s \in Seq(Int) : add(s, i) \in Seq(Int)
  <2>1. ASSUME NEW i \in 1..n PROVE fields[i] \in Labels \X Seq(Int)
      OBVIOUS
  <2> QED BY <2>1, AppendSeq
<1> HIDE DEF n
<1>4. 0 \in S
  <2> DEFINE f == [i \in 0..0 |-> init]
  <2>1. f \in [0..0 -> Seq(Int)] /\ f[0] = init
      BY <1>2
  <2>2. Follows(f, 0, domain, fields)
      BY <2>1 DEF Follows
  <2> QED BY <2>1, <2>2, <1>1
<1>5. ASSUME NEW k \in 0..n, k < n, k \in S
      PROVE  k + 1 \in S
  <2>1. PICK f \in [0..k -> Seq(Int)] : Follows(f, k, domain, fields)
      BY <1>5
  <2> DEFINE e == [i \in 0..k + 1 |-> IF i = k + 1 THEN add(f[k], k + 1) ELSE f[i]]
  <2>2. k \in Nat /\ k + 1 \in 1..n /\ f[k] \in Seq(Int)
      BY <1>1, <1>5
  <2>3. add(f[k], k + 1) \in Seq(Int)
      BY <2>2, <1>3
  <2> HIDE DEF add
  <2>4. e \in [0..k + 1 -> Seq(Int)]
      BY <2>2, <2>3
  <2>5. e[k + 1] = add(f[k], k + 1) /\ \A i \in 0..k : e[i] = f[i]
      BY <2>2
  <2> HIDE DEF e
  <2>6. e[0] = auth_transcript_init(domain)
      BY <2>1, <2>2, <2>5 DEF Follows
  <2>7. ASSUME NEW i \in 1..k + 1 PROVE e[i] = add(e[i - 1], i)
    <3>1. CASE i = k + 1
        BY <3>1, <2>2, <2>5
    <3>2. CASE i # k + 1
      <4>1. i \in 1..k /\ i - 1 \in 0..k /\ i \in 0..k
          BY <3>2, <2>2
      <4>2. f[i] = add(f[i - 1], i)
          BY <4>1, <2>1 DEF Follows, add
      <4> QED BY <4>1, <4>2, <2>5
    <3> QED BY <3>1, <3>2
  <2>8. Follows(e, k + 1, domain, fields)
      BY <2>6, <2>7 DEF Follows, add
  <2>9. k + 1 \in 0..n
      BY <2>2
  <2> QED BY <2>4, <2>8, <2>9
<1>6. n \in S
  <2> HIDE DEF S
  <2>1. \A i \in 0..n : i < n /\ i \in S => i + 1 \in S
      BY <1>5
  <2>2. \A i \in 0..n : i \in S
      BY <2>1, <1>1, <1>4, UpTo, Zenon
  <2> QED BY <2>2, <1>1
<1>7. PICK f \in [0..n -> Seq(Int)] : Follows(f, n, domain, fields)
    BY <1>6
<1> HIDE DEF S
<1> DEFINE Body(g) == [i \in 0..n |-> IF i = 0 THEN init ELSE add(g[i - 1], i)]
           t == CHOOSE g : g = Body(g)
<1>8. f = Body(f)
  <2>1. ASSUME NEW i \in 0..n PROVE f[i] = IF i = 0 THEN init ELSE add(f[i - 1], i)
      BY <1>1, <1>7 DEF Follows
  <2> QED BY <2>1
<1>9. t = Body(t)
  <2> HIDE DEF Body
  <2> QED BY <1>8
<1>10. Transcript(domain, fields) = t[n]
    BY DEF Transcript, n
<1> HIDE DEF t
<1>11. \A i \in 0..n : t[i] = IF i = 0 THEN init ELSE add(t[i - 1], i)
    BY <1>9
<1> DEFINE R == {i \in 0..n : t[i] = f[i]}
<1>12. 0 \in R
    BY <1>1, <1>7, <1>11 DEF Follows
<1>13. ASSUME NEW i \in 0..n, i < n, i \in R PROVE i + 1 \in R
  <2>1. i + 1 \in 0..n /\ i + 1 \in 1..n /\ i + 1 # 0 /\ (i + 1) - 1 = i
      BY <1>1, <1>13
  <2>2. t[i + 1] = add(t[i], i + 1)
      BY <2>1, <1>11
  <2>3. f[i + 1] = add(f[i], i + 1)
      BY <2>1, <1>7 DEF Follows
  <2> QED BY <2>1, <2>2, <2>3, <1>13
<1>14. n \in R
  <2> HIDE DEF R
  <2>1. \A i \in 0..n : i < n /\ i \in R => i + 1 \in R
      BY <1>13
  <2>2. \A i \in 0..n : i \in R
      BY <2>1, <1>1, <1>12, UpTo, Zenon
  <2> QED BY <2>2, <1>1
<1> QED BY <1>7, <1>10, <1>14 DEF n

\* The cells of a concatenation.
LEMMA ConcatCells ==
    ASSUME NEW p \in Seq(Int), NEW q \in Seq(Int)
    PROVE  /\ p \o q \in Seq(Int) /\ Len(p \o q) = Len(p) + Len(q)
           /\ Len(p) \in Nat /\ Len(q) \in Nat
           /\ \A k \in 1..Len(p) : (p \o q)[k] = p[k]
           /\ \A k \in 1..Len(q) : (p \o q)[Len(p) + k] = q[k]
OBVIOUS

\* Two sequences with the same cells are the same.
LEMMA SameCells ==
    ASSUME NEW p \in Seq(Int), NEW q \in Seq(Int), Len(p) = Len(q),
           \A k \in 1..Len(p) : p[k] = q[k]
    PROVE  p = q
OBVIOUS

\* Two pieces of the same length are told apart in what they are part of.
LEMMA ConcatSplits ==
    ASSUME NEW p \in Seq(Int), NEW q \in Seq(Int), NEW u \in Seq(Int), NEW v \in Seq(Int),
           Len(q) = Len(v), p \o q = u \o v
    PROVE  p = u
<1> DEFINE z == p \o q
<1>1. /\ Len(z) = Len(p) + Len(q) /\ Len(p) \in Nat /\ Len(q) \in Nat
      /\ \A k \in 1..Len(p) : z[k] = p[k]
      /\ \A k \in 1..Len(q) : z[Len(p) + k] = q[k]
    BY ConcatCells
<1>2. /\ Len(z) = Len(u) + Len(v) /\ Len(u) \in Nat
      /\ \A k \in 1..Len(u) : z[k] = u[k]
      /\ \A k \in 1..Len(v) : z[Len(u) + k] = v[k]
  <2>1. z = u \o v
      OBVIOUS
  <2> HIDE DEF z
  <2> DEFINE w == u \o v
  <2>2. /\ Len(w) = Len(u) + Len(v) /\ Len(u) \in Nat
        /\ \A k \in 1..Len(u) : w[k] = u[k]
        /\ \A k \in 1..Len(v) : w[Len(u) + k] = v[k]
      BY ConcatCells
  <2> HIDE DEF w
  <2> QED BY <2>1, <2>2 DEF w
<1> HIDE DEF z
<1>3. Len(p) = Len(u)
    BY <1>1, <1>2
<1>4. \A i \in 1..Len(p) : p[i] = u[i]
    BY <1>1, <1>2, <1>3
<1> QED BY <1>3, <1>4, SameCells, Zenon

LEMMA ConcatRest ==
    ASSUME NEW p \in Seq(Int), NEW q \in Seq(Int), NEW u \in Seq(Int), NEW v \in Seq(Int),
           Len(q) = Len(v), p \o q = u \o v
    PROVE  q = v
<1>1. p = u
    BY ConcatSplits
<1>2. p \o q = p \o v
    BY <1>1
<1>3. \A i \in 1..Len(q) : (p \o q)[Len(p) + i] = q[i]
    BY ConcatCells
<1>4. \A i \in 1..Len(q) : (p \o v)[Len(p) + i] = v[i]
    BY ConcatCells
<1>5. \A i \in 1..Len(q) : q[i] = v[i]
    BY <1>2, <1>3, <1>4, Zenon
<1> QED BY <1>5, SameCells, Zenon

\* Two transcripts of the same fields, each with a value of the same length,
\* differ where a value differs.
LEMMA TranscriptInjective ==
    ASSUME NEW domain \in Labels, NEW e \in Seq(Labels \X Seq(Int)), NEW f \in Seq(Labels \X Seq(Int)),
           Len(e) = Len(f), \A i \in 1..Len(e) : Len(e[i][2]) = Len(f[i][2]),
           Transcript(domain, e) = Transcript(domain, f)
    PROVE  \A i \in 1..Len(e) : e[i][2] = f[i][2]
<1> DEFINE n == Len(e)
<1>1. PICK t \in [0..n -> Seq(Int)] : Follows(t, n, domain, e) /\ Transcript(domain, e) = t[n]
    BY TranscriptSteps, Zenon
<1>2. PICK u \in [0..n -> Seq(Int)] : Follows(u, n, domain, f) /\ Transcript(domain, f) = u[n]
  <2>1. \E w \in [0..Len(f) -> Seq(Int)] : Follows(w, Len(f), domain, f) /\ Transcript(domain, f) = w[Len(f)]
      BY TranscriptSteps, Zenon
  <2> QED BY <2>1
<1>3. n \in Nat
    OBVIOUS
<1>4. ASSUME NEW i \in 1..n, t[i] = u[i]
      PROVE  t[i - 1] = u[i - 1] /\ e[i][2] = f[i][2]
  <2>1. e[i] \in Labels \X Seq(Int) /\ f[i] \in Labels \X Seq(Int) /\ Len(e[i][2]) = Len(f[i][2])
      OBVIOUS
  <2>2. Code[e[i][1]] \in Int /\ e[i][2] \in Seq(Int) /\ Code[f[i][1]] \in Int /\ f[i][2] \in Seq(Int)
      BY <2>1, CodeInt
  <2> DEFINE c == <<Code[e[i][1]], Len(e[i][2])>>
             d == <<Code[f[i][1]], Len(f[i][2])>>
             x == e[i][2]
             y == f[i][2]
             a == t[i - 1]
             b == u[i - 1]
  <2>3. c \in Seq(Int) /\ d \in Seq(Int) /\ Len(c) = Len(d)
    <3>1. ASSUME NEW v \in Int, NEW w \in Int PROVE <<v, w>> \in Seq(Int) /\ Len(<<v, w>>) = 2
        OBVIOUS
    <3>2. Len(e[i][2]) \in Int /\ Len(f[i][2]) \in Int
        BY <2>2
    <3> QED BY <3>1, <3>2, <2>2
  <2>4. a \in Seq(Int) /\ b \in Seq(Int)
    <3>1. i - 1 \in 0..n
        BY <1>3
    <3> QED BY <3>1
  <2>5. t[i] = a \o c \o x /\ u[i] = b \o d \o y
      BY <1>1, <1>2 DEF Follows, auth_transcript_append
  <2>6. x \in Seq(Int) /\ y \in Seq(Int) /\ Len(x) = Len(y)
      BY <2>1, <2>2
  <2>7. (a \o c) \o x = (b \o d) \o y
      BY <2>5, <1>4
  <2> HIDE DEF a, b, c, d, x, y
  <2>8. a \o c \in Seq(Int) /\ b \o d \in Seq(Int)
      BY <2>3, <2>4
  <2>9. a \o c = b \o d /\ x = y
    <3> DEFINE p == a \o c
               q == b \o d
    <3>1. p \in Seq(Int) /\ q \in Seq(Int) /\ p \o x = q \o y
        BY <2>7, <2>8
    <3> HIDE DEF p, q
    <3>2. p = q
        BY <3>1, <2>6, ConcatSplits
    <3>3. x = y
        BY <3>1, <2>6, ConcatRest
    <3> QED BY <3>2, <3>3 DEF p, q
  <2>10. a = b
      BY <2>3, <2>4, <2>9, ConcatSplits
  <2> QED BY <2>9, <2>10 DEF a, b, x, y
<1> HIDE DEF n
<1> DEFINE S == {i \in 0..n : t[n - i] = u[n - i]}
<1>5. 0 \in S
  <2>1. n - 0 = n /\ 0 \in 0..n
      BY <1>3
  <2>2. t[n] = u[n]
      BY <1>1, <1>2, Zenon
  <2> QED BY <2>1, <2>2
<1>6. \A i \in 0..n : i < n /\ i \in S => i + 1 \in S
  <2> SUFFICES ASSUME NEW i \in 0..n, i < n, i \in S PROVE i + 1 \in S
      OBVIOUS
  <2>1. n - i \in 1..n /\ (n - i) - 1 = n - (i + 1) /\ i + 1 \in 0..n
      BY <1>3
  <2>2. t[n - i] = u[n - i]
      OBVIOUS
  <2>3. t[(n - i) - 1] = u[(n - i) - 1]
      BY <2>1, <2>2, <1>4
  <2> QED BY <2>1, <2>3
<1>7. \A i \in 0..n : i \in S
  <2> HIDE DEF S
  <2> QED BY <1>3, <1>5, <1>6, UpTo, Zenon
<1>8. ASSUME NEW i \in 1..n PROVE e[i][2] = f[i][2]
  <2>1. n - i \in 0..n /\ n - (n - i) = i
      BY <1>3
  <2>2. t[i] = u[i]
      BY <2>1, <1>7
  <2> QED BY <2>2, <1>4
<1> QED BY <1>8 DEF n

-----------------------------------------------------------------------------
(* Key confirmation.                                                       *)

\* The arguments of auth_kc_transcript_hash, and its fields.
KcTyped(ac, cp, server_pub, sp, nonce_s, eph_s) ==
    /\ ac.pid \in Int /\ cp.a \in Point /\ cp.s \in Int /\ ac.nonce_c \in Int /\ ac.eph_c \in Point
    /\ server_pub \in Point /\ sp.a \in Point /\ sp.s \in Int /\ nonce_s \in Int /\ eph_s \in Point
KcFields(ac, cp, server_pub, sp, nonce_s, eph_s) ==
    << <<"pid", <<ac.pid>> >>, <<"a_c", cp.a>>, <<"s_c", <<cp.s>> >>,
       <<"nonce_c", <<ac.nonce_c>> >>, <<"eph_c", ac.eph_c>>, <<"server_pub", server_pub>>,
       <<"a_s", sp.a>>, <<"s_s", <<sp.s>> >>, <<"nonce_s", <<nonce_s>> >>, <<"eph_s", eph_s>> >>

\* Ten fields are a list of fields.
LEMMA TenFields ==
    ASSUME NEW S, NEW a \in S, NEW b \in S, NEW c \in S, NEW d \in S, NEW e \in S,
           NEW f \in S, NEW g \in S, NEW h \in S, NEW k \in S, NEW l \in S,
           NEW t, t = <<a, b, c, d, e, f, g, h, k, l>>
    PROVE  /\ t \in Seq(S) /\ Len(t) = 10
           /\ t[1] = a /\ t[2] = b /\ t[3] = c /\ t[4] = d /\ t[5] = e
           /\ t[6] = f /\ t[7] = g /\ t[8] = h /\ t[9] = k /\ t[10] = l
OBVIOUS

\* The fields of the transcript and the lengths of their values, which do not
\* depend on the values.
KcList(t, ac, cp, pub, sp, ns, es) ==
    /\ t \in Seq(Labels \X Seq(Int)) /\ Len(t) = 10
    /\ t[1][2] = <<ac.pid>> /\ t[2][2] = cp.a /\ t[3][2] = <<cp.s>> /\ t[4][2] = <<ac.nonce_c>>
    /\ t[5][2] = ac.eph_c /\ t[6][2] = pub /\ t[7][2] = sp.a /\ t[8][2] = <<sp.s>>
    /\ t[9][2] = <<ns>> /\ t[10][2] = es
    /\ \A i \in 1..10 : Len(t[i][2]) = IF i \in {1, 3, 4, 8, 9} THEN 1 ELSE 2
LEMMA KcFieldList ==
    ASSUME NEW ac, NEW cp, NEW pub, NEW sp, NEW ns, NEW es, KcTyped(ac, cp, pub, sp, ns, es),
           NEW t, t = KcFields(ac, cp, pub, sp, ns, es)
    PROVE  KcList(t, ac, cp, pub, sp, ns, es)
<1>1. /\ ac.pid \in Int /\ cp.a \in Point /\ cp.s \in Int /\ ac.nonce_c \in Int /\ ac.eph_c \in Point
      /\ pub \in Point /\ sp.a \in Point /\ sp.s \in Int /\ ns \in Int /\ es \in Point
    BY DEF KcTyped
<1>2. ASSUME NEW x \in Int PROVE <<x>> \in Seq(Int) /\ Len(<<x>>) = 1
    OBVIOUS
<1>3. ASSUME NEW p \in Point PROVE p \in Seq(Int) /\ Len(p) = 2
    BY DEF Point
<1>4. ASSUME NEW l \in Labels, NEW v \in Seq(Int)
      PROVE  <<l, v>> \in Labels \X Seq(Int) /\ <<l, v>>[2] = v
    OBVIOUS
<1> DEFINE F == Labels \X Seq(Int)
<1>5. /\ <<"pid", <<ac.pid>> >> \in F /\ <<"a_c", cp.a>> \in F /\ <<"s_c", <<cp.s>> >> \in F
      /\ <<"nonce_c", <<ac.nonce_c>> >> \in F /\ <<"eph_c", ac.eph_c>> \in F
      /\ <<"server_pub", pub>> \in F /\ <<"a_s", sp.a>> \in F /\ <<"s_s", <<sp.s>> >> \in F
      /\ <<"nonce_s", <<ns>> >> \in F /\ <<"eph_s", es>> \in F
    BY <1>1, <1>2, <1>3, <1>4, KcLabels
<1> HIDE DEF F
<1>6. /\ t \in Seq(F) /\ Len(t) = 10
      /\ t[1] = <<"pid", <<ac.pid>> >> /\ t[2] = <<"a_c", cp.a>> /\ t[3] = <<"s_c", <<cp.s>> >>
      /\ t[4] = <<"nonce_c", <<ac.nonce_c>> >> /\ t[5] = <<"eph_c", ac.eph_c>>
      /\ t[6] = <<"server_pub", pub>> /\ t[7] = <<"a_s", sp.a>> /\ t[8] = <<"s_s", <<sp.s>> >>
      /\ t[9] = <<"nonce_s", <<ns>> >> /\ t[10] = <<"eph_s", es>>
  <2> DEFINE f1 == <<"pid", <<ac.pid>> >>
             f2 == <<"a_c", cp.a>>
             f3 == <<"s_c", <<cp.s>> >>
             f4 == <<"nonce_c", <<ac.nonce_c>> >>
             f5 == <<"eph_c", ac.eph_c>>
             f6 == <<"server_pub", pub>>
             f7 == <<"a_s", sp.a>>
             f8 == <<"s_s", <<sp.s>> >>
             f9 == <<"nonce_s", <<ns>> >>
             f10 == <<"eph_s", es>>
  <2>1. t = <<f1, f2, f3, f4, f5, f6, f7, f8, f9, f10>>
      BY DEF KcFields
  <2>2. /\ f1 \in F /\ f2 \in F /\ f3 \in F /\ f4 \in F /\ f5 \in F
        /\ f6 \in F /\ f7 \in F /\ f8 \in F /\ f9 \in F /\ f10 \in F
      BY <1>5
  <2> HIDE DEF f1, f2, f3, f4, f5, f6, f7, f8, f9, f10
  <2>3. /\ t \in Seq(F) /\ Len(t) = 10
        /\ t[1] = f1 /\ t[2] = f2 /\ t[3] = f3 /\ t[4] = f4 /\ t[5] = f5
        /\ t[6] = f6 /\ t[7] = f7 /\ t[8] = f8 /\ t[9] = f9 /\ t[10] = f10
      BY <2>1, <2>2, TenFields
  <2> QED BY <2>3 DEF f1, f2, f3, f4, f5, f6, f7, f8, f9, f10
<1>7. /\ t[1][2] = <<ac.pid>> /\ t[2][2] = cp.a /\ t[3][2] = <<cp.s>> /\ t[4][2] = <<ac.nonce_c>>
      /\ t[5][2] = ac.eph_c /\ t[6][2] = pub /\ t[7][2] = sp.a /\ t[8][2] = <<sp.s>>
      /\ t[9][2] = <<ns>> /\ t[10][2] = es
    BY <1>6
<1>8. /\ Len(t[1][2]) = 1 /\ Len(t[2][2]) = 2 /\ Len(t[3][2]) = 1 /\ Len(t[4][2]) = 1
      /\ Len(t[5][2]) = 2 /\ Len(t[6][2]) = 2 /\ Len(t[7][2]) = 2 /\ Len(t[8][2]) = 1
      /\ Len(t[9][2]) = 1 /\ Len(t[10][2]) = 2
    BY <1>1, <1>2, <1>3, <1>7
<1>9. ASSUME NEW i \in 1..10 PROVE Len(t[i][2]) = IF i \in {1, 3, 4, 8, 9} THEN 1 ELSE 2
  <2>1. i = 1 \/ i = 2 \/ i = 3 \/ i = 4 \/ i = 5 \/ i = 6 \/ i = 7 \/ i = 8 \/ i = 9 \/ i = 10
      OBVIOUS
  <2> QED BY <2>1, <1>8
<1> QED BY <1>6, <1>7, <1>9 DEF F, KcList

LEMMA Constants ==
    /\ Q \in Nat /\ Q # 0 /\ MaxDamage \in Nat
    /\ Random \in [DrawNames -> Int] /\ Roles \subseteq Int /\ AllowedLists \subseteq Seq(Int)
    /\ Token \in Seq(Seq(Int)) /\ \A i \in DOMAIN Token : Len(Token[i]) \in {1, 2}
BY HandshakeAssumption

LEMMA DriftFacts ==
    ASSUME NEW n \in Nat
    PROVE  /\ 0 \in Drift(n)
           /\ \A d \in Drift(n) : d \in Int /\ d + 1 \in Drift(n + 1) /\ d + Q \in Drift(n + 1)
<1>1. 0 \in Drift(n)
  <2>1. 0 + 0 <= n /\ 0 = 0 + 0 * Q
      BY Constants
  <2> QED BY <2>1 DEF Drift
<1>2. ASSUME NEW d \in Drift(n)
      PROVE  d \in Int /\ d + 1 \in Drift(n + 1) /\ d + Q \in Drift(n + 1)
  <2>1. PICK i \in Nat, j \in Nat : i + j <= n /\ d = i + j * Q
      BY DEF Drift
  <2>2. j * Q \in Int /\ (j + 1) * Q = j * Q + Q
      BY Constants
  <2>3. (i + 1) + j <= n + 1 /\ d + 1 = (i + 1) + j * Q
      BY <2>1, <2>2
  <2>4. i + (j + 1) <= n + 1 /\ d + Q = i + (j + 1) * Q
      BY <2>1, <2>2, Constants
  <2>5. d \in Int /\ d + 1 \in Int /\ d + Q \in Int
      BY <2>1, <2>2, Constants
  <2>6. i + 1 \in Nat /\ j + 1 \in Nat
      OBVIOUS
  <2>7. d + 1 \in Drift(n + 1)
      BY <2>3, <2>5, <2>6 DEF Drift
  <2>8. d + Q \in Drift(n + 1)
      BY <2>4, <2>5, <2>6 DEF Drift
  <2> QED BY <2>5, <2>7, <2>8
<1> QED BY <1>1, <1>2

LEMMA DriftGrows ==
    ASSUME NEW m \in Nat, NEW n \in Nat, m <= n
    PROVE  Drift(m) \subseteq Drift(n)
<1> SUFFICES ASSUME NEW d \in Drift(m) PROVE d \in Drift(n)
    OBVIOUS
<1>1. PICK i \in Nat, j \in Nat : i + j <= m /\ d = i + j * Q
    BY DEF Drift
<1>2. i + j <= n
    BY <1>1
<1>3. d \in Int
    BY DEF Drift
<1> QED BY <1>1, <1>2, <1>3 DEF Drift

\* A hash is a number, and one input only has it.
LEMMA HashFacts ==
    ASSUME IdealHash, NEW t \in Seq(Int), NEW u \in Seq(Int)
    PROVE  HashOf(t) \in Int /\ (HashOf(t) = HashOf(u) => t = u)
<1>1. 0 \in Drift(MaxDamage)
    BY Constants, DriftFacts
<1>2. /\ HashOf(t) \in Int /\ HashOf(u) \in Int
      /\ HashOf(t) = HashOf(u) + 0 => t = u
    BY <1>1 DEF IdealHash
<1>3. HashOf(u) + 0 = HashOf(u)
    BY <1>2
<1> QED BY <1>2, <1>3

\* The fields that key confirmation covers.
SameContext(ac, cp, bc, bp) ==
    /\ ac.pid = bc.pid /\ cp.a = bp.a /\ cp.s = bp.s /\ ac.nonce_c = bc.nonce_c
    /\ ac.eph_c = bc.eph_c

\* Equal key confirmation hashes are of equal values: both sides saw the same
\* pid, client proof, nonces, ephemeral keys and server proof.
LEMMA KcInjective ==
    ASSUME IdealHash,
           NEW ac, NEW cp, NEW pub, NEW sp, NEW ns, NEW es, KcTyped(ac, cp, pub, sp, ns, es),
           NEW bc, NEW bp, NEW qub, NEW tp, NEW nt, NEW et, KcTyped(bc, bp, qub, tp, nt, et),
           auth_kc_transcript_hash(ac, cp, pub, sp, ns, es) = auth_kc_transcript_hash(bc, bp, qub, tp, nt, et)
    PROVE  SameContext(ac, cp, bc, bp)
<1> DEFINE e == KcFields(ac, cp, pub, sp, ns, es)
           f == KcFields(bc, bp, qub, tp, nt, et)
<1>1. e = KcFields(ac, cp, pub, sp, ns, es) /\ f = KcFields(bc, bp, qub, tp, nt, et)
    OBVIOUS
<1>2. HashOf(Transcript("kc_v2", e)) = HashOf(Transcript("kc_v2", f))
    BY DEF auth_kc_transcript_hash, auth_transcript_hash_sha256, KcFields
<1> HIDE DEF e, f
<1>3. /\ /\ e \in Seq(Labels \X Seq(Int)) /\ Len(e) = 10
         /\ e[1][2] = <<ac.pid>> /\ e[2][2] = cp.a /\ e[3][2] = <<cp.s>> /\ e[4][2] = <<ac.nonce_c>>
         /\ e[5][2] = ac.eph_c
         /\ \A i \in 1..10 : Len(e[i][2]) = IF i \in {1, 3, 4, 8, 9} THEN 1 ELSE 2
      /\ /\ f \in Seq(Labels \X Seq(Int)) /\ Len(f) = 10
         /\ f[1][2] = <<bc.pid>> /\ f[2][2] = bp.a /\ f[3][2] = <<bp.s>> /\ f[4][2] = <<bc.nonce_c>>
         /\ f[5][2] = bc.eph_c
         /\ \A i \in 1..10 : Len(f[i][2]) = IF i \in {1, 3, 4, 8, 9} THEN 1 ELSE 2
  <2>1. KcList(e, ac, cp, pub, sp, ns, es) /\ KcList(f, bc, bp, qub, tp, nt, et)
      BY <1>1, KcFieldList, Zenon
  <2> QED BY <2>1 DEF KcList
<1>4. ASSUME NEW g \in Seq(Labels \X Seq(Int)) PROVE Transcript("kc_v2", g) \in Seq(Int)
  <2>1. PICK t \in [0..Len(g) -> Seq(Int)] : Transcript("kc_v2", g) = t[Len(g)]
      BY KcLabels, TranscriptSteps, Zenon
  <2>2. Len(g) \in 0..Len(g)
      OBVIOUS
  <2> QED BY <2>1, <2>2
<1>5. Transcript("kc_v2", e) = Transcript("kc_v2", f)
    BY <1>2, <1>3, <1>4, HashFacts
<1>6. \A i \in 1..10 : e[i][2] = f[i][2]
  <2>1. \A i \in 1..Len(e) : Len(e[i][2]) = Len(f[i][2])
      BY <1>3
  <2>2. Len(e) = Len(f)
      BY <1>3
  <2>3. \A i \in 1..Len(e) : e[i][2] = f[i][2]
      BY <2>1, <2>2, <1>3, <1>5, KcLabels, TranscriptInjective, Zenon
  <2> QED BY <2>3, <1>3
<1>7. e[1][2] = f[1][2] /\ e[2][2] = f[2][2] /\ e[3][2] = f[3][2] /\ e[4][2] = f[4][2] /\ e[5][2] = f[5][2]
    BY <1>6
<1>8. <<ac.pid>> = <<bc.pid>> /\ <<cp.s>> = <<bp.s>> /\ <<ac.nonce_c>> = <<bc.nonce_c>>
    BY <1>3, <1>7
<1> QED BY <1>3, <1>7, <1>8 DEF SameContext

\* r has the cells of p and then v.
Extended(r, p, v) ==
    /\ r \in Seq(Int) /\ Len(r) = Len(p) + 1
    /\ \A k \in 1..Len(p) : r[k] = p[k]
    /\ r[Len(p) + 1] = v
LEMMA OneMore ==
    ASSUME NEW p \in Seq(Int), NEW v \in Int, NEW r, r = p \o <<v>>
    PROVE  Extended(r, p, v)
<1> DEFINE q == <<v>>
<1>1. q \in Seq(Int) /\ Len(q) = 1 /\ q[1] = v
    OBVIOUS
<1>2. r = p \o q
    OBVIOUS
<1> HIDE DEF q
<1>3. /\ r \in Seq(Int) /\ Len(r) = Len(p) + Len(q) /\ Len(p) \in Nat
      /\ \A k \in 1..Len(p) : r[k] = p[k]
      /\ \A k \in 1..Len(q) : r[Len(p) + k] = q[k]
  <2>1. /\ p \o q \in Seq(Int) /\ Len(p \o q) = Len(p) + Len(q) /\ Len(p) \in Nat
        /\ \A k \in 1..Len(p) : (p \o q)[k] = p[k]
        /\ \A k \in 1..Len(q) : (p \o q)[Len(p) + k] = q[k]
      BY <1>1, ConcatCells, Zenon
  <2> QED BY <2>1, <1>2, Zenon
<1>4. 1 \in 1..Len(q)
    BY <1>1
<1> QED BY <1>1, <1>3, <1>4 DEF Extended

\* Inputs of HKDF that are one number each.
Flat(x, m, y, z) == <<x>> \o <<m>> \o <<y>> \o <<m>> \o <<z>> = <<x, m, y, m, z>>
LEMMA HkdfInput ==
    ASSUME NEW x \in Int, NEW m \in Int, NEW y \in Int, NEW z \in Int
    PROVE  Flat(x, m, y, z)
<1> DEFINE a == <<x>>
           b == a \o <<m>>
           c == b \o <<y>>
           d == c \o <<m>>
           e == d \o <<z>>
           t == <<x, m, y, m, z>>
<1>1. a \in Seq(Int) /\ Len(a) = 1 /\ a[1] = x
    OBVIOUS
<1>2. /\ t \in Seq(Int) /\ Len(t) = 5
      /\ t[1] = x /\ t[2] = m /\ t[3] = y /\ t[4] = m /\ t[5] = z
    OBVIOUS
<1>3. e = t
  <2>0. b = a \o <<m>> /\ c = b \o <<y>> /\ d = c \o <<m>> /\ e = d \o <<z>>
      OBVIOUS
  <2> HIDE DEF a, b, c, d, e, t
  <2>1. b \in Seq(Int) /\ Len(b) = 2 /\ b[1] = x /\ b[2] = m
    <3>1. Extended(b, a, m)
        BY <2>0, <1>1, OneMore, Zenon
    <3> QED BY <3>1, <1>1 DEF Extended
  <2>2. c \in Seq(Int) /\ Len(c) = 3 /\ c[1] = x /\ c[2] = m /\ c[3] = y
    <3>1. Extended(c, b, y)
        BY <2>0, <2>1, OneMore, Zenon
    <3> QED BY <3>1, <2>1 DEF Extended
  <2>3. d \in Seq(Int) /\ Len(d) = 4 /\ d[1] = x /\ d[2] = m /\ d[3] = y /\ d[4] = m
    <3>1. Extended(d, c, m)
        BY <2>0, <2>2, OneMore, Zenon
    <3> QED BY <3>1, <2>2 DEF Extended
  <2>4. e \in Seq(Int) /\ Len(e) = 5 /\ e[1] = x /\ e[2] = m /\ e[3] = y /\ e[4] = m /\ e[5] = z
    <3>1. Extended(e, d, z)
        BY <2>0, <2>3, OneMore, Zenon
    <3> QED BY <3>1, <2>3 DEF Extended
  <2>5. ASSUME NEW k \in 1..5 PROVE e[k] = t[k]
    <3>1. k = 1 \/ k = 2 \/ k = 3 \/ k = 4 \/ k = 5
        OBVIOUS
    <3> QED BY <3>1, <2>4, <1>2
  <2> QED BY <2>4, <2>5, <1>2, SameCells
<1> QED BY <1>3 DEF Flat

LEMMA FinishLabels ==
    /\ Code["kc s2c"] \in Int /\ Code["kc c2s"] \in Int
    /\ Code["server finished"] \in Int /\ Code["client finished"] \in Int
<1>1. /\ DOMAIN Names = 1..49 /\ Names[30] = "kc s2c" /\ Names[31] = "kc c2s"
      /\ Names[32] = "server finished" /\ Names[33] = "client finished"
    BY DEF Names
<1> HIDE DEF Names
<1>2. \A i \in 1..49 : Code[Names[i]] \in Int
    BY <1>1, CodeInt DEF Labels
<1>3. Code[Names[30]] \in Int /\ Code[Names[31]] \in Int
    BY <1>2
<1>4. Code[Names[32]] \in Int /\ Code[Names[33]] \in Int
    BY <1>2
<1> QED BY <1>1, <1>3, <1>4, Zenon

\* A confirmation key is of one session key and one transcript.
LEMMA KcKeys ==
    ASSUME IdealHash, NEW x \in Int, NEW t \in Int, NEW y \in Int, NEW u \in Int,
           \/ auth_derive_kc_keys(x, t).s2c = auth_derive_kc_keys(y, u).s2c
           \/ auth_derive_kc_keys(x, t).c2s = auth_derive_kc_keys(y, u).c2s
    PROVE  x = y /\ t = u
<1>1. ASSUME NEW c \in Int, HashOf(<<t, -2, x, -2, c>>) = HashOf(<<u, -2, y, -2, c>>)
      PROVE  x = y /\ t = u
  <2>1. <<t, -2, x, -2, c>> = <<u, -2, y, -2, c>>
    <3>1. <<t, -2, x, -2, c>> \in Seq(Int) /\ <<u, -2, y, -2, c>> \in Seq(Int)
        OBVIOUS
    <3> QED BY <3>1, <1>1, HashFacts, Zenon
  <2> QED BY <2>1
<1> DEFINE m == -2
<1>2. ASSUME NEW k \in Int, NEW v \in Int
      PROVE  /\ auth_derive_kc_keys(k, v).s2c = HashOf(<<v, m, k, m, Code["kc s2c"]>>)
             /\ auth_derive_kc_keys(k, v).c2s = HashOf(<<v, m, k, m, Code["kc c2s"]>>)
  <2>1. /\ auth_derive_kc_keys(k, v).s2c
              = HashOf(<<v>> \o <<m>> \o <<k>> \o <<m>> \o <<Code["kc s2c"]>>)
        /\ auth_derive_kc_keys(k, v).c2s
              = HashOf(<<v>> \o <<m>> \o <<k>> \o <<m>> \o <<Code["kc c2s"]>>)
      BY DEF auth_derive_kc_keys, auth_hkdf_sha256
  <2>2. m \in Int
      OBVIOUS
  <2> HIDE DEF m
  <2>3. ASSUME NEW c \in Int
        PROVE  <<v>> \o <<m>> \o <<k>> \o <<m>> \o <<c>> = <<v, m, k, m, c>>
    <3>1. Flat(v, m, k, c)
        BY <2>2, HkdfInput, Zenon
    <3> QED BY <3>1 DEF Flat
  <2>4. /\ <<v>> \o <<m>> \o <<k>> \o <<m>> \o <<Code["kc s2c"]>> = <<v, m, k, m, Code["kc s2c"]>>
        /\ <<v>> \o <<m>> \o <<k>> \o <<m>> \o <<Code["kc c2s"]>> = <<v, m, k, m, Code["kc c2s"]>>
      BY <2>3, FinishLabels, Zenon
  <2> QED BY <2>1, <2>4, Zenon
<1>3. ASSUME auth_derive_kc_keys(x, t).s2c = auth_derive_kc_keys(y, u).s2c PROVE x = y /\ t = u
  <2>1. HashOf(<<t, m, x, m, Code["kc s2c"]>>) = HashOf(<<u, m, y, m, Code["kc s2c"]>>)
      BY <1>2, <1>3, Zenon
  <2> QED BY <1>1, <2>1, FinishLabels, Zenon
<1>4. ASSUME auth_derive_kc_keys(x, t).c2s = auth_derive_kc_keys(y, u).c2s PROVE x = y /\ t = u
  <2>1. HashOf(<<t, m, x, m, Code["kc c2s"]>>) = HashOf(<<u, m, y, m, Code["kc c2s"]>>)
      BY <1>2, <1>4, Zenon
  <2> QED BY <1>1, <2>1, FinishLabels, Zenon
<1> QED BY <1>3, <1>4

\* A cell that holds v, or zero, altered up to n times.
Near(cell, v, n) == \E d \in Drift(n) : cell = <<v + d>> \/ cell = <<d>>

\* A tag that passes is not made up, and not the tag of another key or
\* transcript altered.
LEMMA TagGuess ==
    ASSUME IdealHash, NEW label, Code[label] \in Int, NEW n \in Nat, n <= MaxDamage,
           NEW x \in Int, NEW t \in Int, NEW y \in Int, NEW u \in Int, NEW cell,
           cell[1] = auth_hmac_tag(x, label, t), Near(cell, auth_hmac_tag(y, label, u), n)
    PROVE  x = y /\ t = u
<1> DEFINE p == <<x, Code[label], t>>
           q == <<y, Code[label], u>>
<1>1. p \in Seq(Int) /\ q \in Seq(Int)
    OBVIOUS
<1>2. PICK d \in Drift(n) : cell = <<HashOf(q) + d>> \/ cell = <<d>>
    BY DEF Near, auth_hmac_tag
<1>3. d \in Drift(MaxDamage)
    BY Constants, DriftGrows
<1>4. cell[1] = HashOf(p)
    BY DEF auth_hmac_tag
<1>5. p = q => x = y /\ t = u
    OBVIOUS
<1> HIDE DEF p, q
<1>6. HashOf(p) = HashOf(q) + d \/ HashOf(p) = d
    BY <1>2, <1>4
<1>7. HashOf(p) # d /\ (HashOf(p) = HashOf(q) + d => p = q)
    BY <1>1, <1>3 DEF IdealHash
<1> QED BY <1>5, <1>6, <1>7

-----------------------------------------------------------------------------
(* Cells, points and proofs.                                               *)

LEMMA PairPoint ==
    ASSUME NEW x \in Int, NEW y \in Int
    PROVE  <<x, y>> \in Point
BY DEF Point

LEMMA BadPoint == Bad \in Point /\ G \in Point /\ auth_attr_h \in Point /\ Identity \in Point
<1>1. -1 \in Int /\ 0 \in Int /\ 1 \in Int
    OBVIOUS
<1> QED BY <1>1, PairPoint DEF Bad, G, auth_attr_h, Identity

LEMMA PointCells ==
    ASSUME NEW p \in Point
    PROVE  p[1] \in Int /\ p[2] \in Int /\ p \in Cell
<1>1. p \in Seq(Int) /\ Len(p) = 2
    BY DEF Point
<1>2. p[1] \in Int /\ p[2] \in Int
    BY <1>1
<1>3. p \in Cell
    BY <1>1 DEF Cell
<1> QED BY <1>2, <1>3

LEMMA NumberCell ==
    ASSUME NEW v \in Int
    PROVE  <<v>> \in Cell
BY DEF Cell

LEMMA CellParts ==
    ASSUME NEW c \in Cell
    PROVE  c[1] \in Int /\ AsPoint(c) \in Point
<1>1. c \in Seq(Int) /\ Len(c) \in {1, 2}
    BY DEF Cell
<1>2. c[1] \in Int
    BY <1>1
<1>3. CASE Len(c) = 2
    BY <1>1, <1>2, <1>3 DEF AsPoint, Point
<1>4. CASE Len(c) # 2
    BY <1>2, <1>4, BadPoint DEF AsPoint
<1> QED BY <1>3, <1>4

LEMMA Residue ==
    ASSUME NEW x \in Int
    PROVE  x % Q \in Int
BY Constants

LEMMA ScalarmultPoint ==
    ASSUME NEW s \in Int, NEW p \in Point
    PROVE  auth_scalarmult(s, p) \in Point
<1>1. p[1] \in Int /\ p[2] \in Int
    BY PointCells
<1>2. (s % Q) \in Int
    BY Residue
<1>3. (s % Q) * p[1] \in Int /\ (s % Q) * p[2] \in Int
    BY <1>1, <1>2
<1>4. ((s % Q) * p[1]) % Q \in Int /\ ((s % Q) * p[2]) % Q \in Int
    BY <1>3, Residue
<1>5. <<((s % Q) * p[1]) % Q, ((s % Q) * p[2]) % Q>> \in Point
    BY <1>4, PairPoint
<1> QED BY <1>5, BadPoint DEF auth_scalarmult

LEMMA BasePoint ==
    ASSUME NEW s \in Int
    PROVE  auth_scalarmult_base(s) \in Point
BY ScalarmultPoint, BadPoint DEF auth_scalarmult_base

LEMMA AddPoint ==
    ASSUME NEW p \in Point, NEW r \in Point
    PROVE  auth_point_add(p, r) \in Point
<1>1. p[1] \in Int /\ p[2] \in Int /\ r[1] \in Int /\ r[2] \in Int
    BY PointCells
<1>2. (p[1] + r[1]) % Q \in Int /\ (p[2] + r[2]) % Q \in Int
    BY <1>1, Residue
<1>3. <<(p[1] + r[1]) % Q, (p[2] + r[2]) % Q>> \in Point
    BY <1>2, PairPoint
<1> QED BY <1>3, BadPoint DEF auth_point_add

\* A proof the library makes is a point and a scalar.
LEMMA ProveTyped ==
    ASSUME NEW a, NEW r \in Int, NEW x \in Int, NEW c \in Int, NEW p,
           p = Prove(a, r, x, c), p.err = "OK"
    PROVE  p.a = a /\ p.s \in Int
<1>1. p = [err |-> "OK", a |-> a, s |-> auth_scalar_add(r, auth_scalar_mul(c, x))]
    BY DEF Prove
<1>2. r % Q \in Int /\ c % Q \in Int /\ x % Q \in Int
    BY Residue
<1>3. (c % Q) * (x % Q) \in Int
    BY <1>2
<1>4. auth_scalar_mul(c, x) \in Int
    BY <1>3, Residue DEF auth_scalar_mul
<1>5. auth_scalar_mul(c, x) % Q \in Int
    BY <1>4, Residue
<1>6. auth_scalar_add(r, auth_scalar_mul(c, x)) \in Int
    BY <1>2, <1>5, Residue DEF auth_scalar_add
<1> QED BY <1>1, <1>6

\* Every challenge is a number.
LEMMA ChallengeInt ==
    ASSUME IdealHash, NEW t
    PROVE  auth_transcript_challenge(t) \in Int
<1>1. HashOf(t) \in Int
    BY DEF IdealHash
<1> QED BY <1>1, Residue DEF auth_transcript_challenge

LEMMA ProofsTyped ==
    ASSUME IdealHash, NEW r \in Int, NEW x \in Int, NEW st, NEW ns, NEW es, NEW p, p.err = "OK",
           \/ p = auth_prove_setup_client(r, x, st) \/ p = auth_prove_setup_server(r, x, st)
           \/ p = auth_prove_auth_client(r, x, st) \/ p = auth_prove_auth_server(r, x, ns, es)
    PROVE  p.a \in Point /\ p.s \in Int
<1> DEFINE a == auth_scalarmult_base(r)
           pub == auth_scalarmult_base(x)
<1>1. a \in Point
    BY BasePoint
<1> HIDE DEF a
<1>2. ASSUME NEW c \in Int, p = Prove(a, r, x, c) PROVE p.a \in Point /\ p.s \in Int
    BY <1>1, <1>2, ProveTyped
<1>3. CASE p = auth_prove_setup_client(r, x, st)
  <2>1. p = Prove(a, r, x, setup_client_challenge(st, a))
      BY <1>3 DEF auth_prove_setup_client, a
  <2> QED BY <2>1, <1>2, ChallengeInt DEF setup_client_challenge
<1>4. CASE p = auth_prove_setup_server(r, x, st)
  <2>1. p = Prove(a, r, x, setup_server_challenge(st, a))
      BY <1>4 DEF auth_prove_setup_server, a
  <2> QED BY <2>1, <1>2, ChallengeInt DEF setup_server_challenge
<1>5. CASE p = auth_prove_auth_client(r, x, st)
  <2>1. p = Prove(a, r, x, auth_client_challenge(pub, a, st))
      BY <1>5 DEF auth_prove_auth_client, a
  <2> QED BY <2>1, <1>2, ChallengeInt DEF auth_client_challenge
<1>6. CASE p = auth_prove_auth_server(r, x, ns, es)
  <2>1. p = Prove(a, r, x, auth_server_challenge(pub, a, ns, es))
      BY <1>6 DEF auth_prove_auth_server, a
  <2> QED BY <2>1, <1>2, ChallengeInt DEF auth_server_challenge
<1> QED BY <1>3, <1>4, <1>5, <1>6

LEMMA DrawInt ==
    ASSUME NEW k \in DrawNames
    PROVE  Draw(k) \in Int /\ Random[k] \in Int
BY Constants DEF Draw

-----------------------------------------------------------------------------
(* Packets.                                                                *)

\* A packet is a sequence, whatever its cells are.
IsSeq(p) == \E S : p \in Seq(S)

\* r has the cells of p and then those of q.
Joined(r, p, q) ==
    /\ IsSeq(r) /\ Len(p) \in Nat /\ Len(q) \in Nat /\ Len(r) = Len(p) + Len(q)
    /\ \A k \in 1..Len(p) : r[k] = p[k]
    /\ \A k \in 1..Len(q) : r[Len(p) + k] = q[k]

LEMMA JoinAny ==
    ASSUME NEW S, NEW p \in Seq(S), NEW q \in Seq(S)
    PROVE  Joined(p \o q, p, q)
<1> DEFINE r == p \o q
<1>1. /\ r \in Seq(S) /\ Len(r) = Len(p) + Len(q)
      /\ Len(p) \in Nat /\ Len(q) \in Nat
      /\ \A k \in 1..Len(p) : r[k] = p[k]
      /\ \A k \in 1..Len(q) : r[Len(p) + k] = q[k]
    OBVIOUS
<1> HIDE DEF r
<1>2. IsSeq(r)
    BY <1>1 DEF IsSeq
<1>3. Joined(r, p, q)
    BY <1>1, <1>2 DEF Joined
<1> QED BY <1>3 DEF r

LEMMA JoinSeqs ==
    ASSUME NEW p, NEW q, IsSeq(p), IsSeq(q)
    PROVE  Joined(p \o q, p, q)
<1>1. PICK S : p \in Seq(S)
    BY DEF IsSeq
<1>2. PICK T : q \in Seq(T)
    BY DEF IsSeq
<1> DEFINE U == S \cup T
<1>3. p \in Seq(U) /\ q \in Seq(U)
  <2>1. ASSUME NEW A, NEW B, A \subseteq B, NEW s \in Seq(A) PROVE s \in Seq(B)
      BY <2>1
  <2>2. S \subseteq U /\ T \subseteq U
      OBVIOUS
  <2> HIDE DEF U
  <2> QED BY <2>1, <2>2, <1>1, <1>2, Zenon
<1> HIDE DEF U
<1> QED BY <1>3, JoinAny, Zenon

\* What a packet holds that was built for a payload.
Built(pkt, type, payload) ==
    /\ IsSeq(pkt) /\ Len(payload) \in Nat /\ Len(pkt) = 5 + Len(payload) /\ pkt[2] = <<type>>
    /\ \A k \in 1..Len(payload) : pkt[5 + k] = payload[k]

LEMMA PacketBuilt ==
    ASSUME NEW type, NEW sid, NEW seq, NEW payload, IsSeq(payload)
    PROVE  Built(auth_packet_build(type, sid, seq, payload), type, payload)
<1> DEFINE c1 == <<VERSION>>
           c2 == <<type>>
           c3 == << 0 >>
           c4 == <<sid>>
           c5 == <<seq>>
           h == <<c1, c2, c3, c4, c5>>
           pkt == h \o payload
<1>1. auth_packet_build(type, sid, seq, payload) = pkt
    BY DEF auth_packet_build, auth_header_encode
<1> HIDE DEF c1, c2, c3, c4, c5
<1>2. h \in Seq({c1, c2, c3, c4, c5}) /\ Len(h) = 5 /\ h[2] = c2
    OBVIOUS
<1>3. IsSeq(h)
    BY <1>2, Zenon DEF IsSeq
<1> HIDE DEF h
<1>4. Joined(pkt, h, payload)
    BY <1>3, JoinSeqs, Zenon
<1> HIDE DEF pkt
<1>5. IsSeq(pkt) /\ Len(payload) \in Nat /\ Len(pkt) = 5 + Len(payload) /\ pkt[2] = c2
    BY <1>2, <1>4 DEF Joined
<1>6. \A k \in 1..Len(payload) : pkt[5 + k] = payload[k]
    BY <1>2, <1>4 DEF Joined
<1> QED BY <1>1, <1>5, <1>6, Zenon DEF Built, c2

\* What a header that decodes says.
Decoded(h, pkt) ==
    /\ Len(pkt) \in Nat /\ Len(pkt) >= HEADER_LEN /\ h.pkt_type = pkt[2][1]
    /\ Len(h.payload) = Len(pkt) - 5
    /\ \A k \in 1..(Len(pkt) - 5) : h.payload[k] = pkt[5 + k]

LEMMA PieceCells ==
    ASSUME NEW S, NEW p \in Seq(S), NEW m \in Nat, NEW n \in Nat, m <= n, n <= Len(p)
    PROVE  /\ SubSeq(p, m + 1, n) \in Seq(S) /\ Len(SubSeq(p, m + 1, n)) = n - m
           /\ \A k \in 1..n - m : SubSeq(p, m + 1, n)[k] = p[m + k]
OBVIOUS

LEMMA TailCells ==
    ASSUME NEW S, NEW p \in Seq(S), Len(p) >= 5, NEW r, r = SubSeq(p, 5 + 1, Len(p))
    PROVE  /\ Len(r) = Len(p) - 5
           /\ \A k \in 1..(Len(p) - 5) : r[k] = p[5 + k]
<1> DEFINE m == 5
           n == Len(p)
<1>1. m \in Nat /\ n \in Nat /\ m <= n /\ n <= Len(p)
    OBVIOUS
<1>2. r = SubSeq(p, m + 1, n)
    OBVIOUS
<1> HIDE DEF m, n
<1>3. Len(r) = n - m /\ \A k \in 1..n - m : r[k] = p[m + k]
    BY <1>1, <1>2, PieceCells
<1> QED BY <1>3 DEF m, n

LEMMA HeaderDecoded ==
    ASSUME NEW pkt, IsSeq(pkt), NEW h, h = auth_header_decode(pkt), h.err = "OK"
    PROVE  Decoded(h, pkt)
<1>1. PICK S : pkt \in Seq(S)
    BY DEF IsSeq
<1>2. Len(pkt) \in Nat
    BY <1>1
<1>3. CASE Len(pkt) < HEADER_LEN
  <2>1. h = [err |-> "PAYLOAD_TOO_SHORT"]
      BY <1>2, <1>3 DEF auth_header_decode, HEADER_LEN
  <2> QED BY <2>1
<1>4. CASE ~(Len(pkt) < HEADER_LEN)
  <2>1. Len(pkt) >= 5
      BY <1>2, <1>4 DEF HEADER_LEN
  <2>2. CASE pkt[1][1] < VERSION
    <3>1. h = [err |-> "UNSUPPORTED_VERSION"]
        BY <1>2, <2>1, <2>2 DEF auth_header_decode, HEADER_LEN
    <3> QED BY <3>1
  <2>3. CASE ~(pkt[1][1] < VERSION)
    <3> DEFINE pay == SubSeq(pkt, HEADER_LEN + 1, Len(pkt))
    <3>1. h = [err |-> "OK", pkt_type |-> pkt[2][1], session_id |-> pkt[4][1],
               seq |-> pkt[5][1], payload |-> pay]
        BY <1>2, <2>1, <2>3 DEF auth_header_decode, HEADER_LEN
    <3>2. Len(pay) = Len(pkt) - 5 /\ \A k \in 1..(Len(pkt) - 5) : pay[k] = pkt[5 + k]
        BY <1>1, <1>2, <2>1, TailCells DEF HEADER_LEN
    <3> HIDE DEF pay
    <3> QED BY <3>1, <3>2, <1>2, <2>1 DEF Decoded, HEADER_LEN
  <2> QED BY <2>2, <2>3
<1> QED BY <1>3, <1>4

\* The fields of AUTH_1 and AUTH_2 that keys and tags depend on are typed when
\* their cells are.
CellsTyped(pkt) == \A k \in 6..10 : k <= Len(pkt) => pkt[k] \in Cell

LEMMA BuiltTyped ==
    ASSUME NEW pkt, NEW type, NEW payload, Built(pkt, type, payload),
           \A k \in 1..5 : k <= Len(payload) => payload[k] \in Cell
    PROVE  CellsTyped(pkt)
<1> SUFFICES ASSUME NEW k \in 6..10, k <= Len(pkt) PROVE pkt[k] \in Cell
    BY DEF CellsTyped
<1>1. k - 5 \in 1..5 /\ k - 5 <= Len(payload) /\ 5 + (k - 5) = k
    BY DEF Built
<1>2. k - 5 \in 1..Len(payload)
    BY <1>1 DEF Built
<1>3. pkt[5 + (k - 5)] = payload[k - 5]
    BY <1>2 DEF Built
<1> QED BY <1>1, <1>3

LEMMA FixedTaken ==
    ASSUME NEW buf, NEW n, TakeFixed(buf, n) = "OK", Len(buf) \in Nat, n \in Nat
    PROVE  Len(buf) = n
BY DEF TakeFixed

LEMMA Auth1Decoded ==
    ASSUME NEW buf, Len(buf) \in Nat, NEW m, m = auth_auth1_decode(buf), m.err = "OK"
    PROVE  /\ Len(buf) >= 9 /\ m.pid = buf[1][1]
           /\ m.client_proof = [a |-> AsPoint(buf[2]), s |-> buf[3][1]]
           /\ m.nonce_c = buf[4][1] /\ m.eph_c = AsPoint(buf[5])
<1> DEFINE n == buf[9][1]
           e == TakeFixed(buf, 9 + 3 * n)
           ok == [err |-> "OK", pid |-> buf[1][1],
                  client_proof |-> [a |-> AsPoint(buf[2]), s |-> buf[3][1]],
                  nonce_c |-> buf[4][1], eph_c |-> AsPoint(buf[5]), c_prime |-> AsPoint(buf[6]),
                  rerand_proof |-> [a |-> AsPoint(buf[7]), s |-> buf[8][1]],
                  branches |-> [i \in 1..n |-> [a |-> AsPoint(buf[7 + 3 * i]), c |-> buf[8 + 3 * i][1],
                                                s |-> buf[9 + 3 * i][1]]]]
<1>1. m = IF Len(buf) < 9 THEN [err |-> "PAYLOAD_TOO_SHORT"]
          ELSE CASE n > MAX_ROLES -> [err |-> "MALFORMED_PACKET"]
                 [] n <= MAX_ROLES /\ e # "OK" -> [err |-> e]
                 [] OTHER -> ok
    BY DEF auth_auth1_decode
<1>2. ok.err = "OK" /\ ok.pid = buf[1][1] /\ ok.client_proof = [a |-> AsPoint(buf[2]), s |-> buf[3][1]]
      /\ ok.nonce_c = buf[4][1] /\ ok.eph_c = AsPoint(buf[5])
    OBVIOUS
<1> HIDE DEF n, e, ok
<1>3. ~(Len(buf) < 9)
    BY <1>1
<1>4. m = ok
    BY <1>1, <1>3
<1>5. Len(buf) >= 9
    BY <1>3
<1> QED BY <1>2, <1>4, <1>5

LEMMA Auth2Decoded ==
    ASSUME NEW buf, Len(buf) \in Nat, NEW m, m = auth_auth2_decode(buf), m.err = "OK"
    PROVE  /\ Len(buf) = 6 /\ m.server_pub = AsPoint(buf[1])
           /\ m.server_proof = [a |-> AsPoint(buf[2]), s |-> buf[3][1]]
           /\ m.nonce_s = buf[4][1] /\ m.eph_s = AsPoint(buf[5]) /\ m.tag_s = buf[6][1]
<1>1. TakeFixed(buf, 6) = "OK"
    BY DEF auth_auth2_decode
<1>2. Len(buf) = 6
    BY <1>1, FixedTaken
<1> QED BY <1>1, <1>2 DEF auth_auth2_decode

LEMMA Setup2Decoded ==
    ASSUME NEW buf, Len(buf) \in Nat, NEW m, m = auth_setup2_decode(buf), m.err = "OK"
    PROVE  Len(buf) = 5 /\ m.server_pub = AsPoint(buf[3])
<1>1. TakeFixed(buf, 5) = "OK"
    BY DEF auth_setup2_decode
<1>2. Len(buf) = 5
    BY <1>1, FixedTaken
<1> QED BY <1>1, <1>2 DEF auth_setup2_decode

LEMMA Auth3Decoded ==
    ASSUME NEW buf, Len(buf) \in Nat, NEW m, m = auth_auth3_decode(buf), m.err = "OK"
    PROVE  Len(buf) = 1 /\ m.tag_c = buf[1][1]
<1>1. TakeFixed(buf, 1) = "OK"
    BY DEF auth_auth3_decode
<1>2. Len(buf) = 1
    BY <1>1, FixedTaken
<1> QED BY <1>1, <1>2 DEF auth_auth3_decode

-----------------------------------------------------------------------------
(* What the packet in flight may be.                                       *)

ServerTag(s) == auth_hmac_tag(s.kc.s2c, "server finished", s.th)
ClientTag(c) == auth_hmac_tag(c.kc.c2s, "client finished", c.th)

\* A tag in an AUTH_2 or AUTH_3 is one that was sent, or zero, altered at most
\* as often as the packets were; no other type is turned into these, and into
\* AUTH_ACK only where an acknowledgement was forged (f).
Carried(pkt, c, sv, n, f) ==
    /\ IsSeq(pkt)
    /\ Len(pkt) >= HEADER_LEN =>
          /\ pkt[2] = <<pkt[2][1]>>
          /\ pkt[2][1] # "ERROR" => CellsTyped(pkt)
          /\ pkt[2][1] = "AUTH_2" =>
                \E s \in sv.issued : Len(pkt) >= 11 => Near(pkt[11], ServerTag(s), n)
          /\ pkt[2][1] = "AUTH_3" =>
                c.stage = "AUTH_3" /\ (Len(pkt) >= 6 => Near(pkt[6], ClientTag(c), n))
          /\ pkt[2][1] = "AUTH_ACK" =>
                f \/ (c.stage = "AUTH_3" /\ \E s \in sv.accepted : s.key = c.key)

LEMMA NearSteps ==
    ASSUME NEW v \in Int, NEW n \in Nat, NEW cell, Near(cell, v, n)
    PROVE  /\ Near(cell, v, n + 1) /\ Near(<< 0 >>, v, n + 1) /\ Len(cell) = 1
           /\ Near(<<cell[1] + 1>>, v, n + 1) /\ Near(<<cell[1] + Q>>, v, n + 1)
<1>1. PICK d \in Drift(n) : cell = <<v + d>> \/ cell = <<d>>
    BY DEF Near
<1>2. /\ d \in Int /\ d + 1 \in Drift(n + 1) /\ d + Q \in Drift(n + 1)
      /\ n + 1 \in Nat /\ 0 \in Drift(n + 1) /\ Q \in Int
    BY DriftFacts, Constants
<1>3. d \in Drift(n + 1)
    BY <1>2, DriftGrows
<1>4. Near(cell, v, n + 1) /\ Near(<< 0 >>, v, n + 1)
    BY <1>1, <1>2, <1>3 DEF Near
<1>5. Len(cell) = 1
    BY <1>1
<1>6. CASE cell = <<v + d>>
  <2>1. cell[1] + 1 = v + (d + 1) /\ cell[1] + Q = v + (d + Q)
      BY <1>2, <1>6
  <2> QED BY <2>1, <1>2, <1>4, <1>5 DEF Near
<1>7. CASE cell = <<d>>
  <2>1. cell[1] = d
      BY <1>7
  <2> QED BY <2>1, <1>2, <1>4, <1>5 DEF Near
<1> QED BY <1>1, <1>6, <1>7

LEMMA TagsInt ==
    ASSUME IdealHash, NEW s
    PROVE  ServerTag(s) \in Int /\ ClientTag(s) \in Int
BY DEF IdealHash, ServerTag, ClientTag, auth_hmac_tag

\* Damage after the header leaves a cell a cell.
LEMMA AlteredPayload ==
    ASSUME NEW pkt, pkt[2] # <<"ERROR">>, NEW i \in Nat, i >= 6
    PROVE  Altered(pkt, i) = IF Len(pkt[i]) = 2 THEN {Identity, Bad, G}
                             ELSE {<< 0 >>, <<pkt[i][1] + 1>>, <<pkt[i][1] + Q>>}
<1>1. i # 1 /\ i # 2 /\ i # 3 /\ i \notin {4, 5}
    OBVIOUS
<1> QED BY <1>1 DEF Altered

LEMMA AlteredCell ==
    ASSUME NEW pkt, pkt[2] # <<"ERROR">>, NEW i \in Nat, i >= 6, pkt[i] \in Cell,
           NEW x \in Altered(pkt, i)
    PROVE  x \in Cell
<1> DEFINE c == pkt[i]
<1>1. Altered(pkt, i) = IF Len(c) = 2 THEN {Identity, Bad, G} ELSE {<< 0 >>, <<c[1] + 1>>, <<c[1] + Q>>}
    BY AlteredPayload
<1>2. c[1] \in Int
    BY CellParts
<1> HIDE DEF c
<1>3. 0 \in Int /\ c[1] + 1 \in Int /\ c[1] + Q \in Int
    BY <1>2, Constants
<1>4. << 0 >> \in Cell /\ <<c[1] + 1>> \in Cell /\ <<c[1] + Q>> \in Cell
    BY <1>3, NumberCell
<1>5. Identity \in Cell /\ Bad \in Cell /\ G \in Cell
    BY BadPoint, PointCells
<1> QED BY <1>1, <1>4, <1>5

LEMMA AlteredTag ==
    ASSUME NEW pkt, pkt[2] # <<"ERROR">>, NEW v \in Int, NEW n \in Nat, NEW i \in Nat, i >= 6,
           Near(pkt[i], v, n), NEW x \in Altered(pkt, i)
    PROVE  Near(x, v, n + 1)
<1> DEFINE cell == pkt[i]
<1>1. Altered(pkt, i) = IF Len(cell) = 2 THEN {Identity, Bad, G}
                        ELSE {<< 0 >>, <<cell[1] + 1>>, <<cell[1] + Q>>}
    BY AlteredPayload
<1>2. /\ Near(<< 0 >>, v, n + 1) /\ Len(cell) = 1
      /\ Near(<<cell[1] + 1>>, v, n + 1) /\ Near(<<cell[1] + Q>>, v, n + 1)
    BY NearSteps
<1> HIDE DEF cell
<1> QED BY <1>1, <1>2

LEMMA AlteredType ==
    ASSUME NEW pkt, NEW x \in Altered(pkt, 2)
    PROVE  pkt[2] # <<"ERROR">> /\ (x = <<"HELLO">> \/ x = <<"AUTH_1">>)
<1>1. Altered(pkt, 2) = IF pkt[2] = <<"ERROR">> THEN {} ELSE {<<t>> : t \in {"HELLO", "AUTH_1"}}
    BY DEF Altered
<1> QED BY <1>1

\* An error stays one, and nothing is required of its code.
LEMMA ErrorStays ==
    ASSUME NEW c, NEW sv, NEW n, NEW f, NEW p, IsSeq(p), Len(p) >= HEADER_LEN => p[2] = <<"ERROR">>
    PROVE  Carried(p, c, sv, n, f)
<1>1. ASSUME Len(p) >= HEADER_LEN PROVE p[2][1] = "ERROR" /\ p[2] = <<p[2][1]>>
    BY <1>1
<1> QED BY <1>1 DEF Carried

\* A field that is altered.
LEMMA CarriedAltered ==
    ASSUME IdealHash, NEW pkt, NEW c, NEW sv, NEW n \in Nat, NEW f, Carried(pkt, c, sv, n, f),
           Len(pkt) >= HEADER_LEN, pkt[2] # <<"ERROR">>,
           NEW i \in DOMAIN pkt, NEW x \in Altered(pkt, i), NEW p, p = [pkt EXCEPT ![i] = x]
    PROVE  Carried(p, c, sv, n + 1, f)
<1>1. PICK S : pkt \in Seq(S)
    BY DEF Carried, IsSeq
<1>2. i \in Nat /\ i >= 1 /\ i <= Len(pkt) /\ Len(pkt) \in Nat
    BY <1>1
<1>3. /\ p \in Seq(S \cup {x}) /\ Len(p) = Len(pkt) /\ p[i] = x
      /\ \A k \in 1..Len(pkt) : k # i => p[k] = pkt[k]
    BY <1>1
<1>4. IsSeq(p)
    BY <1>3 DEF IsSeq
<1>5. /\ pkt[2] = <<pkt[2][1]>> /\ CellsTyped(pkt)
      /\ pkt[2][1] = "AUTH_2" =>
            \E s \in sv.issued : Len(pkt) >= 11 => Near(pkt[11], ServerTag(s), n)
      /\ pkt[2][1] = "AUTH_3" =>
            c.stage = "AUTH_3" /\ (Len(pkt) >= 6 => Near(pkt[6], ClientTag(c), n))
      /\ pkt[2][1] = "AUTH_ACK" =>
            f \/ (c.stage = "AUTH_3" /\ \E s \in sv.accepted : s.key = c.key)
    BY DEF Carried
<1>6. ASSUME NEW k \in 6..10, k <= Len(p) PROVE p[k] \in Cell
  <2>1. pkt[k] \in Cell
      BY <1>3, <1>5, <1>6 DEF CellsTyped
  <2>2. CASE k = i
    <3>1. x \in Cell
      <4>1. x \in Altered(pkt, k) /\ k \in Nat /\ k >= 6
          BY <2>2
      <4> QED BY <4>1, <2>1, AlteredCell, Zenon
    <3> QED BY <3>1, <2>2, <1>3
  <2>3. CASE k # i
      BY <2>1, <2>3, <1>2, <1>3, <1>6
  <2> QED BY <2>2, <2>3
<1>7. CellsTyped(p)
    BY <1>6 DEF CellsTyped
<1>8. CASE i = 2
  <2>1. x = <<"HELLO">> \/ x = <<"AUTH_1">>
      BY <1>8, AlteredType
  <2>2. p[2] = <<"HELLO">> \/ p[2] = <<"AUTH_1">>
      BY <2>1, <1>3, <1>8
  <2>3. p[2] = <<p[2][1]>> /\ (p[2][1] = "HELLO" \/ p[2][1] = "AUTH_1")
      BY <2>2
  <2> QED BY <2>3, <1>4, <1>7 DEF Carried
<1>9. CASE i # 2
  <2>1. p[2] = pkt[2]
      BY <1>2, <1>3, <1>9 DEF HEADER_LEN
  <2>2. ASSUME NEW k \in 6..11, k <= Len(pkt), NEW v \in Int, Near(pkt[k], v, n)
        PROVE  Near(p[k], v, n + 1)
    <3>1. CASE k = i
      <4>1. Near(x, v, n + 1)
          BY <3>1, <2>2, AlteredTag
      <4> QED BY <4>1, <3>1, <1>3
    <3>2. CASE k # i
      <4>1. p[k] = pkt[k]
          BY <3>2, <2>2, <1>2, <1>3
      <4>2. Near(pkt[k], v, n + 1)
          BY <2>2, NearSteps
      <4> QED BY <4>1, <4>2
    <3> QED BY <3>1, <3>2
  <2>3. ASSUME pkt[2][1] = "AUTH_2"
        PROVE  \E s \in sv.issued : Len(p) >= 11 => Near(p[11], ServerTag(s), n + 1)
    <3>1. PICK s \in sv.issued : Len(pkt) >= 11 => Near(pkt[11], ServerTag(s), n)
        BY <2>3, <1>5
    <3>2. ServerTag(s) \in Int /\ 11 \in 6..11
        BY TagsInt
    <3>3. Len(p) >= 11 => Near(p[11], ServerTag(s), n + 1)
        BY <3>1, <3>2, <2>2, <1>2, <1>3
    <3> QED BY <3>3
  <2>4. ASSUME pkt[2][1] = "AUTH_3", Len(p) >= 6 PROVE Near(p[6], ClientTag(c), n + 1)
    <3>1. ClientTag(c) \in Int /\ 6 \in 6..11 /\ 6 <= Len(pkt)
        BY <2>4, <1>2, <1>3, TagsInt
    <3>2. Near(pkt[6], ClientTag(c), n)
        BY <2>4, <1>3, <1>5
    <3> QED BY <3>1, <3>2, <2>2
  <2> QED BY <2>1, <2>3, <2>4, <1>3, <1>4, <1>5, <1>7 DEF Carried
<1> QED BY <1>8, <1>9

\* p is pkt cut, or with zeros added.
Resized(p, pkt) ==
    /\ IsSeq(p) /\ Len(p) \in Nat
    /\ \A k \in 1..Len(p) : p[k] = IF k <= Len(pkt) THEN pkt[k] ELSE << 0 >>
LEMMA CarriedResized ==
    ASSUME IdealHash, NEW pkt, NEW c, NEW sv, NEW n \in Nat, NEW f, Carried(pkt, c, sv, n, f),
           Len(pkt) >= HEADER_LEN, pkt[2] # <<"ERROR">>, NEW p, Resized(p, pkt)
    PROVE  Carried(p, c, sv, n + 1, f)
<1>0. /\ IsSeq(p) /\ Len(p) \in Nat
      /\ \A k \in 1..Len(p) : p[k] = IF k <= Len(pkt) THEN pkt[k] ELSE << 0 >>
    BY DEF Resized
<1>1. PICK S : pkt \in Seq(S)
    BY DEF Carried, IsSeq
<1>2. Len(pkt) \in Nat /\ Len(pkt) >= 5
    BY <1>1 DEF HEADER_LEN
<1>3. SUFFICES ASSUME Len(p) >= 5 PROVE Carried(p, c, sv, n + 1, f)
    BY <1>0 DEF Carried, HEADER_LEN
<1>4. /\ pkt[2] = <<pkt[2][1]>> /\ CellsTyped(pkt)
      /\ pkt[2][1] = "AUTH_2" =>
            \E s \in sv.issued : Len(pkt) >= 11 => Near(pkt[11], ServerTag(s), n)
      /\ pkt[2][1] = "AUTH_3" =>
            c.stage = "AUTH_3" /\ (Len(pkt) >= 6 => Near(pkt[6], ClientTag(c), n))
      /\ pkt[2][1] = "AUTH_ACK" =>
            f \/ (c.stage = "AUTH_3" /\ \E s \in sv.accepted : s.key = c.key)
    BY DEF Carried
<1>5. p[2] = pkt[2]
    BY <1>0, <1>2, <1>3
<1>6. ASSUME NEW k \in 6..10, k <= Len(p) PROVE p[k] \in Cell
  <2>1. << 0 >> \in Cell
      BY NumberCell
  <2>2. k \in 1..Len(p)
      BY <1>0, <1>6
  <2>3. CASE k <= Len(pkt)
      BY <2>2, <2>3, <1>0, <1>4 DEF CellsTyped
  <2>4. CASE ~(k <= Len(pkt))
      BY <2>1, <2>2, <2>4, <1>0
  <2> QED BY <2>2, <2>3, <2>4
<1>7. CellsTyped(p)
    BY <1>6 DEF CellsTyped
<1>8. ASSUME NEW k \in 6..11, k <= Len(p), NEW v \in Int, k <= Len(pkt) => Near(pkt[k], v, n)
      PROVE  Near(p[k], v, n + 1)
  <2>1. k \in 1..Len(p)
      BY <1>0, <1>8
  <2>2. CASE k <= Len(pkt)
    <3>1. Near(pkt[k], v, n)
        BY <1>8, <2>2
    <3>2. Near(pkt[k], v, n + 1)
        BY <3>1, NearSteps
    <3> QED BY <1>0, <2>1, <2>2, <3>2
  <2>3. CASE ~(k <= Len(pkt))
    <3>1. 0 \in Drift(n + 1)
        BY DriftFacts
    <3>2. p[k] = << 0 >>
        BY <1>0, <2>1, <2>3
    <3> QED BY <3>1, <3>2 DEF Near
  <2> QED BY <2>1, <2>2, <2>3
<1>9. ASSUME pkt[2][1] = "AUTH_3", Len(p) >= 6 PROVE Near(p[6], ClientTag(c), n + 1)
  <2>1. ClientTag(c) \in Int /\ 6 \in 6..11 /\ 6 <= Len(p)
      BY <1>9, TagsInt
  <2>2. 6 <= Len(pkt) => Near(pkt[6], ClientTag(c), n)
      BY <1>2, <1>4, <1>9
  <2> QED BY <2>1, <2>2, <1>8
<1>10. ASSUME pkt[2][1] = "AUTH_2"
       PROVE  \E s \in sv.issued : Len(p) >= 11 => Near(p[11], ServerTag(s), n + 1)
  <2>1. PICK s \in sv.issued : Len(pkt) >= 11 => Near(pkt[11], ServerTag(s), n)
      BY <1>10, <1>4
  <2>2. ServerTag(s) \in Int /\ 11 \in 6..11
      BY TagsInt
  <2>3. 11 <= Len(pkt) => Near(pkt[11], ServerTag(s), n)
      BY <2>1, <1>2
  <2>4. Len(p) >= 11 => Near(p[11], ServerTag(s), n + 1)
      BY <2>2, <2>3, <1>8
  <2> QED BY <2>4
<1> QED BY <1>0, <1>4, <1>5, <1>7, <1>9, <1>10 DEF Carried, HEADER_LEN

\* Every damage keeps it.
LEMMA CarriedDamaged ==
    ASSUME IdealHash, NEW pkt, NEW c, NEW sv, NEW n \in Nat, NEW f, Carried(pkt, c, sv, n, f),
           Len(pkt) >= HEADER_LEN,
           NEW p \in (UNION {{[pkt EXCEPT ![i] = x] : x \in Altered(pkt, i)} : i \in DOMAIN pkt})
                     \cup {SubSeq(pkt, 1, k) : k \in 0..(Len(pkt) - 1)} \cup {Append(pkt, Trailing(pkt))}
    PROVE  Carried(p, c, sv, n + 1, f)
<1>1. PICK S : pkt \in Seq(S)
    BY DEF Carried, IsSeq
<1>0. Len(pkt) \in Nat /\ Len(pkt) >= 5
    BY <1>1 DEF HEADER_LEN
<1>2. CASE \E i \in DOMAIN pkt : \E x \in Altered(pkt, i) : p = [pkt EXCEPT ![i] = x]
  <2>1. PICK i \in DOMAIN pkt : \E x \in Altered(pkt, i) : p = [pkt EXCEPT ![i] = x]
      BY <1>2
  <2>2. PICK x \in Altered(pkt, i) : p = [pkt EXCEPT ![i] = x]
      BY <2>1
  <2>3. CASE pkt[2] = <<"ERROR">>
    <3>1. i # 2
        BY <2>2, <2>3, AlteredType
    <3>2. p \in Seq(S \cup {x}) /\ p[2] = pkt[2]
        BY <1>0, <1>1, <2>2, <3>1
    <3>3. IsSeq(p)
        BY <3>2 DEF IsSeq
    <3> QED BY <2>3, <3>2, <3>3, ErrorStays
  <2>4. CASE pkt[2] # <<"ERROR">>
      BY <2>2, <2>4, CarriedAltered, Zenon
  <2> QED BY <2>3, <2>4
<1>3. CASE \E k \in 0..(Len(pkt) - 1) : p = SubSeq(pkt, 1, k)
  <2>1. PICK k \in 0..(Len(pkt) - 1) : p = SubSeq(pkt, 1, k)
      BY <1>3
  <2> DEFINE m == 0
  <2>2. m \in Nat /\ k \in Nat /\ m <= k /\ k <= Len(pkt) /\ Len(pkt) \in Nat
      BY <1>1
  <2>3. p = SubSeq(pkt, m + 1, k)
      BY <2>1
  <2> HIDE DEF m
  <2>4. p \in Seq(S) /\ Len(p) = k - m /\ \A j \in 1..k - m : p[j] = pkt[m + j]
      BY <1>1, <2>2, <2>3, PieceCells
  <2>5. Len(p) \in Nat /\ \A j \in 1..Len(p) : j <= Len(pkt) /\ p[j] = pkt[j]
      BY <2>2, <2>4 DEF m
  <2>6. IsSeq(p)
      BY <2>4 DEF IsSeq
  <2>7. CASE pkt[2] = <<"ERROR">>
    <3>1. Len(p) >= HEADER_LEN => p[2] = pkt[2]
        BY <2>5 DEF HEADER_LEN
    <3> QED BY <2>6, <2>7, <3>1, ErrorStays
  <2>8. CASE pkt[2] # <<"ERROR">>
    <3>1. Resized(p, pkt)
        BY <2>5, <2>6 DEF Resized
    <3> QED BY <2>8, <3>1, CarriedResized, Zenon
  <2> QED BY <2>7, <2>8
<1>4. CASE p = Append(pkt, Trailing(pkt))
  <2> DEFINE z == Trailing(pkt)
  <2>1. p = Append(pkt, z)
      BY <1>4
  <2>2. /\ p \in Seq(S \cup {z}) /\ Len(p) = Len(pkt) + 1 /\ Len(p) \in Nat /\ Len(pkt) \in Nat
        /\ p[Len(pkt) + 1] = z
    <3> HIDE DEF z
    <3> QED BY <1>1, <2>1
  <2>3. \A k \in 1..Len(pkt) : p[k] = pkt[k]
    <3> HIDE DEF z
    <3> QED BY <1>1, <2>1
  <2>4. ASSUME NEW k \in 1..Len(p)
        PROVE  p[k] = IF k <= Len(pkt) THEN pkt[k] ELSE z
    <3>1. CASE k <= Len(pkt)
      <4>1. k \in 1..Len(pkt)
          BY <3>1, <2>2
      <4>2. p[k] = pkt[k]
          BY <4>1, <2>3
      <4> QED BY <4>2, <3>1
    <3>2. CASE ~(k <= Len(pkt))
      <4>1. k = Len(pkt) + 1 /\ k > Len(pkt)
          BY <3>2, <2>2
      <4> HIDE DEF z
      <4> QED BY <3>2, <4>1, <2>2
    <3> QED BY <3>1, <3>2
  <2>5. IsSeq(p)
      BY <2>2 DEF IsSeq
  <2>6. CASE pkt[2] = <<"ERROR">>
    <3>1. p[2] = pkt[2]
        BY <1>0, <2>3
    <3> QED BY <2>5, <2>6, <3>1, ErrorStays
  <2>7. CASE pkt[2] # <<"ERROR">>
    <3>1. z = << 0 >>
        BY <2>7 DEF Trailing
    <3> HIDE DEF z
    <3>2. Resized(p, pkt)
        BY <2>2, <2>4, <2>5, <3>1 DEF Resized
    <3> QED BY <2>7, <3>2, CarriedResized, Zenon
  <2> QED BY <2>6, <2>7
<1>5. \/ \E i \in DOMAIN pkt : \E x \in Altered(pkt, i) : p = [pkt EXCEPT ![i] = x]
      \/ \E k \in 0..(Len(pkt) - 1) : p = SubSeq(pkt, 1, k)
      \/ p = Append(pkt, Trailing(pkt))
  <2> DEFINE A(i) == {[pkt EXCEPT ![i] = x] : x \in Altered(pkt, i)}
             B == {SubSeq(pkt, 1, k) : k \in 0..(Len(pkt) - 1)}
  <2>1. p \in UNION {A(i) : i \in DOMAIN pkt} \/ p \in B \/ p = Append(pkt, Trailing(pkt))
      OBVIOUS
  <2>2. p \in B => \E k \in 0..(Len(pkt) - 1) : p = SubSeq(pkt, 1, k)
      OBVIOUS
  <2>3. p \in UNION {A(i) : i \in DOMAIN pkt} => \E i \in DOMAIN pkt : p \in A(i)
    <3> HIDE DEF A
    <3> QED BY Zenon
  <2>4. \A i \in DOMAIN pkt : p \in A(i) =>
           \E x \in Altered(pkt, i) : p = [pkt EXCEPT ![i] = x]
      OBVIOUS
  <2> HIDE DEF A, B
  <2> QED BY <2>1, <2>2, <2>3, <2>4
<1> QED BY <1>2, <1>3, <1>4, <1>5

LEMMA CarriedEmpty ==
    ASSUME NEW c, NEW sv, NEW n, NEW f
    PROVE  Carried(<<>>, c, sv, n, f)
<1>1. <<>> \in Seq({}) /\ Len(<<>>) = 0
    OBVIOUS
<1>2. IsSeq(<<>>)
    BY <1>1, Zenon DEF IsSeq
<1> QED BY <1>1, <1>2 DEF Carried, HEADER_LEN

LEMMA CarriedError ==
    ASSUME NEW c, NEW sv, NEW n, NEW f, NEW sid, NEW seq, NEW e
    PROVE  Carried(auth_packet_build_error(sid, seq, e), c, sv, n, f)
<1> DEFINE cell == <<e>>
           pay == <<cell>>
           pkt == auth_packet_build_error(sid, seq, e)
<1>1. pay \in Seq({cell})
    OBVIOUS
<1>2. IsSeq(pay)
    BY <1>1, Zenon DEF IsSeq
<1>3. pkt = auth_packet_build("ERROR", sid, seq, pay)
    BY DEF auth_packet_build_error
<1> HIDE DEF pay, pkt
<1>4. Built(pkt, "ERROR", pay)
    BY <1>2, <1>3, PacketBuilt
<1>5. IsSeq(pkt) /\ pkt[2] = <<"ERROR">>
    BY <1>4 DEF Built
<1>6. pkt[2][1] = "ERROR" /\ pkt[2] = <<pkt[2][1]>>
    BY <1>5
<1>7. Carried(pkt, c, sv, n, f)
    BY <1>5, <1>6 DEF Carried
<1> QED BY <1>7 DEF pkt

\* A packet sent, given what its type requires of it.
LEMMA CarriedBuilt ==
    ASSUME NEW c, NEW sv, NEW n, NEW f, NEW pkt, NEW type, NEW payload, Built(pkt, type, payload),
           \A k \in 1..5 : k <= Len(payload) => payload[k] \in Cell,
           type = "AUTH_2" => \E s \in sv.issued : Len(payload) = 6 /\ Near(payload[6], ServerTag(s), n),
           type = "AUTH_3" => c.stage = "AUTH_3" /\ Len(payload) = 1 /\ Near(payload[1], ClientTag(c), n),
           type = "AUTH_ACK" => f \/ (c.stage = "AUTH_3" /\ \E s \in sv.accepted : s.key = c.key)
    PROVE  Carried(pkt, c, sv, n, f)
<1>1. IsSeq(pkt) /\ pkt[2] = <<type>>
    BY DEF Built
<1>2. pkt[2][1] = type /\ pkt[2] = <<pkt[2][1]>>
    BY <1>1
<1>3. CellsTyped(pkt)
    BY BuiltTyped
<1>4. ASSUME type = "AUTH_2" PROVE \E s \in sv.issued : Near(pkt[11], ServerTag(s), n)
  <2>1. PICK s \in sv.issued : Len(payload) = 6 /\ Near(payload[6], ServerTag(s), n)
      BY <1>4
  <2>2. pkt[5 + 6] = payload[6]
      BY <2>1 DEF Built
  <2> QED BY <2>1, <2>2
<1>5. ASSUME type = "AUTH_3" PROVE Near(pkt[6], ClientTag(c), n)
  <2>1. 1 \in 1..Len(payload)
      BY <1>5
  <2>2. pkt[5 + 1] = payload[1]
      BY <2>1 DEF Built
  <2> QED BY <1>5, <2>2
<1> QED BY <1>1, <1>2, <1>3, <1>4, <1>5 DEF Carried

-----------------------------------------------------------------------------
(* The inductive invariant.                                                *)

ClientRecord(c) ==
    c = [stage |-> c.stage, err |-> c.err, sid |-> c.sid, seq |-> c.seq, role |-> c.role,
         allowed |-> c.allowed, id |-> c.id, sk |-> c.sk, commitment |-> c.commitment,
         blind |-> c.blind, pinned |-> c.pinned, st |-> c.st, ac |-> c.ac, a1 |-> c.a1,
         key |-> c.key, kc |-> c.kc, th |-> c.th]
ServerRecord(sv) ==
    sv = [setup |-> sv.setup, auth |-> sv.auth, registry |-> sv.registry, issued |-> sv.issued,
          accepted |-> sv.accepted]
WireRecord(w) == w = [to |-> w.to, pkt |-> w.pkt]

\* The client's secrets and parameters.
ClientTyped(c) ==
    /\ c.id \in Int /\ c.sk \in Int /\ c.role \in Int /\ c.allowed \in Seq(Int) /\ c.pinned \in Point

\* Key, confirmation keys and transcript hash belong together.
KeysOf(x, ac, cp) ==
    /\ x.key \in Int /\ x.th \in Int /\ x.kc = auth_derive_kc_keys(x.key, x.th)
    /\ \E pub, sp, ns, es :
          /\ KcTyped(ac, cp, pub, sp, ns, es)
          /\ x.th = auth_kc_transcript_hash(ac, cp, pub, sp, ns, es)

\* A session as auth_server_handle_auth1 makes it.
Issued(s) == KeysOf(s, s.a1, s.a1.client_proof)

\* From AUTH_1 on the context of the client is what it sent, and once it has
\* accepted AUTH_2 its keys are of that context.
Context(c) ==
    /\ c.ac.pid = c.a1.pid /\ c.ac.nonce_c = c.a1.nonce_c /\ c.ac.eph_c = c.a1.eph_c
    /\ c.ac.pid \in Int /\ c.ac.nonce_c \in Int /\ c.ac.eph_c \in Point
    /\ c.a1.client_proof.a \in Point /\ c.a1.client_proof.s \in Int
ClientState(c) ==
    /\ c.stage \in {"AUTH_1", "AUTH_3", "done"} => Context(c)
    /\ c.stage \in {"AUTH_3", "done"} => KeysOf(c, c.ac, c.a1.client_proof)

ServerState(sv) ==
    /\ \A s \in sv.issued : Issued(s)
    /\ \A x \in DOMAIN sv.auth : sv.auth[x] \in sv.issued
    /\ sv.accepted \subseteq sv.issued

SameKeys(s, c) == s.key = c.key /\ s.kc = c.kc /\ s.th = c.th

\* What the two sides know of each other.
Agree(c, sv, f) ==
    /\ c.stage \in {"AUTH_3", "done"} => \E s \in sv.issued : SameKeys(s, c) /\ s.a1.pid = c.a1.pid
    /\ c.stage = "done" => f \/ \E s \in sv.accepted : s.key = c.key
    /\ \A s \in sv.accepted : c.stage \in {"AUTH_3", "done", "failed"} /\ SameContext(s.a1, s.a1.client_proof, c.a1, c.a1.client_proof)

HandshakeInv ==
    /\ ClientRecord(client) /\ ServerRecord(server) /\ WireRecord(wire)
    /\ damage \in Nat /\ damage <= MaxDamage
    /\ ClientTyped(client) /\ ClientState(client)
    /\ ServerState(server)
    /\ Agree(client, server, forged)
    /\ Carried(wire.pkt, client, server, damage, forged)

LEMMA InvParts ==
    ASSUME HandshakeInv
    PROVE  KeysAgree /\ ConfirmedAsSent
<1>1. Agree(client, server, forged)
    BY DEF HandshakeInv
<1>2. KeysAgree
    BY <1>1 DEF Agree, SameKeys, KeysAgree
<1>3. ConfirmedAsSent
    BY <1>1 DEF Agree, SameContext, ConfirmedAsSent
<1> QED BY <1>2, <1>3

LEMMA InitInv ==
    ASSUME IdealHash, Init
    PROVE  HandshakeInv
<1>1. PICK role \in Roles, list \in AllowedLists :
          client = [stage |-> "start", err |-> "OK", sid |-> 1, seq |-> 0, role |-> role,
                    allowed |-> list, id |-> auth_derive_device_id(Random["root"]),
                    sk |-> auth_derive_device_scalar(Random["root"]), commitment |-> Bad,
                    blind |-> 0, pinned |-> Bad, st |-> None, ac |-> None, a1 |-> None,
                    key |-> 0, kc |-> None, th |-> 0]
    BY DEF Init
<1>2. ClientRecord(client) /\ client.stage = "start"
    BY <1>1 DEF ClientRecord
<1>3. ClientTyped(client)
  <2>1. client.id \in Int
      BY <1>1 DEF auth_derive_device_id, IdealHash
  <2>2. client.sk \in Int
    <3>1. HashOf(<<Code["device-auth-v1"], Random["root"]>>) \in Int
        BY DEF IdealHash
    <3>2. auth_derive_device_scalar(Random["root"]) \in Int
        BY <3>1, Residue DEF auth_derive_device_scalar
    <3> QED BY <1>1, <3>2
  <2>3. client.role \in Int /\ client.allowed \in Seq(Int)
      BY <1>1, Constants
  <2>4. client.pinned \in Point
      BY <1>1, BadPoint
  <2> QED BY <2>1, <2>2, <2>3, <2>4 DEF ClientTyped
<1>4. ClientState(client)
    BY <1>2 DEF ClientState
<1>5. server = [setup |-> <<>>, auth |-> <<>>, registry |-> Others, issued |-> {}, accepted |-> {}]
    BY DEF Init
<1>6. ServerRecord(server) /\ server.issued = {} /\ server.accepted = {} /\ server.auth = <<>>
    BY <1>5 DEF ServerRecord
<1>7. ServerState(server)
    BY <1>6 DEF ServerState
<1>8. Agree(client, server, forged)
    BY <1>2, <1>6 DEF Agree
<1>9. WireRecord(wire) /\ wire.pkt = <<>> /\ damage = 0
    BY DEF Init, Quiet, WireRecord
<1>10. Carried(wire.pkt, client, server, damage, forged)
    BY <1>9, CarriedEmpty
<1> QED BY <1>2, <1>3, <1>4, <1>6, <1>7, <1>8, <1>9, <1>10, Constants DEF HandshakeInv

-----------------------------------------------------------------------------
(* Steps that change nothing but the wire, and steps that end the run.     *)

LEMMA WireStep ==
    ASSUME HandshakeInv, client' = client, server' = server, damage' \in Nat, damage' <= MaxDamage,
           forged => forged',
           WireRecord(wire'), Carried(wire'.pkt, client, server, damage', forged')
    PROVE  HandshakeInv'
<1>1. Agree(client, server, forged')
    BY DEF HandshakeInv, Agree
<1> QED BY <1>1 DEF HandshakeInv

LEMMA RefuseStep ==
    ASSUME HandshakeInv, client' = client, server' = server, damage' = damage, forged' = forged, NEW e, Refuses(e)
    PROVE  HandshakeInv'
<1> DEFINE pkt == auth_packet_build_error(Request.session_id, Request.seq, e)
<1>1. wire' = [to |-> "client", pkt |-> pkt]
    BY DEF Refuses
<1>2. Carried(pkt, client, server, damage, forged)
    BY CarriedError
<1> HIDE DEF pkt
<1>3. WireRecord(wire') /\ wire'.pkt = pkt
    BY <1>1 DEF WireRecord
<1>4. damage' \in Nat /\ damage' <= MaxDamage
    BY DEF HandshakeInv
<1> QED BY <1>2, <1>3, <1>4, WireStep

LEMMA QuietWire ==
    ASSUME wire' = Quiet, NEW c, NEW sv, NEW n, NEW f
    PROVE  WireRecord(wire') /\ Carried(wire'.pkt, c, sv, n, f)
<1>1. WireRecord(wire') /\ wire'.pkt = <<>>
    BY DEF WireRecord, Quiet
<1> QED BY <1>1, CarriedEmpty

LEMMA DiscardStep ==
    ASSUME HandshakeInv, ServerDiscards
    PROVE  HandshakeInv'
<1>1. client' = client /\ server' = server /\ damage' = damage /\ forged' = forged
    BY DEF ServerDiscards
<1>2. CASE wire' = Quiet
  <2>1. WireRecord(wire') /\ Carried(wire'.pkt, client, server, damage', forged')
      BY <1>2, QuietWire
  <2>2. damage' \in Nat /\ damage' <= MaxDamage
      BY <1>1 DEF HandshakeInv
  <2> QED BY <1>1, <2>1, <2>2, WireStep
<1>3. CASE Refuses("UNKNOWN_PKT_TYPE")
    BY <1>1, <1>3, RefuseStep
<1> QED BY <1>2, <1>3 DEF ServerDiscards

LEMMA DamageStep ==
    ASSUME IdealHash, HandshakeInv, Damage
    PROVE  HandshakeInv'
<1> DEFINE Ps == (UNION {{[wire.pkt EXCEPT ![i] = c] : c \in Altered(wire.pkt, i)} :
                           i \in DOMAIN wire.pkt})
                \cup {SubSeq(wire.pkt, 1, n) : n \in 0..(Len(wire.pkt) - 1)}
                \cup {Append(wire.pkt, Trailing(wire.pkt))}
<1>1. /\ client' = client /\ server' = server /\ damage' = damage + 1 /\ damage < MaxDamage
      /\ forged' = forged
      /\ Len(wire.pkt) >= HEADER_LEN
    BY DEF Damage
<1>2. PICK p \in Ps : wire' = [wire EXCEPT !.pkt = p]
    BY DEF Damage
<1>3. WireRecord(wire') /\ wire'.pkt = p
  <2> HIDE DEF Ps
  <2> QED BY <1>2 DEF HandshakeInv, WireRecord
<1>4. Carried(p, client, server, damage + 1, forged)
  <2>1. damage \in Nat /\ Carried(wire.pkt, client, server, damage, forged)
      BY DEF HandshakeInv
  <2> QED BY <2>1, <1>1, <1>2, CarriedDamaged, Zenon
<1>5. damage' \in Nat /\ damage' <= MaxDamage
    BY <1>1, Constants DEF HandshakeInv
<1> HIDE DEF Ps
<1> QED BY <1>1, <1>3, <1>4, <1>5, WireStep

\* A client that fails keeps what it has.
LEMMA FailStep ==
    ASSUME HandshakeInv, NEW e, ClientEnds("failed", e), server' = server, damage' = damage, forged' = forged
    PROVE  HandshakeInv'
<1>1. client' = [client EXCEPT !.stage = "failed", !.err = e] /\ wire' = Quiet
    BY DEF ClientEnds
<1>2. ClientRecord(client)
    BY DEF HandshakeInv
<1>3. /\ ClientRecord(client') /\ client'.stage = "failed" /\ client'.id = client.id
      /\ client'.sk = client.sk /\ client'.role = client.role /\ client'.allowed = client.allowed
      /\ client'.pinned = client.pinned /\ client'.a1 = client.a1
    BY <1>1, <1>2 DEF ClientRecord
<1>4. ClientTyped(client')
    BY <1>3 DEF HandshakeInv, ClientTyped
<1>5. ClientState(client')
    BY <1>3 DEF ClientState
<1>6. Agree(client', server, forged)
    BY <1>3 DEF HandshakeInv, Agree, SameContext
<1>7. WireRecord(wire') /\ Carried(wire'.pkt, client', server, damage, forged)
    BY <1>1, QuietWire
<1> QED BY <1>3, <1>4, <1>5, <1>6, <1>7 DEF HandshakeInv

LEMMA GiveUpStep ==
    ASSUME HandshakeInv, GiveUp
    PROVE  HandshakeInv'
BY FailStep DEF GiveUp

-----------------------------------------------------------------------------
(* Steps of the server.                                                    *)

\* Payloads of one, two, five and six cells.
Cells(pay, n) == IsSeq(pay) /\ Len(pay) = n /\ \A k \in 1..5 : k <= Len(pay) => pay[k] \in Cell

LEMMA OneCell ==
    ASSUME NEW a \in Cell, NEW t, t = <<a>>
    PROVE  Cells(t, 1) /\ t[1] = a
<1>1. t \in Seq(Cell) /\ Len(t) = 1 /\ t[1] = a
    OBVIOUS
<1>2. IsSeq(t)
    BY <1>1 DEF IsSeq
<1> QED BY <1>1, <1>2 DEF Cells

LEMMA AckCells == Cells(auth_ack_encode, 1)
<1>1. <<ACK_BYTE>> \in Cell
    BY NumberCell DEF ACK_BYTE
<1> QED BY <1>1, OneCell DEF auth_ack_encode

LEMMA TwoCells ==
    ASSUME NEW a \in Cell, NEW b \in Cell, NEW t, t = <<a, b>>
    PROVE  Cells(t, 2)
<1>1. t \in Seq(Cell) /\ Len(t) = 2
    OBVIOUS
<1>2. IsSeq(t)
    BY <1>1 DEF IsSeq
<1> QED BY <1>1, <1>2 DEF Cells

LEMMA FiveCells ==
    ASSUME NEW a \in Cell, NEW b \in Cell, NEW c \in Cell, NEW d \in Cell, NEW e \in Cell,
           NEW t, t = <<a, b, c, d, e>>
    PROVE  Cells(t, 5)
<1>1. t \in Seq(Cell) /\ Len(t) = 5
    OBVIOUS
<1>2. IsSeq(t)
    BY <1>1 DEF IsSeq
<1> QED BY <1>1, <1>2 DEF Cells

LEMMA SixCells ==
    ASSUME NEW a \in Cell, NEW b \in Cell, NEW c \in Cell, NEW d \in Cell, NEW e \in Cell,
           NEW f \in Cell, NEW t, t = <<a, b, c, d, e, f>>
    PROVE  Cells(t, 6) /\ t[6] = f
<1>1. t \in Seq(Cell) /\ Len(t) = 6 /\ t[6] = f
    OBVIOUS
<1>2. IsSeq(t)
    BY <1>1 DEF IsSeq
<1> QED BY <1>1, <1>2 DEF Cells

LEMMA NearSelf ==
    ASSUME NEW v \in Int, NEW n \in Nat
    PROVE  Near(<<v>>, v, n)
<1>1. 0 \in Drift(n) /\ v + 0 = v
    BY DriftFacts
<1> QED BY <1>1 DEF Near

LEMMA AnswerBuilt ==
    ASSUME NEW type, NEW payload, IsSeq(payload), Answers(type, payload)
    PROVE  WireRecord(wire') /\ Built(wire'.pkt, type, payload)
<1> DEFINE pkt == auth_packet_build(type, Request.session_id, Request.seq, payload)
<1>1. wire' = [to |-> "client", pkt |-> pkt]
    BY DEF Answers
<1>2. Built(pkt, type, payload)
    BY PacketBuilt
<1> HIDE DEF pkt
<1>3. WireRecord(wire') /\ wire'.pkt = pkt
    BY <1>1 DEF WireRecord
<1> QED BY <1>2, <1>3

\* A forged acknowledgement may be any, and says nothing from then on.
LEMMA ForgeAckStep ==
    ASSUME HandshakeInv, NEW type \in {"SETUP_ACK", "AUTH_ACK"}, ForgeAck(type)
    PROVE  HandshakeInv'
<1> DEFINE p == auth_packet_build(type, client.sid, client.seq, auth_ack_encode)
<1>1. /\ client' = client /\ server' = server /\ damage' = damage + 1 /\ damage < MaxDamage
      /\ forged' = TRUE /\ wire' = [wire EXCEPT !.pkt = p]
    BY DEF ForgeAck
<1>2. Built(p, type, auth_ack_encode)
    BY AckCells, PacketBuilt DEF Cells
<1> HIDE DEF p
<1>3. WireRecord(wire') /\ wire'.pkt = p
    BY <1>1 DEF HandshakeInv, WireRecord
<1>4. Carried(p, client, server, damage', TRUE)
    BY <1>2, AckCells, CarriedBuilt DEF Cells
<1>5. damage' \in Nat /\ damage' <= MaxDamage
    BY <1>1, Constants DEF HandshakeInv
<1> QED BY <1>1, <1>3, <1>4, <1>5, WireStep

LEMMA PayloadTyped ==
    ASSUME NEW h, NEW pkt, Decoded(h, pkt), CellsTyped(pkt)
    PROVE  Len(h.payload) \in Nat /\ \A k \in 1..5 : k <= Len(h.payload) => h.payload[k] \in Cell
<1>1. /\ Len(pkt) \in Nat /\ Len(pkt) >= 5 /\ Len(h.payload) = Len(pkt) - 5
      /\ \A k \in 1..(Len(pkt) - 5) : h.payload[k] = pkt[5 + k]
    BY DEF Decoded, HEADER_LEN
<1>2. ASSUME NEW k \in 1..5, k <= Len(h.payload) PROVE h.payload[k] \in Cell
  <2>1. k \in 1..(Len(pkt) - 5) /\ 5 + k \in 6..10 /\ 5 + k <= Len(pkt)
      BY <1>1, <1>2
  <2>2. pkt[5 + k] \in Cell
      BY <2>1 DEF CellsTyped
  <2> QED BY <2>1, <2>2, <1>1
<1> QED BY <1>1, <1>2

\* What arrives decodes, and its fields are typed.
LEMMA Arrived ==
    ASSUME HandshakeInv, NEW type, type # "ERROR", Arrives(type)
    PROVE  /\ Decoded(Request, wire.pkt) /\ wire.pkt[2][1] = type /\ Len(wire.pkt) >= HEADER_LEN
           /\ CellsTyped(wire.pkt)
<1>1. Carried(wire.pkt, client, server, damage, forged)
    BY DEF HandshakeInv
<1>2. Decoded(Request, wire.pkt)
    BY <1>1, HeaderDecoded DEF Arrives, Request, Carried
<1>3. wire.pkt[2][1] = type /\ Len(wire.pkt) >= HEADER_LEN
    BY <1>2 DEF Arrives, Decoded
<1> QED BY <1>1, <1>2, <1>3 DEF Carried

\* Enrolment leaves the sessions of AUTH alone.
LEMMA SetupServerStep ==
    ASSUME HandshakeInv, client' = client, damage' = damage, forged' = forged, ServerRecord(server'),
           server'.auth = server.auth, server'.issued = server.issued,
           server'.accepted = server.accepted,
           NEW type, type \in {"SETUP_2", "SETUP_ACK"}, NEW pay, NEW n, Cells(pay, n), Answers(type, pay)
    PROVE  HandshakeInv'
<1>1. WireRecord(wire') /\ Built(wire'.pkt, type, pay)
    BY AnswerBuilt DEF Cells
<1>2. Carried(wire'.pkt, client, server', damage, forged)
    BY <1>1, CarriedBuilt DEF Cells
<1>3. ServerState(server')
    BY DEF HandshakeInv, ServerState
<1>4. Agree(client, server', forged)
    BY DEF HandshakeInv, Agree
<1> QED BY <1>1, <1>2, <1>3, <1>4 DEF HandshakeInv

LEMMA ServerSecrets ==
    /\ ServerSk \in Int /\ ServerPub \in Point
    /\ Draw("server_nonce") \in Int /\ Draw("setup_challenge") \in Int /\ Draw("r_setup_s") \in Int
    /\ Draw("eph_s") \in Int /\ Draw("nonce_s") \in Int /\ Draw("r_auth_s") \in Int
<1>1. /\ Random["server"] \in Int /\ Draw("server_nonce") \in Int /\ Draw("setup_challenge") \in Int
      /\ Draw("r_setup_s") \in Int /\ Draw("eph_s") \in Int /\ Draw("nonce_s") \in Int
      /\ Draw("r_auth_s") \in Int
    BY DrawInt DEF DrawNames
<1> QED BY <1>1, BasePoint DEF ServerSk, ServerPub

LEMMA Setup1Step ==
    ASSUME IdealHash, HandshakeInv, auth_server_handle_setup1
    PROVE  HandshakeInv'
<1> DEFINE m == auth_setup1_decode(Request.payload)
           st == [device_id |-> m.device_id, device_pub |-> m.device_pub, server_pub |-> ServerPub,
                  client_nonce |-> m.client_nonce, server_nonce |-> Draw("server_nonce"),
                  setup_challenge |-> Draw("setup_challenge")]
           p == auth_prove_setup_server(Draw("r_setup_s"), ServerSk, st)
           sess == [st |-> st, role_commitment |-> m.role_commitment]
           pay == auth_setup2_encode([server_nonce |-> st.server_nonce,
                       setup_challenge |-> st.setup_challenge, server_pub |-> ServerPub,
                       server_proof |-> p])
<1>1. client' = client /\ damage' = damage /\ forged' = forged
    BY DEF auth_server_handle_setup1
<1>2. \/ \E e : Refuses(e) /\ server' = server
      \/ /\ p.err = "OK" /\ Answers("SETUP_2", pay)
         /\ server' = [server EXCEPT !.setup = Store(@, Request.session_id, sess)]
    BY DEF auth_server_handle_setup1
<1>3. pay = << <<Draw("server_nonce")>>, <<Draw("setup_challenge")>>, ServerPub, p.a, <<p.s>> >>
    BY DEF auth_setup2_encode
<1>4. p.err = "OK" => p.a \in Point /\ p.s \in Int
    BY ServerSecrets, ProofsTyped
<1> HIDE DEF pay, p, st, sess
<1>5. CASE \E e : Refuses(e) /\ server' = server
    BY <1>1, <1>5, RefuseStep
<1>6. CASE /\ p.err = "OK" /\ Answers("SETUP_2", pay)
           /\ server' = [server EXCEPT !.setup = Store(@, Request.session_id, sess)]
  <2>1. /\ <<Draw("server_nonce")>> \in Cell /\ <<Draw("setup_challenge")>> \in Cell
        /\ ServerPub \in Cell /\ p.a \in Cell /\ <<p.s>> \in Cell
      BY <1>4, <1>6, ServerSecrets, NumberCell, PointCells
  <2>2. Cells(pay, 5)
      BY <2>1, <1>3, FiveCells
  <2>3. /\ ServerRecord(server') /\ server'.auth = server.auth /\ server'.issued = server.issued
        /\ server'.accepted = server.accepted
    <3>1. ServerRecord(server)
        BY DEF HandshakeInv
    <3> QED BY <1>6, <3>1 DEF ServerRecord
  <2> QED BY <2>2, <2>3, <1>1, <1>6, SetupServerStep
<1> QED BY <1>2, <1>5, <1>6

LEMMA Setup3Step ==
    ASSUME HandshakeInv, auth_server_handle_setup3
    PROVE  HandshakeInv'
<1> DEFINE sid == Request.session_id
           pending == server.setup[sid]
           entry == [id |-> pending.st.device_id, pub |-> pending.st.device_pub,
                     commitment |-> pending.role_commitment]
<1>1. client' = client /\ damage' = damage /\ forged' = forged
    BY DEF auth_server_handle_setup3
<1>2. \/ \E e : Refuses(e) /\ server' = server
      \/ /\ Answers("SETUP_ACK", auth_ack_encode)
         /\ server' = [server EXCEPT !.setup = Release(@, sid),
                                     !.registry = auth_registry_put(@, entry)]
    BY DEF auth_server_handle_setup3
<1> HIDE DEF sid, entry
<1>3. CASE \E e : Refuses(e) /\ server' = server
    BY <1>1, <1>3, RefuseStep
<1>4. CASE /\ Answers("SETUP_ACK", auth_ack_encode)
           /\ server' = [server EXCEPT !.setup = Release(@, sid),
                                       !.registry = auth_registry_put(@, entry)]
  <2>1. Cells(auth_ack_encode, 1)
    <3>1. <<ACK_BYTE>> \in Cell
        BY NumberCell DEF ACK_BYTE
    <3> QED BY <3>1, OneCell DEF auth_ack_encode
  <2>2. /\ ServerRecord(server') /\ server'.auth = server.auth /\ server'.issued = server.issued
        /\ server'.accepted = server.accepted
    <3>1. ServerRecord(server)
        BY DEF HandshakeInv
    <3> QED BY <1>4, <3>1 DEF ServerRecord
  <2> QED BY <2>1, <2>2, <1>1, <1>4, SetupServerStep
<1> QED BY <1>2, <1>3, <1>4

\* The keys either side derives.
LEMMA HkdfInt ==
    ASSUME IdealHash, NEW salt, NEW ikm, NEW info
    PROVE  auth_hkdf_sha256(salt, ikm, info) \in Int
<1> DEFINE t == salt \o <<-2>> \o ikm \o <<-2>> \o info
<1>1. auth_hkdf_sha256(salt, ikm, info) = HashOf(t)
    BY DEF auth_hkdf_sha256
<1> HIDE DEF t
<1> QED BY <1>1 DEF IdealHash

LEMMA DerivedKeys ==
    ASSUME IdealHash, NEW x, NEW secret, NEW peer, NEW ac, NEW cp, NEW pub, NEW sp, NEW ns, NEW es,
           KcTyped(ac, cp, pub, sp, ns, es), x.key = auth_derive_session_key(secret, peer, ac, ns, es),
           x.th = auth_kc_transcript_hash(ac, cp, pub, sp, ns, es),
           x.kc = auth_derive_kc_keys(x.key, x.th)
    PROVE  KeysOf(x, ac, cp)
<1>1. x.key \in Int
  <2> DEFINE shared == auth_scalarmult(secret, peer)
             salt == <<ac.nonce_c, ns>>
             info == <<Code["session key v2"], ac.pid>> \o ac.eph_c \o es
  <2>1. x.key = IF shared = Bad THEN -1 ELSE auth_hkdf_sha256(salt, shared, info)
      BY DEF auth_derive_session_key
  <2> HIDE DEF shared, salt, info
  <2>2. auth_hkdf_sha256(salt, shared, info) \in Int
      BY HkdfInt
  <2> QED BY <2>1, <2>2
<1>2. x.th \in Int
    BY DEF auth_kc_transcript_hash, auth_transcript_hash_sha256, IdealHash
<1> QED BY <1>1, <1>2 DEF KeysOf

\* Only an AUTH_1 that decodes is accepted.
LEMMA TryDecodes ==
    ASSUME NEW m, try_handle_auth1(m).err = "OK"
    PROVE  m.err = "OK"
BY DEF try_handle_auth1

LEMMA Auth1Step ==
    ASSUME IdealHash, HandshakeInv, auth_server_handle_auth1
    PROVE  HandshakeInv'
<1> DEFINE m == auth_auth1_decode(Request.payload)
           r == try_handle_auth1(m)
           eph_s == auth_scalarmult_base(Draw("eph_s"))
           nonce_s == Draw("nonce_s")
           p == auth_prove_auth_server(Draw("r_auth_s"), ServerSk, nonce_s, eph_s)
           key == auth_derive_session_key(Draw("eph_s"), m.eph_c, m, nonce_s, eph_s)
           th == auth_kc_transcript_hash(m, m.client_proof, ServerPub, p, nonce_s, eph_s)
           kc == auth_derive_kc_keys(key, th)
           s == [sid |-> Request.session_id, device |-> r.entry, a1 |-> m, key |-> key, kc |-> kc,
                 th |-> th]
           pay == auth_auth2_encode([server_pub |-> ServerPub,
                       server_proof |-> p, nonce_s |-> nonce_s, eph_s |-> eph_s,
                       tag_s |-> auth_hmac_tag(kc.s2c, "server finished", th)])
           next == [server EXCEPT !.auth = Store(@, s.sid, s), !.issued = @ \cup {s}]
<1>1. client' = client /\ damage' = damage /\ forged' = forged /\ Arrives("AUTH_1")
    BY DEF auth_server_handle_auth1
<1>2. \/ \E e : Refuses(e) /\ server' = server
      \/ r.err = "OK" /\ p.err = "OK" /\ server' = next /\ Answers("AUTH_2", pay)
    BY DEF auth_server_handle_auth1
<1>3. CASE \E e : Refuses(e) /\ server' = server
    BY <1>1, <1>3, RefuseStep
<1>4. CASE r.err = "OK" /\ p.err = "OK" /\ server' = next /\ Answers("AUTH_2", pay)
  <2>1. m.err = "OK"
      BY <1>4, TryDecodes
  <2>2. /\ Len(Request.payload) \in Nat
        /\ \A k \in 1..5 : k <= Len(Request.payload) => Request.payload[k] \in Cell
      BY <1>1, Arrived, PayloadTyped
  <2>3. /\ Len(Request.payload) >= 9 /\ m.pid = Request.payload[1][1]
        /\ m.client_proof = [a |-> AsPoint(Request.payload[2]), s |-> Request.payload[3][1]]
        /\ m.nonce_c = Request.payload[4][1] /\ m.eph_c = AsPoint(Request.payload[5])
    <3> HIDE DEF m
    <3>1. m = auth_auth1_decode(Request.payload)
        BY DEF m
    <3> QED BY <3>1, <2>1, <2>2, Auth1Decoded
  <2>4. p.a \in Point /\ p.s \in Int
      BY <1>4, ServerSecrets, ProofsTyped
  <2>5. eph_s \in Point /\ nonce_s \in Int /\ ServerPub \in Point
      BY ServerSecrets, BasePoint
  <2>6. /\ s.sid = Request.session_id /\ s.a1 = m /\ s.key = key /\ s.kc = kc /\ s.th = th
      OBVIOUS
  <2>7. pay = <<ServerPub, p.a, <<p.s>>, <<nonce_s>>, eph_s, <<ServerTag(s)>> >>
      BY DEF auth_auth2_encode, ServerTag
  <2> HIDE DEF s, pay
  <2>8. KcTyped(m, m.client_proof, ServerPub, p, nonce_s, eph_s)
    <3>1. /\ Request.payload[1] \in Cell /\ Request.payload[2] \in Cell /\ Request.payload[3] \in Cell
          /\ Request.payload[4] \in Cell /\ Request.payload[5] \in Cell
        BY <2>2, <2>3
    <3>2. /\ Request.payload[1][1] \in Int /\ AsPoint(Request.payload[2]) \in Point
          /\ Request.payload[3][1] \in Int /\ Request.payload[4][1] \in Int
          /\ AsPoint(Request.payload[5]) \in Point
        BY <3>1, CellParts
    <3> HIDE DEF m, p, nonce_s, eph_s
    <3> QED BY <2>3, <2>4, <2>5, <3>2 DEF KcTyped
  <2>9. Issued(s)
    <3> HIDE DEF m, p, nonce_s, eph_s
    <3> QED BY <2>6, <2>8, DerivedKeys DEF Issued
  <2>10. Cells(pay, 6) /\ pay[6] = <<ServerTag(s)>>
    <3>1. ServerTag(s) \in Int
        BY TagsInt
    <3>2. /\ ServerPub \in Cell /\ p.a \in Cell /\ <<p.s>> \in Cell /\ <<nonce_s>> \in Cell
          /\ eph_s \in Cell /\ <<ServerTag(s)>> \in Cell
        BY <3>1, <2>4, <2>5, NumberCell, PointCells
    <3> DEFINE c2 == p.a
               c3 == <<p.s>>
               c4 == <<nonce_s>>
               c6 == <<ServerTag(s)>>
    <3>3. pay = <<ServerPub, c2, c3, c4, eph_s, c6>>
        BY <2>7
    <3>4. c2 \in Cell /\ c3 \in Cell /\ c4 \in Cell /\ c6 \in Cell
        BY <3>2
    <3> HIDE DEF c2, c3, c4, c6, eph_s
    <3>5. ServerPub \in Cell /\ eph_s \in Cell
        BY <3>2
    <3>6. Cells(pay, 6)
        BY <3>3, <3>4, <3>5, SixCells
    <3>7. pay[6] = c6
        BY <3>3
    <3> QED BY <3>6, <3>7 DEF c6
  <2> HIDE DEF m, r, p, nonce_s, eph_s, key, th, kc
  <2>11. /\ ServerRecord(server) /\ ServerState(server) /\ Agree(client, server, forged) /\ damage \in Nat
      BY DEF HandshakeInv
  <2>12. /\ ServerRecord(server') /\ server'.auth = Store(server.auth, s.sid, s)
         /\ server'.issued = server.issued \cup {s} /\ server'.accepted = server.accepted
      BY <1>4, <2>11 DEF ServerRecord
  <2>13. ServerState(server')
    <3>1. ASSUME NEW x \in DOMAIN server'.auth PROVE server'.auth[x] \in server'.issued
        BY <2>11, <2>12 DEF Store, ServerState
    <3> QED BY <3>1, <2>9, <2>11, <2>12 DEF ServerState
  <2>14. Agree(client, server', forged)
      BY <2>11, <2>12 DEF Agree
  <2>15. WireRecord(wire') /\ Built(wire'.pkt, "AUTH_2", pay)
      BY <1>4, <2>10, AnswerBuilt DEF Cells
  <2>16. Near(pay[6], ServerTag(s), damage)
      BY <2>10, <2>11, NearSelf, TagsInt
  <2>17. Carried(wire'.pkt, client, server', damage, forged)
    <3>1. \E q \in server'.issued : Len(pay) = 6 /\ Near(pay[6], ServerTag(q), damage)
        BY <2>10, <2>12, <2>16 DEF Cells
    <3> QED BY <3>1, <2>10, <2>15, CarriedBuilt DEF Cells
  <2> QED BY <1>1, <2>12, <2>13, <2>14, <2>15, <2>17 DEF HandshakeInv
<1> QED BY <1>2, <1>3, <1>4

\* Two sides with the same tag have the same keys, and then the same context.
LEMMA TagsAgree ==
    ASSUME IdealHash, NEW n \in Nat, n <= MaxDamage, NEW x, NEW y, NEW cell,
           NEW ac, NEW cp, NEW bc, NEW bp, KeysOf(x, ac, cp), KeysOf(y, bc, bp),
           \/ cell[1] = ServerTag(x) /\ Near(cell, ServerTag(y), n)
           \/ cell[1] = ClientTag(x) /\ Near(cell, ClientTag(y), n)
    PROVE  /\ x.key = y.key /\ x.kc = y.kc /\ x.th = y.th
           /\ SameContext(ac, cp, bc, bp)
<1>1. /\ x.key \in Int /\ x.th \in Int /\ x.kc = auth_derive_kc_keys(x.key, x.th)
      /\ y.key \in Int /\ y.th \in Int /\ y.kc = auth_derive_kc_keys(y.key, y.th)
    BY DEF KeysOf
<1>2. x.kc.s2c \in Int /\ x.kc.c2s \in Int /\ y.kc.s2c \in Int /\ y.kc.c2s \in Int
  <2>1. ASSUME NEW k, NEW t
        PROVE  auth_derive_kc_keys(k, t).s2c \in Int /\ auth_derive_kc_keys(k, t).c2s \in Int
    <3> DEFINE a == auth_hkdf_sha256(<<t>>, <<k>>, <<Code["kc s2c"]>>)
               b == auth_hkdf_sha256(<<t>>, <<k>>, <<Code["kc c2s"]>>)
    <3>1. a \in Int /\ b \in Int
        BY HkdfInt
    <3>2. auth_derive_kc_keys(k, t) = [s2c |-> a, c2s |-> b]
        BY DEF auth_derive_kc_keys
    <3> HIDE DEF a, b
    <3> QED BY <3>1, <3>2
  <2> QED BY <1>1, <2>1
<1>3. x.kc.s2c = y.kc.s2c \/ x.kc.c2s = y.kc.c2s
  <2>1. CASE cell[1] = ServerTag(x) /\ Near(cell, ServerTag(y), n)
      BY <2>1, <1>1, <1>2, FinishLabels, TagGuess DEF ServerTag
  <2>2. CASE cell[1] = ClientTag(x) /\ Near(cell, ClientTag(y), n)
      BY <2>2, <1>1, <1>2, FinishLabels, TagGuess DEF ClientTag
  <2> QED BY <2>1, <2>2
<1>4. x.key = y.key /\ x.th = y.th
    BY <1>1, <1>3, KcKeys
<1>5. PICK pub, sp, ns, es : /\ KcTyped(ac, cp, pub, sp, ns, es)
                             /\ x.th = auth_kc_transcript_hash(ac, cp, pub, sp, ns, es)
    BY DEF KeysOf
<1>6. PICK qub, tp, nt, et : /\ KcTyped(bc, bp, qub, tp, nt, et)
                             /\ y.th = auth_kc_transcript_hash(bc, bp, qub, tp, nt, et)
    BY DEF KeysOf
<1>7. auth_kc_transcript_hash(ac, cp, pub, sp, ns, es) = auth_kc_transcript_hash(bc, bp, qub, tp, nt, et)
    BY <1>4, <1>5, <1>6, Zenon
<1>8. SameContext(ac, cp, bc, bp)
    BY <1>5, <1>6, <1>7, KcInjective, Zenon
<1>9. x.kc = y.kc
    BY <1>1, <1>4, Zenon
<1> QED BY <1>4, <1>8, <1>9

\* A session that ends, accepted or not.
LEMMA Auth3Step ==
    ASSUME IdealHash, HandshakeInv, auth_server_handle_auth3
    PROVE  HandshakeInv'
<1> DEFINE m == auth_auth3_decode(Request.payload)
           sid == Request.session_id
           s == server.auth[sid]
           e == IF m.err # "OK" THEN m.err
                ELSE IF m.tag_c # auth_hmac_tag(s.kc.c2s, "client finished", s.th)
                THEN "KEY_CONFIRM" ELSE "OK"
           acc == IF e = "OK" THEN server.accepted \cup {s} ELSE server.accepted
<1>1. client' = client /\ damage' = damage /\ forged' = forged /\ Arrives("AUTH_3")
    BY DEF auth_server_handle_auth3
<1>2. \/ Refuses("UNKNOWN_SESSION") /\ server' = server
      \/ /\ sid \in DOMAIN server.auth
         /\ server' = [server EXCEPT !.auth = Release(@, sid), !.accepted = acc]
         /\ IF e = "OK" THEN Answers("AUTH_ACK", auth_ack_encode) ELSE Refuses(e)
    BY DEF auth_server_handle_auth3
<1>3. CASE Refuses("UNKNOWN_SESSION") /\ server' = server
    BY <1>1, <1>3, RefuseStep
<1>4. CASE /\ sid \in DOMAIN server.auth
           /\ server' = [server EXCEPT !.auth = Release(@, sid), !.accepted = acc]
           /\ IF e = "OK" THEN Answers("AUTH_ACK", auth_ack_encode) ELSE Refuses(e)
  <2>1. /\ ServerRecord(server) /\ ServerState(server) /\ Agree(client, server, forged)
        /\ Carried(wire.pkt, client, server, damage, forged) /\ ClientState(client)
        /\ damage \in Nat /\ damage <= MaxDamage
      BY DEF HandshakeInv
  <2>2. s \in server.issued /\ Issued(s)
      BY <1>4, <2>1 DEF ServerState
  <2>3. /\ Decoded(Request, wire.pkt) /\ wire.pkt[2][1] = "AUTH_3" /\ Len(wire.pkt) >= HEADER_LEN
        /\ Len(Request.payload) \in Nat
      BY <1>1, Arrived, PayloadTyped
  <2>4. client.stage = "AUTH_3" /\ (Len(wire.pkt) >= 6 => Near(wire.pkt[6], ClientTag(client), damage))
      BY <2>1, <2>3 DEF Carried
  <2>5. ASSUME e = "OK"
        PROVE  s.key = client.key /\ SameContext(s.a1, s.a1.client_proof, client.a1, client.a1.client_proof)
    <3>1. m.err = "OK" /\ m.tag_c = ClientTag(s)
        BY <2>5 DEF ClientTag
    <3>2. Len(Request.payload) = 1 /\ m.tag_c = Request.payload[1][1]
      <4> HIDE DEF m
      <4>1. m = auth_auth3_decode(Request.payload)
          BY DEF m
      <4> QED BY <4>1, <3>1, <2>3, Auth3Decoded
    <3>3. Len(wire.pkt) = 6 /\ Request.payload[1] = wire.pkt[6]
      <4>1. Len(wire.pkt) \in Nat /\ Len(Request.payload) = Len(wire.pkt) - 5
          BY <2>3 DEF Decoded
      <4>2. Len(wire.pkt) = 6 /\ 1 \in 1..(Len(wire.pkt) - 5)
        <5> DEFINE k == Len(wire.pkt)
                   l == Len(Request.payload)
        <5>1. k \in Nat /\ l = k - 5 /\ l = 1
            BY <4>1, <3>2
        <5> HIDE DEF k, l
        <5>2. k = 6 /\ 1 \in 1..(k - 5)
            BY <5>1
        <5> QED BY <5>2 DEF k
      <4>3. Request.payload[1] = wire.pkt[5 + 1]
          BY <2>3, <4>2 DEF Decoded
      <4> QED BY <4>2, <4>3
    <3>4. wire.pkt[6][1] = ClientTag(s) /\ Near(wire.pkt[6], ClientTag(client), damage)
        BY <3>1, <3>2, <3>3, <2>4
    <3>5. KeysOf(s, s.a1, s.a1.client_proof) /\ KeysOf(client, client.ac, client.a1.client_proof)
        BY <2>1, <2>2, <2>4 DEF Issued, ClientState
    <3> HIDE DEF m, s, e
    <3>6. s.key = client.key /\ SameContext(s.a1, s.a1.client_proof, client.ac, client.a1.client_proof)
        BY <3>4, <3>5, <2>1, TagsAgree
    <3>7. Context(client)
        BY <2>1, <2>4 DEF ClientState
    <3> QED BY <3>6, <3>7 DEF SameContext, Context
  <2> HIDE DEF m, s, e
  <2>6. /\ ServerRecord(server') /\ server'.auth = Release(server.auth, sid)
        /\ server'.issued = server.issued /\ server'.accepted = acc
      BY <1>4, <2>1 DEF ServerRecord
  <2>7. ServerState(server')
    <3>1. ASSUME NEW x \in DOMAIN server'.auth PROVE server'.auth[x] \in server'.issued
        BY <2>1, <2>6 DEF Release, ServerState
    <3>2. acc \subseteq server.issued
        BY <2>1, <2>2 DEF ServerState
    <3> QED BY <3>1, <3>2, <2>1, <2>6 DEF ServerState
  <2>8. Agree(client, server', forged)
    <3>1. ASSUME NEW q \in acc
          PROVE  SameContext(q.a1, q.a1.client_proof, client.a1, client.a1.client_proof)
        BY <2>1, <2>5 DEF Agree
    <3>2. server.accepted \subseteq acc
        OBVIOUS
    <3> HIDE DEF acc
    <3> QED BY <3>1, <3>2, <2>1, <2>4, <2>6 DEF Agree
  <2>9. WireRecord(wire') /\ Carried(wire'.pkt, client, server', damage, forged)
    <3>1. CASE e = "OK"
      <4>1. Cells(auth_ack_encode, 1)
          BY AckCells
      <4>2. WireRecord(wire') /\ Built(wire'.pkt, "AUTH_ACK", auth_ack_encode)
          BY <1>4, <3>1, <4>1, AnswerBuilt DEF Cells
      <4>3. \E q \in server'.accepted : q.key = client.key
          BY <3>1, <2>5, <2>6
      <4> QED BY <2>4, <4>1, <4>2, <4>3, CarriedBuilt DEF Cells
    <3>2. CASE e # "OK"
      <4> DEFINE pkt == auth_packet_build_error(Request.session_id, Request.seq, e)
      <4>1. wire' = [to |-> "client", pkt |-> pkt]
          BY <1>4, <3>2 DEF Refuses
      <4>2. Carried(pkt, client, server', damage, forged)
          BY CarriedError
      <4> HIDE DEF pkt
      <4>3. WireRecord(wire') /\ wire'.pkt = pkt
          BY <4>1 DEF WireRecord
      <4> QED BY <4>2, <4>3, Zenon
    <3> QED BY <3>1, <3>2
  <2> QED BY <1>1, <2>6, <2>7, <2>8, <2>9 DEF HandshakeInv
<1> QED BY <1>2, <1>3, <1>4

-----------------------------------------------------------------------------
(* Steps of the client.                                                    *)

LEMMA SendBuilt ==
    ASSUME NEW c, ClientRecord(c), NEW type, NEW payload, IsSeq(payload), ClientSends(c, type, payload)
    PROVE  /\ ClientRecord(client') /\ client'.stage = type
           /\ client'.role = c.role /\ client'.allowed = c.allowed /\ client'.id = c.id
           /\ client'.sk = c.sk /\ client'.pinned = c.pinned /\ client'.ac = c.ac /\ client'.a1 = c.a1
           /\ client'.key = c.key /\ client'.kc = c.kc /\ client'.th = c.th
           /\ WireRecord(wire') /\ Built(wire'.pkt, type, payload)
<1> DEFINE pkt == auth_packet_build(type, c.sid, c.seq + 1, payload)
<1>1. Built(pkt, type, payload)
    BY PacketBuilt
<1>2. wire' = [to |-> "server", pkt |-> pkt] /\ client' = [c EXCEPT !.stage = type, !.seq = c.seq + 1]
    BY DEF ClientSends
<1> HIDE DEF pkt
<1>3. WireRecord(wire') /\ wire'.pkt = pkt
    BY <1>2 DEF WireRecord
<1>4. /\ ClientRecord(client') /\ client'.stage = type
      /\ client'.role = c.role /\ client'.allowed = c.allowed /\ client'.id = c.id
      /\ client'.sk = c.sk /\ client'.pinned = c.pinned /\ client'.ac = c.ac /\ client'.a1 = c.a1
      /\ client'.key = c.key /\ client'.kc = c.kc /\ client'.th = c.th
    BY <1>2 DEF ClientRecord
<1> QED BY <1>1, <1>3, <1>4

\* Before AUTH_1 there is no session.
LEMMA EarlyStep ==
    ASSUME HandshakeInv, server' = server, damage' = damage, forged' = forged,
           client.stage \in {"start", "SETUP_1", "SETUP_3", "enrolled"},
           ClientRecord(client'), ClientTyped(client'),
           client'.stage \in {"SETUP_1", "SETUP_3", "enrolled", "AUTH_1"},
           client'.stage = "AUTH_1" => Context(client'),
           WireRecord(wire'), Carried(wire'.pkt, client', server, damage, forged)
    PROVE  HandshakeInv'
<1>1. ClientState(client')
    BY DEF ClientState
<1>2. server.accepted = {}
    BY DEF HandshakeInv, Agree
<1>3. Agree(client', server, forged)
    BY <1>2 DEF Agree
<1> QED BY <1>1, <1>3 DEF HandshakeInv

\* A response whose verdict is OK is of the type awaited.
LEMMA ResponseOK ==
    ASSUME NEW h, NEW type, ResponseError(h, type) = "OK"
    PROVE  h.err = "OK" /\ h.pkt_type = type
<1>1. auth_packet_parse_error(h.payload) # "OK"
  <2>1. ASSUME NEW x PROVE normalize_wire_error_code(x) # "OK"
    <3>1. "OK" \notin WireCode
        BY DEF WireCode
    <3> QED BY <3>1 DEF normalize_wire_error_code
  <2> QED BY <2>1 DEF auth_packet_parse_error
<1> QED BY <1>1 DEF ResponseError

\* What the client receives decodes.
LEMMA Received ==
    ASSUME HandshakeInv, NEW type, type # "ERROR",
           ResponseError(auth_header_decode(wire.pkt), type) = "OK"
    PROVE  /\ Decoded(auth_header_decode(wire.pkt), wire.pkt) /\ wire.pkt[2][1] = type
           /\ Len(wire.pkt) >= HEADER_LEN /\ CellsTyped(wire.pkt)
<1> DEFINE h == auth_header_decode(wire.pkt)
<1>1. Carried(wire.pkt, client, server, damage, forged)
    BY DEF HandshakeInv
<1>2. h.err = "OK" /\ h.pkt_type = type
    BY ResponseOK
<1>3. Decoded(h, wire.pkt)
    BY <1>1, <1>2, HeaderDecoded DEF Carried
<1>4. wire.pkt[2][1] = type /\ Len(wire.pkt) >= HEADER_LEN
    BY <1>2, <1>3 DEF Decoded
<1> QED BY <1>1, <1>3, <1>4 DEF Carried

LEMMA AckStep ==
    ASSUME HandshakeInv, auth_client_handle_auth_ack
    PROVE  HandshakeInv'
<1>1. client.stage = "AUTH_3" /\ server' = server /\ damage' = damage /\ forged' = forged
    BY DEF auth_client_handle_auth_ack
<1>2. \/ \E e : ClientEnds("failed", e)
      \/ /\ ResponseError(auth_header_decode(wire.pkt), "AUTH_ACK") = "OK"
         /\ ClientEnds("done", "OK")
    BY DEF auth_client_handle_auth_ack
<1>3. CASE \E e : ClientEnds("failed", e)
    BY <1>1, <1>3, FailStep
<1>4. CASE /\ ResponseError(auth_header_decode(wire.pkt), "AUTH_ACK") = "OK"
           /\ ClientEnds("done", "OK")
  <2>1. /\ ClientRecord(client) /\ ClientTyped(client) /\ ClientState(client)
        /\ Agree(client, server, forged) /\ Carried(wire.pkt, client, server, damage, forged)
      BY DEF HandshakeInv
  <2>2. forged \/ \E s \in server.accepted : s.key = client.key
      BY <1>4, <2>1, Received DEF Carried
  <2>3. client' = [client EXCEPT !.stage = "done", !.err = "OK"] /\ wire' = Quiet
      BY <1>4 DEF ClientEnds
  <2>4. /\ ClientRecord(client') /\ client'.stage = "done" /\ client'.id = client.id
        /\ client'.sk = client.sk /\ client'.role = client.role /\ client'.allowed = client.allowed
        /\ client'.pinned = client.pinned /\ client'.a1 = client.a1 /\ client'.ac = client.ac
        /\ client'.key = client.key /\ client'.kc = client.kc /\ client'.th = client.th
      BY <2>1, <2>3 DEF ClientRecord
  <2>5. ClientTyped(client')
      BY <2>1, <2>4 DEF ClientTyped
  <2>6. ClientState(client')
      BY <1>1, <2>1, <2>4 DEF ClientState, Context, KeysOf
  <2>7. Agree(client', server, forged)
      BY <1>1, <2>1, <2>2, <2>4 DEF Agree, SameKeys
  <2>8. WireRecord(wire') /\ Carried(wire'.pkt, client', server, damage, forged)
      BY <2>3, QuietWire
  <2> QED BY <1>1, <2>4, <2>5, <2>6, <2>7, <2>8 DEF HandshakeInv
<1> QED BY <1>2, <1>3, <1>4

LEMMA SetupAckStep ==
    ASSUME HandshakeInv, auth_client_handle_setup_ack
    PROVE  HandshakeInv'
<1>1. client.stage = "SETUP_3" /\ server' = server /\ damage' = damage /\ forged' = forged
    BY DEF auth_client_handle_setup_ack
<1>2. \/ \E e : ClientEnds("failed", e)
      \/ /\ client' = [client EXCEPT !.stage = "enrolled", !.sid = 2, !.seq = 0]
         /\ wire' = Quiet
    BY DEF auth_client_handle_setup_ack
<1>3. CASE \E e : ClientEnds("failed", e)
    BY <1>1, <1>3, FailStep
<1>4. CASE /\ client' = [client EXCEPT !.stage = "enrolled", !.sid = 2, !.seq = 0]
           /\ wire' = Quiet
  <2>1. ClientRecord(client) /\ ClientTyped(client)
      BY DEF HandshakeInv
  <2>2. /\ ClientRecord(client') /\ client'.stage = "enrolled" /\ client'.id = client.id
        /\ client'.sk = client.sk /\ client'.role = client.role /\ client'.allowed = client.allowed
        /\ client'.pinned = client.pinned
      BY <1>4, <2>1 DEF ClientRecord
  <2>3. ClientTyped(client')
      BY <2>1, <2>2 DEF ClientTyped
  <2>4. WireRecord(wire') /\ Carried(wire'.pkt, client', server, damage, forged)
      BY <1>4, QuietWire
  <2> QED BY <1>1, <2>2, <2>3, <2>4, EarlyStep
<1> QED BY <1>2, <1>3, <1>4

LEMMA ClientSecrets ==
    /\ Draw("role_blind") \in Int /\ Draw("client_nonce") \in Int /\ Draw("r_setup") \in Int
    /\ Draw("eph_c") \in Int /\ Draw("nonce_c") \in Int /\ Draw("r_auth") \in Int
BY DrawInt DEF DrawNames

\* The payload of SETUP_1 consists of cells whatever the token's length.
LEMMA Setup1Cells ==
    ASSUME NEW id \in Int, NEW pub \in Point, NEW nonce \in Int, NEW com \in Point, NEW pay,
           pay = auth_setup1_encode([pairing_token |-> Token, device_id |-> id, device_pub |-> pub,
                                     client_nonce |-> nonce, role_commitment |-> com])
    PROVE  IsSeq(pay) /\ \A k \in 1..5 : k <= Len(pay) => pay[k] \in Cell
<1> DEFINE c == <<Len(Token)>>
           a == <<c>>
           d == <<id>>
           e == <<nonce>>
           b == <<d, pub, e, com>>
<1>1. pay = a \o Token \o b
    BY DEF auth_setup1_encode
<1>2. Token \in Seq(Cell)
    BY Constants DEF Cell
<1>3. c \in Cell /\ d \in Cell /\ e \in Cell /\ pub \in Cell /\ com \in Cell
  <2>1. Len(Token) \in Int
      BY <1>2
  <2> QED BY <2>1, NumberCell, PointCells
<1> HIDE DEF c, d, e
<1>4. a \in Seq(Cell) /\ b \in Seq(Cell)
    BY <1>3
<1> HIDE DEF a, b
<1>5. pay \in Seq(Cell)
  <2>1. ASSUME NEW p \in Seq(Cell), NEW q \in Seq(Cell) PROVE p \o q \in Seq(Cell)
      OBVIOUS
  <2>2. a \o Token \in Seq(Cell)
      BY <2>1, <1>2, <1>4
  <2>3. (a \o Token) \o b \in Seq(Cell)
      BY <2>1, <2>2, <1>4, Zenon
  <2> QED BY <2>3, <1>1
<1>6. IsSeq(pay)
    BY <1>5 DEF IsSeq
<1> QED BY <1>5, <1>6

LEMMA BuildSetup1Step ==
    ASSUME HandshakeInv, auth_client_build_setup1
    PROVE  HandshakeInv'
<1> DEFINE role == IF client.role = 0 THEN 1 ELSE client.role
           com == auth_make_role_commitment(role, Draw("role_blind"))
           c == [client EXCEPT !.role = role, !.commitment = com, !.blind = Draw("role_blind"),
                               !.st = [client_nonce |-> Draw("client_nonce")]]
           pay == auth_setup1_encode([pairing_token |-> Token,
                    device_id |-> client.id, device_pub |-> DevicePub,
                    client_nonce |-> Draw("client_nonce"), role_commitment |-> com])
<1>1. client.stage = "start" /\ server' = server /\ damage' = damage /\ forged' = forged
    BY DEF auth_client_build_setup1
<1>2. (\E e : ClientEnds("failed", e)) \/ ClientSends(c, "SETUP_1", pay)
    BY DEF auth_client_build_setup1
<1>3. CASE \E e : ClientEnds("failed", e)
    BY <1>1, <1>3, FailStep
<1>4. CASE ClientSends(c, "SETUP_1", pay)
  <2>1. ClientRecord(client) /\ ClientTyped(client)
      BY DEF HandshakeInv
  <2>2. role \in Int
      BY <2>1 DEF ClientTyped
  <2>3. com \in Point
      BY <2>2, ClientSecrets, BadPoint, BasePoint, ScalarmultPoint, AddPoint DEF auth_make_role_commitment
  <2>4. DevicePub \in Point /\ client.id \in Int
      BY <2>1, BasePoint DEF DevicePub, ClientTyped
  <2>5. IsSeq(pay) /\ \A k \in 1..5 : k <= Len(pay) => pay[k] \in Cell
    <3> HIDE DEF com
    <3> QED BY <2>3, <2>4, ClientSecrets, Setup1Cells
  <2> HIDE DEF pay, com, role
  <2>6. /\ ClientRecord(c) /\ c.role = role /\ c.allowed = client.allowed /\ c.id = client.id
        /\ c.sk = client.sk /\ c.pinned = client.pinned
    <3> DEFINE b == Draw("role_blind")
               st == [client_nonce |-> Draw("client_nonce")]
    <3>1. c = [client EXCEPT !.role = role, !.commitment = com, !.blind = b, !.st = st]
        OBVIOUS
    <3> HIDE DEF c, b, st
    <3>2. c = [stage |-> client.stage, err |-> client.err, sid |-> client.sid, seq |-> client.seq,
               role |-> role, allowed |-> client.allowed, id |-> client.id, sk |-> client.sk,
               commitment |-> com, blind |-> b, pinned |-> client.pinned, st |-> st,
               ac |-> client.ac, a1 |-> client.a1, key |-> client.key, kc |-> client.kc,
               th |-> client.th]
        BY <2>1, <3>1 DEF ClientRecord
    <3>3. /\ c.stage = client.stage /\ c.err = client.err /\ c.sid = client.sid
          /\ c.seq = client.seq /\ c.role = role /\ c.allowed = client.allowed
          /\ c.id = client.id /\ c.sk = client.sk /\ c.commitment = com /\ c.blind = b
          /\ c.pinned = client.pinned /\ c.st = st /\ c.ac = client.ac /\ c.a1 = client.a1
          /\ c.key = client.key /\ c.kc = client.kc /\ c.th = client.th
        BY <3>2
    <3>4. ClientRecord(c)
        BY <3>2, <3>3, Zenon DEF ClientRecord
    <3> QED BY <3>3, <3>4, Zenon
  <2> HIDE DEF c
  <2>7. /\ ClientRecord(client') /\ client'.stage = "SETUP_1"
        /\ client'.role = c.role /\ client'.allowed = c.allowed /\ client'.id = c.id
        /\ client'.sk = c.sk /\ client'.pinned = c.pinned
        /\ WireRecord(wire') /\ Built(wire'.pkt, "SETUP_1", pay)
      BY <1>4, <2>5, <2>6, SendBuilt
  <2>8. ClientTyped(client')
      BY <2>1, <2>2, <2>6, <2>7 DEF ClientTyped
  <2>9. Carried(wire'.pkt, client', server, damage, forged)
      BY <2>5, <2>7, CarriedBuilt
  <2> QED BY <1>1, <2>7, <2>8, <2>9, EarlyStep
<1> QED BY <1>2, <1>3, <1>4

LEMMA Setup2Step ==
    ASSUME IdealHash, HandshakeInv, auth_client_handle_setup2
    PROVE  HandshakeInv'
<1> DEFINE h == auth_header_decode(wire.pkt)
           m == auth_setup2_decode(h.payload)
           st == [device_id |-> client.id, device_pub |-> DevicePub, server_pub |-> m.server_pub,
                  client_nonce |-> client.st.client_nonce, server_nonce |-> m.server_nonce,
                  setup_challenge |-> m.setup_challenge]
           p == auth_prove_setup_client(Draw("r_setup"), client.sk, st)
           c == [client EXCEPT !.pinned = m.server_pub, !.st = st]
           pay == auth_setup3_encode([client_proof |-> p])
<1>1. client.stage = "SETUP_1" /\ server' = server /\ damage' = damage /\ forged' = forged
    BY DEF auth_client_handle_setup2
<1>2. \/ \E e : ClientEnds("failed", e)
      \/ SetupTwoError(h, m, st) = "OK" /\ p.err = "OK" /\ ClientSends(c, "SETUP_3", pay)
    BY DEF auth_client_handle_setup2
<1>3. CASE \E e : ClientEnds("failed", e)
    BY <1>1, <1>3, FailStep
<1>4. CASE SetupTwoError(h, m, st) = "OK" /\ p.err = "OK" /\ ClientSends(c, "SETUP_3", pay)
  <2>1. ClientRecord(client) /\ ClientTyped(client)
      BY DEF HandshakeInv
  <2>2. ResponseError(h, "SETUP_2") = "OK" /\ m.err = "OK"
    <3> HIDE DEF h, m, st
    <3> QED BY <1>4 DEF SetupTwoError
  <2>3. /\ Len(h.payload) \in Nat
        /\ \A k \in 1..5 : k <= Len(h.payload) => h.payload[k] \in Cell
      BY <2>2, Received, PayloadTyped
  <2>4. Len(h.payload) = 5 /\ m.server_pub = AsPoint(h.payload[3])
    <3> HIDE DEF m, h
    <3>1. m = auth_setup2_decode(h.payload)
        BY DEF m
    <3> QED BY <3>1, <2>2, <2>3, Setup2Decoded
  <2>5. m.server_pub \in Point
    <3> HIDE DEF m, h
    <3>1. h.payload[3] \in Cell
        BY <2>3, <2>4
    <3> QED BY <3>1, <2>4, CellParts
  <2>6. p.a \in Point /\ p.s \in Int
    <3> HIDE DEF st
    <3> QED BY <1>4, <2>1, ClientSecrets, ProofsTyped DEF ClientTyped
  <2>7. Cells(pay, 2)
    <3>1. pay = <<p.a, <<p.s>> >>
        BY DEF auth_setup3_encode
    <3> HIDE DEF p, pay
    <3>2. p.a \in Cell /\ <<p.s>> \in Cell
        BY <2>6, NumberCell, PointCells
    <3> QED BY <3>1, <3>2, TwoCells
  <2> DEFINE pub == m.server_pub
  <2>8. /\ ClientRecord(c) /\ c.role = client.role /\ c.allowed = client.allowed /\ c.id = client.id
        /\ c.sk = client.sk /\ c.pinned = pub
    <3>1. c = [client EXCEPT !.pinned = pub, !.st = st]
        OBVIOUS
    <3> HIDE DEF c, pub, st
    <3>2. c = [stage |-> client.stage, err |-> client.err, sid |-> client.sid, seq |-> client.seq,
               role |-> client.role, allowed |-> client.allowed, id |-> client.id, sk |-> client.sk,
               commitment |-> client.commitment, blind |-> client.blind, pinned |-> pub, st |-> st,
               ac |-> client.ac, a1 |-> client.a1, key |-> client.key, kc |-> client.kc,
               th |-> client.th]
        BY <2>1, <3>1 DEF ClientRecord
    <3>3. /\ c.stage = client.stage /\ c.err = client.err /\ c.sid = client.sid
          /\ c.seq = client.seq /\ c.role = client.role /\ c.allowed = client.allowed
          /\ c.id = client.id /\ c.sk = client.sk /\ c.commitment = client.commitment
          /\ c.blind = client.blind
          /\ c.pinned = pub /\ c.st = st /\ c.ac = client.ac /\ c.a1 = client.a1
          /\ c.key = client.key /\ c.kc = client.kc /\ c.th = client.th
        BY <3>2
    <3>4. ClientRecord(c)
        BY <3>2, <3>3, Zenon DEF ClientRecord
    <3> QED BY <3>3, <3>4, Zenon
  <2>9. pub \in Point
      BY <2>5
  <2> HIDE DEF c, pub, pay
  <2>10. /\ ClientRecord(client') /\ client'.stage = "SETUP_3"
         /\ client'.role = c.role /\ client'.allowed = c.allowed /\ client'.id = c.id
         /\ client'.sk = c.sk /\ client'.pinned = c.pinned
         /\ WireRecord(wire') /\ Built(wire'.pkt, "SETUP_3", pay)
      BY <1>4, <2>7, <2>8, SendBuilt DEF Cells
  <2>11. ClientTyped(client')
      BY <2>1, <2>8, <2>9, <2>10 DEF ClientTyped
  <2>12. Carried(wire'.pkt, client', server, damage, forged)
      BY <2>7, <2>10, CarriedBuilt DEF Cells
  <2> QED BY <1>1, <2>10, <2>11, <2>12, EarlyStep
<1> QED BY <1>2, <1>3, <1>4

LEMMA FunctionSeq ==
    ASSUME NEW k \in Nat, NEW f, f = [j \in 1..k |-> f[j]]
    PROVE  IsSeq(f)
<1> DEFINE S == {f[j] : j \in 1..k}
<1>1. f \in [1..k -> S]
    OBVIOUS
<1> HIDE DEF S
<1>2. f \in Seq(S)
    BY <1>1
<1> QED BY <1>2 DEF IsSeq

\* The payload of AUTH_1 begins with the client's context, whatever the number
\* of branches.
LEMMA Auth1Cells ==
    ASSUME NEW a1, a1.pid \in Int, a1.client_proof.a \in Point, a1.client_proof.s \in Int,
           a1.nonce_c \in Int, a1.eph_c \in Point, Len(a1.branches) \in Nat,
           NEW pay, pay = auth_auth1_encode(a1)
    PROVE  IsSeq(pay) /\ \A k \in 1..5 : k <= Len(pay) => pay[k] \in Cell
<1> DEFINE n == Len(a1.branches)
           B(j) == a1.branches[((j - 1) \div 3) + 1]
           E(j) == CASE j % 3 = 1 -> B(j).a [] j % 3 = 2 -> <<B(j).c>> [] j % 3 = 0 -> <<B(j).s>>
           l == 3 * n
           fn == [j \in 1..l |-> E(j)]
           c1 == <<a1.pid>>
           c2 == a1.client_proof.a
           c3 == <<a1.client_proof.s>>
           c4 == <<a1.nonce_c>>
           c5 == a1.eph_c
           c6 == a1.c_prime
           c7 == a1.rerand_proof.a
           c8 == <<a1.rerand_proof.s>>
           c9 == <<n>>
           head == <<c1, c2, c3, c4, c5, c6, c7, c8, c9>>
<1>1. pay = head \o fn
    BY DEF auth_auth1_encode
<1>2. l \in Nat
    OBVIOUS
<1>3. c1 \in Cell /\ c2 \in Cell /\ c3 \in Cell /\ c4 \in Cell /\ c5 \in Cell
    BY NumberCell, PointCells
<1> HIDE DEF n, B, E, l, c1, c2, c3, c4, c5, c6, c7, c8, c9
<1>4. IsSeq(fn)
  <2>1. fn = [j \in 1..l |-> fn[j]]
      OBVIOUS
  <2> HIDE DEF fn
  <2> QED BY <1>2, <2>1, FunctionSeq
<1>5. /\ head \in Seq({c1, c2, c3, c4, c5, c6, c7, c8, c9}) /\ Len(head) = 9
      /\ head[1] = c1 /\ head[2] = c2 /\ head[3] = c3 /\ head[4] = c4 /\ head[5] = c5
    OBVIOUS
<1>6. IsSeq(head)
    BY <1>5, Zenon DEF IsSeq
<1> HIDE DEF head, fn
<1>7. Joined(pay, head, fn)
    BY <1>1, <1>4, <1>6, JoinSeqs, Zenon
<1>8. ASSUME NEW k \in 1..5 PROVE pay[k] \in Cell
  <2>1. pay[k] = head[k]
      BY <1>5, <1>7 DEF Joined
  <2>2. k = 1 \/ k = 2 \/ k = 3 \/ k = 4 \/ k = 5
      OBVIOUS
  <2>3. head[k] \in Cell
      BY <2>2, <1>3, <1>5
  <2> QED BY <2>1, <2>3
<1> QED BY <1>7, <1>8 DEF Joined

\* A role proof that is made has a branch for every role of the list.
LEMMA BranchCount ==
    ASSUME NEW w, NEW roles \in Seq(Int), NEW c_prime, NEW role, NEW blind, NEW ac, NEW rs,
           rs = auth_prove_role_set_membership(w, roles, c_prime, role, blind, ac), rs.err = "OK"
    PROVE  Len(rs.branches) \in Nat
<1> DEFINE Br == 1..Len(roles)
           hits == {i \in Br : roles[i] = role}
           k == Min(hits)
           Y == [i \in Br |-> auth_point_sub(c_prime, auth_scalarmult_base(roles[i]))]
           A == [i \in Br |->
                 IF i = k THEN auth_scalarmult(w[i][1], auth_attr_h)
                 ELSE auth_point_sub(auth_scalarmult(w[i][2], auth_attr_h),
                                     auth_scalarmult(w[i][1], Y[i]))]
           ck == auth_scalar_sub(role_set_master_challenge(roles, c_prime, A, ac),
                              SumOf([i \in Br |-> w[i][1]], Br \ {k}))
           E(i) == IF i = k THEN [a |-> A[i], c |-> ck,
                                  s |-> auth_scalar_add(w[i][1], auth_scalar_mul(ck, blind))]
                   ELSE [a |-> A[i], c |-> w[i][1], s |-> w[i][2]]
           none == \E i \in Br : Bad \in {Y[i], A[i]}
           few == Len(roles) \in 1..MAX_ROLES /\ hits = {}
<1>1. rs = CASE Len(roles) = 0 \/ Len(roles) > MAX_ROLES -> [err |-> "INVALID_ARGUMENT"]
             [] few -> [err |-> "ROLE_NOT_PERMITTED"]
             [] OTHER -> IF none THEN [err |-> "INVALID_POINT"]
                         ELSE [err |-> "OK", branches |-> [i \in Br |-> E(i)]]
    BY DEF auth_prove_role_set_membership
<1> HIDE DEF hits, k, Y, A, ck, E, none, few
<1>2. rs.branches = [i \in Br |-> E(i)]
    BY <1>1
<1>3. Len(roles) \in Nat
    OBVIOUS
<1>4. \E S : [i \in Br |-> E(i)] \in [Br -> S]
  <2> DEFINE S == {E(i) : i \in Br}
  <2>1. [i \in Br |-> E(i)] \in [Br -> S]
      OBVIOUS
  <2> QED BY <2>1
<1>5. Len(rs.branches) \in Nat
    BY <1>2, <1>3, <1>4
<1> QED BY <1>5

LEMMA BuildAuth1Step ==
    ASSUME IdealHash, HandshakeInv, auth_client_build_auth1
    PROVE  HandshakeInv'
<1> DEFINE eph_c == auth_scalarmult_base(Draw("eph_c"))
           ac == [pid |-> auth_compute_pid(DevicePub, Draw("nonce_c"), eph_c, client.pinned),
                  nonce_c |-> Draw("nonce_c"), eph_c |-> eph_c]
           re == auth_rerandomize_commitment(client.commitment, client.blind, Draw("delta"))
           cp == auth_prove_auth_client(Draw("r_auth"), client.sk, ac)
           rr == auth_prove_rerandomization(Draw("r_rerand"), client.commitment, re.c_prime,
                                            Draw("delta"), ac)
           w == [i \in 1..Len(client.allowed) |->
                    IF client.allowed[i] = client.role THEN <<Draw("w"), 0>>
                    ELSE <<(Draw("sim_c") * i) % Q, (Draw("sim_s") * i) % Q>>]
           rs == auth_prove_role_set_membership(w, client.allowed, re.c_prime, client.role, re.blind, ac)
           a1 == [pid |-> ac.pid, client_proof |-> cp, nonce_c |-> ac.nonce_c, eph_c |-> ac.eph_c,
                  c_prime |-> re.c_prime, rerand_proof |-> rr, branches |-> rs.branches]
           c == [client EXCEPT !.ac = ac, !.a1 = a1]
           pay == auth_auth1_encode(a1)
<1>1. client.stage = "enrolled" /\ server' = server /\ damage' = damage /\ forged' = forged
    BY DEF auth_client_build_auth1
<1>2. \/ \E e : ClientEnds("failed", e)
      \/ cp.err = "OK" /\ rs.err = "OK" /\ ClientSends(c, "AUTH_1", pay)
    BY DEF auth_client_build_auth1
<1>3. CASE \E e : ClientEnds("failed", e)
    BY <1>1, <1>3, FailStep
<1>4. CASE cp.err = "OK" /\ rs.err = "OK" /\ ClientSends(c, "AUTH_1", pay)
  <2>1. ClientRecord(client) /\ ClientTyped(client)
      BY DEF HandshakeInv
  <2>2. ac.pid \in Int /\ ac.nonce_c \in Int /\ ac.eph_c \in Point
    <3>1. auth_compute_pid(DevicePub, Draw("nonce_c"), eph_c, client.pinned) \in Int
      <4> DEFINE t == <<Code["pid"]>> \o DevicePub \o <<Draw("nonce_c")>> \o eph_c \o client.pinned
      <4>1. auth_compute_pid(DevicePub, Draw("nonce_c"), eph_c, client.pinned) = HashOf(t)
          BY DEF auth_compute_pid
      <4> HIDE DEF t, eph_c
      <4> QED BY <4>1 DEF IdealHash
    <3>2. eph_c \in Point /\ Draw("nonce_c") \in Int
        BY ClientSecrets, BasePoint
    <3> HIDE DEF eph_c
    <3> QED BY <3>1, <3>2
  <2> HIDE DEF ac
  <2>3. cp.a \in Point /\ cp.s \in Int
    <3>1. client.sk \in Int /\ Draw("r_auth") \in Int
        BY <2>1, ClientSecrets DEF ClientTyped
    <3> QED BY <1>4, <3>1, ProofsTyped
  <2>4. Len(rs.branches) \in Nat
    <3>1. client.allowed \in Seq(Int)
        BY <2>1 DEF ClientTyped
    <3> HIDE DEF w, re
    <3> QED BY <1>4, <3>1, BranchCount
  <2> HIDE DEF cp, rr, rs, re
  <2>5. /\ a1.pid = ac.pid /\ a1.client_proof = cp /\ a1.nonce_c = ac.nonce_c
        /\ a1.eph_c = ac.eph_c /\ a1.branches = rs.branches
      OBVIOUS
  <2> HIDE DEF a1
  <2>6. IsSeq(pay) /\ \A k \in 1..5 : k <= Len(pay) => pay[k] \in Cell
      BY <2>2, <2>3, <2>4, <2>5, Auth1Cells
  <2>7. /\ ClientRecord(c) /\ c.role = client.role /\ c.allowed = client.allowed /\ c.id = client.id
        /\ c.sk = client.sk /\ c.pinned = client.pinned /\ c.ac = ac /\ c.a1 = a1
    <3>1. c = [client EXCEPT !.ac = ac, !.a1 = a1]
        OBVIOUS
    <3> HIDE DEF c
    <3>2. c = [stage |-> client.stage, err |-> client.err, sid |-> client.sid, seq |-> client.seq,
               role |-> client.role, allowed |-> client.allowed, id |-> client.id, sk |-> client.sk,
               commitment |-> client.commitment, blind |-> client.blind, pinned |-> client.pinned,
               st |-> client.st, ac |-> ac, a1 |-> a1, key |-> client.key, kc |-> client.kc,
               th |-> client.th]
        BY <2>1, <3>1 DEF ClientRecord
    <3>3. /\ c.stage = client.stage /\ c.err = client.err /\ c.sid = client.sid
          /\ c.seq = client.seq /\ c.role = client.role /\ c.allowed = client.allowed
          /\ c.id = client.id /\ c.sk = client.sk /\ c.commitment = client.commitment
          /\ c.blind = client.blind
          /\ c.pinned = client.pinned /\ c.st = client.st /\ c.ac = ac /\ c.a1 = a1
          /\ c.key = client.key /\ c.kc = client.kc /\ c.th = client.th
        BY <3>2
    <3>4. ClientRecord(c)
        BY <3>2, <3>3, Zenon DEF ClientRecord
    <3> QED BY <3>3, <3>4, Zenon
  <2> HIDE DEF c, pay
  <2>8. /\ ClientRecord(client') /\ client'.stage = "AUTH_1"
        /\ client'.role = c.role /\ client'.allowed = c.allowed /\ client'.id = c.id
        /\ client'.sk = c.sk /\ client'.pinned = c.pinned /\ client'.ac = c.ac /\ client'.a1 = c.a1
        /\ WireRecord(wire') /\ Built(wire'.pkt, "AUTH_1", pay)
      BY <1>4, <2>6, <2>7, SendBuilt
  <2>9. ClientTyped(client')
      BY <2>1, <2>7, <2>8 DEF ClientTyped
  <2>10. Context(client')
      BY <2>2, <2>3, <2>5, <2>7, <2>8 DEF Context
  <2>11. Carried(wire'.pkt, client', server, damage, forged)
      BY <2>6, <2>8, CarriedBuilt
  <2> QED BY <1>1, <2>8, <2>9, <2>10, <2>11, EarlyStep
<1> QED BY <1>2, <1>3, <1>4

\* An AUTH_2 that the client accepts carries the tag of a session issued for its
\* AUTH_1.
LEMMA Auth2Step ==
    ASSUME IdealHash, HandshakeInv, auth_client_handle_auth2
    PROVE  HandshakeInv'
<1> DEFINE h == auth_header_decode(wire.pkt)
           m == auth_auth2_decode(h.payload)
           cp == client.a1.client_proof
           key == auth_derive_session_key(Draw("eph_c"), m.eph_s, client.ac, m.nonce_s, m.eph_s)
           th == auth_kc_transcript_hash(client.ac, cp, m.server_pub,
                                         m.server_proof, m.nonce_s, m.eph_s)
           kc == auth_derive_kc_keys(key, th)
           c == [client EXCEPT !.key = key, !.kc = kc, !.th = th]
           pay == auth_auth3_encode([tag_c |-> auth_hmac_tag(kc.c2s, "client finished", th)])
<1>1. client.stage = "AUTH_1" /\ server' = server /\ damage' = damage /\ forged' = forged
    BY DEF auth_client_handle_auth2
<1>2. \/ \E e : ClientEnds("failed", e)
      \/ AuthTwoError(h, m) = "OK" /\ TagMatches(m, kc, th) /\ ClientSends(c, "AUTH_3", pay)
    BY DEF auth_client_handle_auth2
<1>3. CASE \E e : ClientEnds("failed", e)
    BY <1>1, <1>3, FailStep
<1>4. CASE AuthTwoError(h, m) = "OK" /\ TagMatches(m, kc, th) /\ ClientSends(c, "AUTH_3", pay)
  <2>1. /\ ClientRecord(client) /\ ClientTyped(client) /\ Context(client)
        /\ ServerRecord(server) /\ ServerState(server) /\ Agree(client, server, forged)
        /\ Carried(wire.pkt, client, server, damage, forged) /\ damage \in Nat /\ damage <= MaxDamage
      BY <1>1 DEF HandshakeInv, ClientState
  <2>2. ResponseError(h, "AUTH_2") = "OK" /\ m.err = "OK"
    <3> HIDE DEF h, m
    <3> QED BY <1>4 DEF AuthTwoError
  <2>3. /\ Decoded(h, wire.pkt) /\ wire.pkt[2][1] = "AUTH_2" /\ Len(wire.pkt) >= HEADER_LEN
        /\ Len(h.payload) \in Nat
        /\ \A k \in 1..5 : k <= Len(h.payload) => h.payload[k] \in Cell
      BY <2>2, Received, PayloadTyped
  <2>4. /\ Len(h.payload) = 6 /\ m.server_pub = AsPoint(h.payload[1])
        /\ m.server_proof = [a |-> AsPoint(h.payload[2]), s |-> h.payload[3][1]]
        /\ m.nonce_s = h.payload[4][1] /\ m.eph_s = AsPoint(h.payload[5]) /\ m.tag_s = h.payload[6][1]
    <3> HIDE DEF m, h
    <3>1. m = auth_auth2_decode(h.payload)
        BY DEF m
    <3> QED BY <3>1, <2>2, <2>3, Auth2Decoded
  <2> HIDE DEF h, m
  <2>5. KcTyped(client.ac, cp, m.server_pub, m.server_proof, m.nonce_s, m.eph_s)
    <3>1. /\ h.payload[1] \in Cell /\ h.payload[2] \in Cell /\ h.payload[3] \in Cell
          /\ h.payload[4] \in Cell /\ h.payload[5] \in Cell
        BY <2>3, <2>4
    <3>2. /\ AsPoint(h.payload[1]) \in Point /\ AsPoint(h.payload[2]) \in Point
          /\ h.payload[3][1] \in Int /\ h.payload[4][1] \in Int /\ AsPoint(h.payload[5]) \in Point
        BY <3>1, CellParts
    <3>3. m.server_proof.a \in Point /\ m.server_proof.s \in Int
        BY <2>4, <3>2
    <3> QED BY <2>1, <2>4, <3>2, <3>3 DEF KcTyped, Context
  <2>6. /\ key = auth_derive_session_key(Draw("eph_c"), m.eph_s, client.ac, m.nonce_s, m.eph_s)
        /\ th = auth_kc_transcript_hash(client.ac, cp, m.server_pub, m.server_proof, m.nonce_s, m.eph_s)
        /\ kc = auth_derive_kc_keys(key, th)
      OBVIOUS
  <2>7. m.tag_s = auth_hmac_tag(kc.s2c, "server finished", th)
      BY <1>4 DEF TagMatches
  <2>8. pay = << <<auth_hmac_tag(kc.c2s, "client finished", th)>> >>
      BY DEF auth_auth3_encode
  <2> HIDE DEF key, th, kc, pay
  <2>9. /\ ClientRecord(c) /\ c.role = client.role /\ c.allowed = client.allowed /\ c.id = client.id
        /\ c.sk = client.sk /\ c.pinned = client.pinned /\ c.ac = client.ac /\ c.a1 = client.a1
        /\ c.key = key /\ c.kc = kc /\ c.th = th
    <3>1. c = [client EXCEPT !.key = key, !.kc = kc, !.th = th]
        OBVIOUS
    <3> HIDE DEF c
    <3>2. c = [stage |-> client.stage, err |-> client.err, sid |-> client.sid, seq |-> client.seq,
               role |-> client.role, allowed |-> client.allowed, id |-> client.id, sk |-> client.sk,
               commitment |-> client.commitment, blind |-> client.blind, pinned |-> client.pinned,
               st |-> client.st, ac |-> client.ac, a1 |-> client.a1, key |-> key, kc |-> kc,
               th |-> th]
        BY <2>1, <3>1 DEF ClientRecord
    <3>3. /\ c.stage = client.stage /\ c.err = client.err /\ c.sid = client.sid
          /\ c.seq = client.seq /\ c.role = client.role /\ c.allowed = client.allowed
          /\ c.id = client.id /\ c.sk = client.sk /\ c.commitment = client.commitment
          /\ c.blind = client.blind
          /\ c.pinned = client.pinned /\ c.st = client.st /\ c.ac = client.ac /\ c.a1 = client.a1
          /\ c.key = key /\ c.kc = kc /\ c.th = th
        BY <3>2
    <3>4. ClientRecord(c)
        BY <3>2, <3>3, Zenon DEF ClientRecord
    <3> QED BY <3>3, <3>4, Zenon
  <2> HIDE DEF c
  <2>10. Cells(pay, 1) /\ pay[1] = <<ClientTag(c)>>
    <3>1. pay = << <<ClientTag(c)>> >>
        BY <2>8, <2>9 DEF ClientTag
    <3>2. <<ClientTag(c)>> \in Cell
        BY TagsInt, NumberCell
    <3> QED BY <3>1, <3>2, OneCell
  <2>11. KeysOf(c, client.ac, cp)
    <3> HIDE DEF cp
    <3> QED BY <2>5, <2>6, <2>9, DerivedKeys
  <2>12. /\ ClientRecord(client') /\ client'.stage = "AUTH_3"
         /\ client'.role = c.role /\ client'.allowed = c.allowed /\ client'.id = c.id
         /\ client'.sk = c.sk /\ client'.pinned = c.pinned /\ client'.ac = c.ac /\ client'.a1 = c.a1
         /\ client'.key = c.key /\ client'.kc = c.kc /\ client'.th = c.th
         /\ WireRecord(wire') /\ Built(wire'.pkt, "AUTH_3", pay)
      BY <1>4, <2>9, <2>10, SendBuilt DEF Cells
  <2>13. ClientTyped(client')
      BY <2>1, <2>9, <2>12 DEF ClientTyped
  <2>14. ClientState(client')
    <3>1. Context(client')
        BY <2>1, <2>9, <2>12 DEF Context
    <3>2. KeysOf(client', client'.ac, client'.a1.client_proof)
        BY <2>9, <2>11, <2>12 DEF KeysOf
    <3> QED BY <3>1, <3>2, <2>12 DEF ClientState
  <2>15. PICK s \in server.issued : Len(wire.pkt) >= 11 => Near(wire.pkt[11], ServerTag(s), damage)
      BY <2>1, <2>3 DEF Carried
  <2>16. Len(wire.pkt) >= 11 /\ h.payload[6] = wire.pkt[11]
    <3>1. Len(wire.pkt) \in Nat /\ Len(h.payload) = Len(wire.pkt) - 5
        BY <2>3 DEF Decoded
    <3>2. Len(wire.pkt) >= 11 /\ 6 \in 1..(Len(wire.pkt) - 5)
      <4> DEFINE k == Len(wire.pkt)
                 l == Len(h.payload)
      <4>1. k \in Nat /\ l = k - 5 /\ l = 6
          BY <3>1, <2>4
      <4> HIDE DEF k, l
      <4>2. k >= 11 /\ 6 \in 1..(k - 5)
          BY <4>1
      <4> QED BY <4>2 DEF k
    <3>3. h.payload[6] = wire.pkt[5 + 6]
        BY <2>3, <3>2 DEF Decoded
    <3> QED BY <3>2, <3>3
  <2>17. wire.pkt[11][1] = ServerTag(c) /\ Near(wire.pkt[11], ServerTag(s), damage)
      BY <2>4, <2>7, <2>9, <2>15, <2>16 DEF ServerTag
  <2>18. Issued(s)
      BY <2>1, <2>15 DEF ServerState
  <2>19. /\ c.key = s.key /\ c.kc = s.kc /\ c.th = s.th
         /\ SameContext(client.ac, cp, s.a1, s.a1.client_proof)
    <3> HIDE DEF cp
    <3> QED BY <2>1, <2>11, <2>17, <2>18, TagsAgree DEF Issued
  <2>20. Agree(client', server, forged)
    <3>1. server.accepted = {}
        BY <1>1, <2>1 DEF Agree
    <3>2. SameKeys(s, client') /\ s.a1.pid = client'.a1.pid
        BY <2>1, <2>9, <2>12, <2>19 DEF SameKeys, SameContext, Context
    <3> QED BY <3>1, <3>2, <2>12, <2>15 DEF Agree
  <2>21. Carried(wire'.pkt, client', server, damage, forged)
    <3>1. ClientTag(client') = ClientTag(c)
        BY <2>12 DEF ClientTag
    <3>2. Near(pay[1], ClientTag(client'), damage)
        BY <3>1, <2>1, <2>10, TagsInt, NearSelf
    <3> QED BY <3>2, <2>10, <2>12, CarriedBuilt DEF Cells
  <2> QED BY <1>1, <2>1, <2>12, <2>13, <2>14, <2>20, <2>21 DEF HandshakeInv
<1> QED BY <1>2, <1>3, <1>4

-----------------------------------------------------------------------------
(* Theorems.                                                               *)

LEMMA NextInv ==
    ASSUME IdealHash, HandshakeInv, [Next]_vars
    PROVE  HandshakeInv'
<1>1. CASE ClientStep
    BY <1>1, BuildSetup1Step, Setup2Step, SetupAckStep, BuildAuth1Step, Auth2Step, AckStep,
       GiveUpStep DEF ClientStep
<1>2. CASE ServerStep
    BY <1>2, Setup1Step, Setup3Step, Auth1Step, Auth3Step, DiscardStep DEF ServerStep
<1>3. CASE Damage
    BY <1>3, DamageStep
<1>4. CASE \E t \in {"SETUP_ACK", "AUTH_ACK"} : ForgeAck(t)
    BY <1>4, ForgeAckStep
<1>5. CASE UNCHANGED vars
    BY <1>5 DEF vars, HandshakeInv
<1> QED BY <1>1, <1>2, <1>3, <1>4, <1>5 DEF Next

\* With an ideal hash the inductive invariant holds in every state, whatever the
\* draws, the lists, the registry, the fields damaged and the acknowledgements
\* forged: keys, confirmation keys and transcript hash of either side belong
\* together, and a tag in flight is one that was sent or a value that no key gives.
THEOREM HandshakeInvariant ==
    IdealHash => (Spec => []HandshakeInv)
<1> SUFFICES ASSUME IdealHash PROVE Spec => []HandshakeInv
    OBVIOUS
<1>1. Init => HandshakeInv
    BY InitInv
<1>2. HandshakeInv /\ [Next]_vars => HandshakeInv'
    BY NextInv
<1> QED BY <1>1, <1>2, PTL DEF Spec

\* A client that accepted AUTH_2 (auth_client_handle_auth2) has the key, the
\* confirmation keys and the transcript hash of a session that the server issued
\* for its AUTH_1, and a client that is done was accepted unless an acknowledgement
\* was forged (auth_client_handle_auth_ack authenticates nothing).
THEOREM KeysAreAgreed ==
    IdealHash => (Spec => []KeysAgree)
<1> SUFFICES ASSUME IdealHash PROVE Spec => []KeysAgree
    OBVIOUS
<1>1. Spec => []HandshakeInv
    BY HandshakeInvariant
<1>2. HandshakeInv => KeysAgree
    BY InvParts
<1> QED BY <1>1, <1>2, PTL

\* A session that auth_server_handle_auth3 accepts has the pid, nonce, ephemeral
\* key and proof that the client sent in AUTH_1, however many fields of however
\* many packets were altered.
THEOREM ConfirmedIsSent ==
    IdealHash => (Spec => []ConfirmedAsSent)
<1> SUFFICES ASSUME IdealHash PROVE Spec => []ConfirmedAsSent
    OBVIOUS
<1>1. Spec => []HandshakeInv
    BY HandshakeInvariant
<1>2. HandshakeInv => ConfirmedAsSent
    BY InvParts
<1> QED BY <1>1, <1>2, PTL

-----------------------------------------------------------------------------
(* The proofs verify.  A point made from g or from h alone counts by its    *)
(* exponent modulo Q; the response s = r + c * x then solves the verifier's *)
(* equation, and what is left are the products libsodium refuses.           *)

Residues == 0..Q - 1

\* Reduced scalars.
LEMMA Reduced ==
    ASSUME NEW x \in Int
    PROVE  x % Q \in Residues /\ (x % Q) % Q = x % Q
<1>1. Q \in Nat /\ Q > 0
    BY Constants
<1>2. x % Q \in 0..Q - 1
    BY <1>1
<1>3. ASSUME NEW v \in 0..Q - 1 PROVE v % Q = v
    BY <1>1
<1> QED BY <1>2, <1>3 DEF Residues

\* What is left of a reduced sum when its first part is taken away.
LEMMA TakenAway ==
    ASSUME NEW x \in Int, NEW y \in Int
    PROVE  (((x + y) % Q) - x) % Q = y % Q
<1> DEFINE z == x + y
           r == z % Q
           d == z \div Q
           s == y % Q
           e == y \div Q
           w == r - x
           u == w % Q
           f == w \div Q
           a == d * Q
           b == e * Q
           c == f * Q
           g == e - d - f
<1>1. Q \in Nat /\ Q > 0
    BY Constants
<1>0. ASSUME NEW v \in Int PROVE v = (v \div Q) * Q + (v % Q) /\ v \div Q \in Int /\ v % Q \in Residues
    BY <1>1 DEF Residues
<1>2. z \in Int
    OBVIOUS
<1> HIDE DEF z
<1>3. z = a + r /\ d \in Int /\ r \in Residues
    BY <1>0, <1>2
<1>4. y = b + s /\ e \in Int /\ s \in Residues
    BY <1>0
<1> HIDE DEF r, d, s, e
<1>5. w \in Int
    BY <1>3, <1>1 DEF Residues
<1> HIDE DEF w
<1>6. w = c + u /\ f \in Int /\ u \in Residues
    BY <1>0, <1>5
<1> HIDE DEF u, f
<1>7. a \in Int /\ b \in Int /\ c \in Int /\ g \in Int /\ g * Q = b - a - c
    BY <1>1, <1>3, <1>4, <1>6
<1> HIDE DEF a, b, c, g
<1>8. u - s = g * Q
  <2>1. a + r = x + y
      BY <1>3 DEF z
  <2>2. c + u = r - x
      BY <1>6 DEF w
  <2>3. r \in Int /\ u \in Int /\ s \in Int
      BY <1>1, <1>3, <1>4, <1>6 DEF Residues
  <2> QED BY <2>1, <2>2, <2>3, <1>4, <1>7
<1>9. g = 0
  <2>1. g >= 1 => g * Q >= Q
      BY <1>1, <1>7
  <2>2. g <= -1 => g * Q <= -Q
      BY <1>1, <1>7
  <2>3. u - s < Q /\ u - s > -Q
      BY <1>1, <1>4, <1>6 DEF Residues
  <2> QED BY <2>1, <2>2, <2>3, <1>1, <1>7, <1>8
<1>10. u = s
  <2>1. u \in Int /\ s \in Int
      BY <1>1, <1>4, <1>6 DEF Residues
  <2> QED BY <2>1, <1>1, <1>8, <1>9
<1> QED BY <1>10 DEF u, s, w, r, z

\* The multiples of the base point, and of h.
On(base, v) == IF base = G THEN <<v, 0>> ELSE <<0, v>>

\* They are points, and valid ones.
LEMMA OnPoints ==
    ASSUME NEW base \in {G, auth_attr_h}, NEW u \in Residues, NEW v \in Residues
    PROVE  /\ On(base, u) # Bad /\ (On(base, u) = On(base, v) => u = v)
           /\ (On(base, u) = Identity <=> u = 0)
           /\ auth_point_add(On(base, u), On(base, v)) = On(base, (u + v) % Q)
<1>1. Q \in Nat /\ Q > 0 /\ u \in Nat /\ v \in Nat
    BY Constants DEF Residues
<1>2. (0 + 0) % Q = 0
    BY <1>1
<1>3. G # auth_attr_h
    BY DEF G, auth_attr_h
<1>4. ASSUME NEW k \in Residues PROVE On(base, k) # Bad
    BY <1>1 DEF On, Bad, Residues
<1>5. On(base, u) = On(base, v) => u = v
    BY DEF On
<1>6. On(base, u) = Identity <=> u = 0
    BY DEF On, Identity
<1>7. auth_point_add(On(base, u), On(base, v)) = On(base, (u + v) % Q)
  <2>1. auth_point_add(On(base, u), On(base, v))
            = <<(On(base, u)[1] + On(base, v)[1]) % Q, (On(base, u)[2] + On(base, v)[2]) % Q>>
      BY <1>4 DEF auth_point_add
  <2>2. CASE base = G
    <3>1. On(base, u)[1] = u /\ On(base, u)[2] = 0 /\ On(base, v)[1] = v /\ On(base, v)[2] = 0
        BY <2>2 DEF On
    <3> QED BY <3>1, <2>1, <2>2, <1>2 DEF On
  <2>3. CASE base # G
    <3>1. On(base, u)[1] = 0 /\ On(base, u)[2] = u /\ On(base, v)[1] = 0 /\ On(base, v)[2] = v
        BY <2>3 DEF On
    <3> QED BY <3>1, <2>1, <2>3, <1>2 DEF On
  <2> QED BY <2>2, <2>3
<1> QED BY <1>4, <1>5, <1>6, <1>7

\* A multiple of a multiple.
LEMMA OnMult ==
    ASSUME NEW base \in {G, auth_attr_h}, NEW v \in Residues, NEW c \in Int
    PROVE  auth_scalarmult(c, On(base, v))
               = IF ((c % Q) * v) % Q = 0 THEN Bad ELSE On(base, ((c % Q) * v) % Q)
<1> DEFINE k == c % Q
           m == (k * v) % Q
           p == On(base, v)
           r == <<(k * p[1]) % Q, (k * p[2]) % Q>>
<1>1. Q \in Nat /\ Q > 0 /\ v \in Nat /\ k \in Int
    BY Constants, Residue DEF Residues
<1> HIDE DEF k
<1>2. k * 0 = 0 /\ 0 % Q = 0 /\ k * v \in Int
    BY <1>1
<1>3. m \in Residues
    BY <1>2, Reduced
<1>4. p # Bad
    BY OnPoints
<1>5. r = On(base, m)
  <2>1. CASE base = G
    <3>1. p[1] = v /\ p[2] = 0
        BY <2>1 DEF On
    <3> QED BY <3>1, <2>1, <1>2 DEF On
  <2>2. CASE base # G
    <3>1. p[1] = 0 /\ p[2] = v
        BY <2>2 DEF On
    <3> QED BY <3>1, <2>2, <1>2 DEF On
  <2> QED BY <2>1, <2>2
<1>6. auth_scalarmult(c, p) = IF r = Identity THEN Bad ELSE r
    BY <1>4 DEF auth_scalarmult, k
<1> HIDE DEF r, m, p
<1>7. r = Identity <=> m = 0
    BY <1>3, <1>5, OnPoints
<1>8. auth_scalarmult(c, p) = IF m = 0 THEN Bad ELSE On(base, m)
    BY <1>5, <1>6, <1>7
<1> QED BY <1>8 DEF p, m, k

\* A multiple of the base point or of h itself.
LEMMA BaseMult ==
    ASSUME NEW base \in {G, auth_attr_h}, NEW s \in Int
    PROVE  auth_scalarmult(s, base) = IF s % Q = 0 THEN Bad ELSE On(base, s % Q)
<1> DEFINE k == s % Q
           r == <<(k * base[1]) % Q, (k * base[2]) % Q>>
<1>1. Q \in Nat /\ Q > 0 /\ k \in Int /\ k \in Residues /\ k % Q = k
  <2>1. Q \in Nat /\ Q > 0
      BY Constants
  <2>2. k \in Residues /\ k % Q = k
      BY Reduced
  <2>3. k \in Int
      BY Residue
  <2> QED BY <2>1, <2>2, <2>3
<1> HIDE DEF k
<1>2. k * 0 = 0 /\ 0 % Q = 0 /\ k * 1 = k
    BY <1>1
<1>3. base # Bad
    BY DEF G, auth_attr_h, Bad
<1>4. r = On(base, k)
  <2>1. CASE base = G
    <3>1. base[1] = 1 /\ base[2] = 0
        BY <2>1 DEF G
    <3> QED BY <3>1, <2>1, <1>1, <1>2 DEF On
  <2>2. CASE base # G
    <3>1. base[1] = 0 /\ base[2] = 1
        BY <2>2 DEF auth_attr_h
    <3> QED BY <3>1, <2>2, <1>1, <1>2 DEF On
  <2> QED BY <2>1, <2>2
<1>5. auth_scalarmult(s, base) = IF r = Identity THEN Bad ELSE r
    BY <1>3 DEF auth_scalarmult, k
<1> HIDE DEF r
<1>6. r = Identity <=> k = 0
    BY <1>1, <1>4, OnPoints
<1>7. auth_scalarmult(s, base) = IF k = 0 THEN Bad ELSE On(base, k)
    BY <1>4, <1>5, <1>6
<1> QED BY <1>7 DEF k

\* The equation of a proof made for x, with commitment base * r and challenge
\* c, holds unless the response or the product of c and x is zero.
LEMMA EquationOfProof ==
    ASSUME NEW base \in {G, auth_attr_h}, NEW r \in Int, NEW x \in Int, NEW c \in Int, NEW p,
           p = Prove(auth_scalarmult(r, base), r, x, c), p.err = "OK"
    PROVE  EquationHolds(base, p, auth_scalarmult(x, base), c)
               <=> p.s # 0 /\ ((c % Q) * (x % Q)) % Q # 0
<1> DEFINE a == auth_scalarmult(r, base)
           pub == auth_scalarmult(x, base)
           i == r % Q
           j == x % Q
           m == ((c % Q) * j) % Q
           s == (i + m) % Q
<1>1. i \in Residues /\ j \in Residues /\ i \in Int /\ j \in Int /\ c % Q \in Int
    BY Reduced, Residue
<1>2. (c % Q) * j \in Int
    BY <1>1
<1>3. m \in Residues /\ m \in Int /\ m % Q = m
    BY <1>2, Reduced, Residue
<1>4. a # Bad /\ p = [err |-> "OK", a |-> a, s |-> auth_scalar_add(r, auth_scalar_mul(c, x))]
  <2>1. CASE a = Bad
      BY <2>1 DEF Prove
  <2> QED BY <2>1 DEF Prove
<1>5. p.a = a /\ p.s = s
  <2>1. auth_scalar_mul(c, x) = m
      BY DEF auth_scalar_mul
  <2>2. auth_scalar_add(r, m) = (i + (m % Q)) % Q
      BY DEF auth_scalar_add
  <2> QED BY <2>1, <2>2, <1>3, <1>4
<1>6. a = On(base, i)
    BY <1>4, BaseMult
<1>7. s \in Residues /\ s % Q = s /\ s \in Int
  <2>1. i + m \in Int
      BY <1>1, <1>3
  <2> QED BY <2>1, Reduced, Residue
<1>8. pub = IF j = 0 THEN Bad ELSE On(base, j)
    BY BaseMult
<1>9. auth_scalarmult(s, base) = IF s = 0 THEN Bad ELSE On(base, s)
    BY <1>7, BaseMult
<1>10. auth_scalarmult(c, pub) = IF m = 0 THEN Bad ELSE On(base, m)
  <2>1. CASE j = 0
    <3>1. pub = Bad /\ m = 0
      <4>1. (c % Q) * 0 = 0 /\ 0 % Q = 0
          BY <1>1, Constants
      <4> QED BY <4>1, <2>1, <1>8
    <3>2. auth_scalarmult(c, Bad) = Bad
        BY DEF auth_scalarmult
    <3> QED BY <3>1, <3>2
  <2>2. CASE j # 0
    <3>1. pub = On(base, j)
        BY <2>2, <1>8
    <3> HIDE DEF pub, j
    <3> QED BY <3>1, <1>1, OnMult
  <2> QED BY <2>1, <2>2
<1>11. auth_point_add(a, On(base, m)) = On(base, s)
    BY <1>1, <1>3, <1>6, OnPoints
<1>12. EquationHolds(base, p, pub, c)
          <=> /\ Bad \notin {auth_scalarmult(s, base), auth_scalarmult(c, pub), auth_point_add(a, auth_scalarmult(c, pub))}
              /\ auth_scalarmult(s, base) = auth_point_add(a, auth_scalarmult(c, pub))
    BY <1>5 DEF EquationHolds
<1>13. On(base, s) # Bad /\ On(base, m) # Bad
    BY <1>3, <1>7, OnPoints
<1> HIDE DEF a, pub, s, m, i, j
<1>14. EquationHolds(base, p, pub, c) <=> s # 0 /\ m # 0
    BY <1>9, <1>10, <1>11, <1>12, <1>13
<1> QED BY <1>5, <1>14 DEF pub, m, j
\* The difference of a rerandomised commitment and the stored one.
LEMMA Rerandomised ==
    ASSUME NEW C \in Int \X Int, C # Bad, NEW v \in Residues
    PROVE  /\ auth_point_add(C, On(auth_attr_h, v)) = <<C[1] % Q, (C[2] + v) % Q>>
           /\ auth_point_sub(<<C[1] % Q, (C[2] + v) % Q>>, C) = On(auth_attr_h, v)
<1> DEFINE H == On(auth_attr_h, v)
           a == C[1] % Q
           b == (C[2] + v) % Q
<1>1. C[1] \in Int /\ C[2] \in Int /\ v \in Int /\ v % Q = v /\ C[1] + 0 = C[1]
  <2>1. v \in Int
      BY Constants DEF Residues
  <2>2. \A w \in Residues : w % Q = w
      BY Constants DEF Residues
  <2> QED BY <2>1, <2>2
<1>2. H = <<0, v>>
    BY DEF On, G, auth_attr_h
<1>3. H # Bad
    BY OnPoints
<1>4. auth_point_add(C, H) = <<a, b>>
  <2>1. auth_point_add(C, H) = <<(C[1] + H[1]) % Q, (C[2] + H[2]) % Q>>
      BY <1>3 DEF auth_point_add
  <2>2. H[1] = 0 /\ H[2] = v
      BY <1>2
  <2> QED BY <2>1, <2>2, <1>1
<1>5. a \in Residues /\ b \in Residues
  <2>1. C[2] + v \in Int
      BY <1>1
  <2> QED BY <2>1, <1>1, Reduced
<1>6. (a - C[1]) % Q = 0 /\ (b - C[2]) % Q = v
  <2>1. (((C[1] + 0) % Q) - C[1]) % Q = 0 % Q
      BY <1>1, TakenAway
  <2>2. 0 % Q = 0
      BY Constants
  <2>3. (((C[2] + v) % Q) - C[2]) % Q = v % Q
      BY <1>1, TakenAway
  <2> QED BY <2>1, <2>2, <2>3, <1>1
<1> HIDE DEF a, b, H
<1>7. <<a, b>> # Bad
    BY <1>5, Constants DEF Bad, Residues
<1>8. auth_point_sub(<<a, b>>, C) = <<(a - C[1]) % Q, (b - C[2]) % Q>>
    BY <1>7 DEF auth_point_sub
<1>9. auth_point_sub(<<a, b>>, C) = H
    BY <1>2, <1>6, <1>8
<1> QED BY <1>4, <1>9 DEF a, b, H

\* When the response of a proof and the product of its challenge and the
\* secret are not zero.
NoZero(p, c, x) == p.s # 0 /\ ((c % Q) * (x % Q)) % Q # 0

\* The challenges are integers when the hashes are.
LEMMA ChallengeTyped ==
    ASSUME \A t : HashOf(t) \in Int
    PROVE  \A t : auth_transcript_challenge(t) \in Int
<1> TAKE t
<1>1. HashOf(t) \in Int
    OBVIOUS
<1> QED BY <1>1, Residue DEF auth_transcript_challenge

\* Completeness of the proofs of knowledge (proofs.c): what
\* auth_prove_setup_client, auth_prove_setup_server, auth_prove_auth_client,
\* auth_prove_auth_server and auth_prove_rerandomization return for the right
\* secret is accepted by the verifier that is given the same context and the
\* public key, or commitment, of that secret, for every group order, hash,
\* secret and nonce, unless libsodium refuses a product because it is the
\* identity: the response, or the product of challenge and secret, is zero.
THEOREM HonestProofsVerify ==
    ASSUME \A t : HashOf(t) \in Int, NEW r \in Int, NEW x \in Int, NEW st, NEW ac,
           NEW nonce_s, NEW eph_s, NEW C \in Int \X Int, C # Bad, NEW p, p.err = "OK"
    PROVE  LET pub == auth_scalarmult_base(x)
               C2 == auth_rerandomize_commitment(C, 0, x).c_prime
           IN  /\ p = auth_prove_setup_client(r, x, st) /\ st.device_pub = pub
                      => (auth_verify_setup_client(p, st)
                              <=> NoZero(p, setup_client_challenge(st, p.a), x))
               /\ p = auth_prove_setup_server(r, x, st) /\ st.server_pub = pub
                      => (auth_verify_setup_server(p, st)
                              <=> NoZero(p, setup_server_challenge(st, p.a), x))
               /\ p = auth_prove_auth_client(r, x, ac)
                      => (auth_verify_auth_client(p, pub, ac)
                              <=> NoZero(p, auth_client_challenge(pub, p.a, ac), x))
               /\ p = auth_prove_auth_server(r, x, nonce_s, eph_s)
                      => (auth_verify_auth_server(p, pub, nonce_s, eph_s)
                              <=> NoZero(p, auth_server_challenge(pub, p.a, nonce_s, eph_s), x))
               /\ p = auth_prove_rerandomization(r, C, C2, x, ac) /\ C2 # Bad
                      => (auth_verify_rerandomization(p, C, C2, ac)
                              <=> NoZero(p, rerand_challenge(ac, C, C2, p.a), x))
<1> DEFINE pub == auth_scalarmult_base(x)
           a == auth_scalarmult_base(r)
           C2 == auth_rerandomize_commitment(C, 0, x).c_prime
<1>1. \A t : auth_transcript_challenge(t) \in Int
    BY ChallengeTyped
<1>2. ASSUME NEW base \in {G, auth_attr_h}, NEW c \in Int,
             p = Prove(auth_scalarmult(r, base), r, x, c)
      PROVE  /\ EquationHolds(base, p, auth_scalarmult(x, base), c) <=> NoZero(p, c, x)
             /\ p.a = auth_scalarmult(r, base)
  <2>1. EquationHolds(base, p, auth_scalarmult(x, base), c) <=> NoZero(p, c, x)
      BY <1>2, EquationOfProof DEF NoZero
  <2>2. p.a = auth_scalarmult(r, base)
      BY <1>2 DEF Prove
  <2> QED BY <2>1, <2>2
<1>3. ASSUME NEW c \in Int, p = Prove(a, r, x, c)
      PROVE  (EquationHolds(G, p, pub, c) <=> NoZero(p, c, x)) /\ p.a = a
    BY <1>3, <1>2 DEF auth_scalarmult_base
<1> HIDE DEF pub, a
<1>4. ASSUME p = auth_prove_setup_client(r, x, st), st.device_pub = pub
      PROVE  auth_verify_setup_client(p, st) <=> NoZero(p, setup_client_challenge(st, p.a), x)
  <2> DEFINE c == setup_client_challenge(st, a)
  <2>1. c \in Int
      BY <1>1 DEF setup_client_challenge
  <2>2. p = Prove(a, r, x, c)
      BY <1>4 DEF auth_prove_setup_client, a
  <2> HIDE DEF c
  <2>3. (EquationHolds(G, p, pub, c) <=> NoZero(p, c, x)) /\ p.a = a
      BY <2>1, <2>2, <1>3
  <2> QED BY <2>3, <1>4 DEF auth_verify_setup_client, c
<1>5. ASSUME p = auth_prove_setup_server(r, x, st), st.server_pub = pub
      PROVE  auth_verify_setup_server(p, st) <=> NoZero(p, setup_server_challenge(st, p.a), x)
  <2> DEFINE c == setup_server_challenge(st, a)
  <2>1. c \in Int
      BY <1>1 DEF setup_server_challenge
  <2>2. p = Prove(a, r, x, c)
      BY <1>5 DEF auth_prove_setup_server, a
  <2> HIDE DEF c
  <2>3. (EquationHolds(G, p, pub, c) <=> NoZero(p, c, x)) /\ p.a = a
      BY <2>1, <2>2, <1>3
  <2> QED BY <2>3, <1>5 DEF auth_verify_setup_server, c
<1>6. ASSUME p = auth_prove_auth_client(r, x, ac)
      PROVE  auth_verify_auth_client(p, pub, ac) <=> NoZero(p, auth_client_challenge(pub, p.a, ac), x)
  <2> DEFINE c == auth_client_challenge(pub, a, ac)
  <2>1. c \in Int
      BY <1>1 DEF auth_client_challenge
  <2>2. p = Prove(a, r, x, c)
    <3>1. CASE pub = Bad
        BY <3>1, <1>6 DEF auth_prove_auth_client, pub
    <3>2. CASE pub # Bad
        BY <3>2, <1>6 DEF auth_prove_auth_client, pub, a
    <3> QED BY <3>1, <3>2
  <2> HIDE DEF c
  <2>3. (EquationHolds(G, p, pub, c) <=> NoZero(p, c, x)) /\ p.a = a
      BY <2>1, <2>2, <1>3
  <2> QED BY <2>3 DEF auth_verify_auth_client, c
<1>7. ASSUME p = auth_prove_auth_server(r, x, nonce_s, eph_s)
      PROVE  auth_verify_auth_server(p, pub, nonce_s, eph_s)
                 <=> NoZero(p, auth_server_challenge(pub, p.a, nonce_s, eph_s), x)
  <2> DEFINE c == auth_server_challenge(pub, a, nonce_s, eph_s)
  <2>1. c \in Int
      BY <1>1 DEF auth_server_challenge
  <2>2. p = Prove(a, r, x, c)
    <3>1. CASE pub = Bad
        BY <3>1, <1>7 DEF auth_prove_auth_server, pub
    <3>2. CASE pub # Bad
        BY <3>2, <1>7 DEF auth_prove_auth_server, pub, a
    <3> QED BY <3>1, <3>2
  <2> HIDE DEF c
  <2>3. (EquationHolds(G, p, pub, c) <=> NoZero(p, c, x)) /\ p.a = a
      BY <2>1, <2>2, <1>3
  <2> QED BY <2>3 DEF auth_verify_auth_server, c
<1>8. ASSUME p = auth_prove_rerandomization(r, C, C2, x, ac), C2 # Bad
      PROVE  auth_verify_rerandomization(p, C, C2, ac) <=> NoZero(p, rerand_challenge(ac, C, C2, p.a), x)
  <2> DEFINE e == auth_scalarmult(r, auth_attr_h)
             H == auth_scalarmult(x, auth_attr_h)
             c == rerand_challenge(ac, C, C2, e)
             D == auth_point_sub(C2, C)
  <2>1. c \in Int
      BY <1>1 DEF rerand_challenge
  <2>2. p = Prove(e, r, x, c)
      BY <1>8 DEF auth_prove_rerandomization
  <2>3. C2 = auth_point_add(C, H)
      BY DEF auth_rerandomize_commitment
  <2>4. H # Bad
      BY <1>8, <2>3 DEF auth_point_add
  <2>5. H = On(auth_attr_h, x % Q) /\ x % Q \in Residues
      BY <2>4, BaseMult, Reduced
  <2> HIDE DEF C2, H, c
  <2>6. D = H
      BY <2>3, <2>5, Rerandomised
  <2>7. (EquationHolds(auth_attr_h, p, H, c) <=> NoZero(p, c, x)) /\ p.a = e
      BY <2>1, <2>2, <1>2 DEF H
  <2> HIDE DEF e
  <2>8. auth_verify_rerandomization(p, C, C2, ac)
            <=> EquationHolds(auth_attr_h, p, D, rerand_challenge(ac, C, C2, p.a))
      BY DEF auth_verify_rerandomization
  <2> HIDE DEF D
  <2> QED BY <2>6, <2>7, <2>8 DEF c
<1> QED BY <1>4, <1>5, <1>6, <1>7, <1>8 DEF pub
=============================================================================
