----------------------------- MODULE InputProofs -----------------------------
(***************************************************************************)
(* What keys, pastes, the pointer, the wheel, fingers and the on-screen    *)
(* keyboard do, for every terminal size, keyboard layout and input; and    *)
(* the types of the settings' composition.                                 *)
(***************************************************************************)
EXTENDS MCSettings, SettingsProofs, SequenceTheorems, FiniteSetTheorems, TLAPS

(***************************************************************************)
(* Sequences                                                               *)
(***************************************************************************)
LEMMA Joined ==
  \A s, t \in Seq(Nat) :
    /\ s \o t \in Seq(Nat) /\ Len(s \o t) = Len(s) + Len(t)
    /\ \A i \in 1..Len(s) : (s \o t)[i] = s[i]
    /\ \A i \in 1..Len(t) : (s \o t)[Len(s) + i] = t[i]
<1> SUFFICES ASSUME NEW s \in Seq(Nat), NEW t \in Seq(Nat)
             PROVE  /\ s \o t \in Seq(Nat) /\ Len(s \o t) = Len(s) + Len(t)
                    /\ \A i \in 1..Len(s) : (s \o t)[i] = s[i]
                    /\ \A i \in 1..Len(t) : (s \o t)[Len(s) + i] = t[i]
  OBVIOUS
<1>1. /\ s \o t \in Seq(Nat) /\ Len(s \o t) = Len(s) + Len(t)
      /\ \A i \in 1..(Len(s) + Len(t)) : (s \o t)[i] = IF i <= Len(s) THEN s[i] ELSE t[i - Len(s)]
  BY ConcatProperties
<1>2. Len(s) \in Nat /\ Len(t) \in Nat
  BY LenProperties
<1>3. ASSUME NEW i \in 1..Len(s) PROVE (s \o t)[i] = s[i]
  <2>1. i \in 1..(Len(s) + Len(t)) /\ i <= Len(s)
    BY <1>2
  <2> QED
    BY <1>1, <2>1
<1>4. ASSUME NEW i \in 1..Len(t) PROVE (s \o t)[Len(s) + i] = t[i]
  <2>1. Len(s) + i \in 1..(Len(s) + Len(t)) /\ ~(Len(s) + i <= Len(s)) /\ (Len(s) + i) - Len(s) = i
    BY <1>2
  <2> QED
    BY <1>1, <2>1
<1> QED
  BY <1>1, <1>3, <1>4

LEMMA Part ==
  \A s \in Seq(Nat) : \A a, k \in Nat :
    a >= 1 /\ a + k <= Len(s) + 1 =>
      /\ SubSeq(s, a, a + k - 1) \in Seq(Nat) /\ Len(SubSeq(s, a, a + k - 1)) = k
      /\ \A i \in 1..k : SubSeq(s, a, a + k - 1)[i] = s[a + i - 1]
<1> SUFFICES ASSUME NEW s \in Seq(Nat), NEW a \in Nat, NEW k \in Nat, a >= 1, a + k <= Len(s) + 1
             PROVE  /\ SubSeq(s, a, a + k - 1) \in Seq(Nat) /\ Len(SubSeq(s, a, a + k - 1)) = k
                    /\ \A i \in 1..k : SubSeq(s, a, a + k - 1)[i] = s[a + i - 1]
  OBVIOUS
<1>1. Len(s) \in Nat
  BY LenProperties
<1>2. \A i \in a..(a + k - 1) : i \in 1..Len(s)
  BY <1>1
<1>3. \A i \in a..(a + k - 1) : s[i] \in Nat
  BY <1>2, ElementOfSeq
<1>4. a + k - 1 \in Int /\ (a + k - 1) - a + 1 = k /\ (a <= a + k - 1 <=> k > 0)
  OBVIOUS
<1>5. /\ SubSeq(s, a, a + k - 1) \in Seq(Nat)
      /\ Len(SubSeq(s, a, a + k - 1)) = IF a <= a + k - 1 THEN (a + k - 1) - a + 1 ELSE 0
      /\ \A i \in 1..((a + k - 1) - a + 1) : SubSeq(s, a, a + k - 1)[i] = s[a + i - 1]
  BY <1>3, <1>4, SubSeqProperties
<1> QED
  BY <1>4, <1>5

LEMMA Same ==
  \A s, t \in Seq(Nat) : Len(s) = Len(t) /\ (\A i \in 1..Len(s) : s[i] = t[i]) => s = t
  BY SeqEqual

(***************************************************************************)
(* Pastes                                                                  *)
(***************************************************************************)
Around(text) == PASTE_START \o text \o PASTE_END

LEMMA Markers ==
  /\ Len(PASTE_START) = 6 /\ Len(PASTE_END) = 6
  /\ PASTE_START \in Seq(Nat) /\ PASTE_END \in Seq(Nat)
  /\ \A i \in 1..6 : PASTE_START[i] = 27 => i = 1
  /\ \A i \in 1..6 : PASTE_END[i] = 27 <=> i = 1
  /\ PASTE_START[5] = 48 /\ PASTE_END[5] = 49
  BY DEF PASTE_START, PASTE_END, ESC

LEMMA AroundAt ==
  ASSUME NEW text \in Seq(Nat)
  PROVE  /\ Around(text) \in Seq(Nat) /\ Len(Around(text)) = Len(text) + 12 /\ Len(text) \in Nat
         /\ \A i \in 1..6 : Around(text)[i] = PASTE_START[i]
         /\ \A i \in 1..Len(text) : Around(text)[6 + i] = text[i]
         /\ \A i \in 1..6 : Around(text)[Len(text) + 6 + i] = PASTE_END[i]
<1> DEFINE p == PASTE_START \o text
<1>0. Len(text) \in Nat
  BY LenProperties
<1>1. /\ p \in Seq(Nat) /\ Len(p) = 6 + Len(text)
      /\ \A i \in 1..6 : p[i] = PASTE_START[i]
      /\ \A i \in 1..Len(text) : p[6 + i] = text[i]
  <2>1. /\ p \in Seq(Nat) /\ Len(p) = Len(PASTE_START) + Len(text)
        /\ \A i \in 1..Len(PASTE_START) : p[i] = PASTE_START[i]
        /\ \A i \in 1..Len(text) : p[Len(PASTE_START) + i] = text[i]
    <3>1. PASTE_START \in Seq(Nat)
      BY Markers
    <3> QED
      BY <3>1, Joined, Zenon
  <2> HIDE DEF p
  <2> QED
    BY <2>1, Markers
<1>2. Around(text) = p \o PASTE_END
  BY DEF Around
<1> HIDE DEF p
<1>3. /\ Around(text) \in Seq(Nat) /\ Len(Around(text)) = Len(p) + 6
      /\ \A i \in 1..Len(p) : Around(text)[i] = p[i]
      /\ \A i \in 1..6 : Around(text)[Len(p) + i] = PASTE_END[i]
  <2>1. /\ p \o PASTE_END \in Seq(Nat) /\ Len(p \o PASTE_END) = Len(p) + Len(PASTE_END)
        /\ \A i \in 1..Len(p) : (p \o PASTE_END)[i] = p[i]
        /\ \A i \in 1..Len(PASTE_END) : (p \o PASTE_END)[Len(p) + i] = PASTE_END[i]
    <3>1. p \in Seq(Nat) /\ PASTE_END \in Seq(Nat)
      BY <1>1, Markers
    <3> QED
      BY <3>1, Joined, Zenon
  <2>2. Len(PASTE_END) = 6
    BY Markers
  <2> QED
    BY <1>2, <2>1, <2>2, ZenonT(40)
<1>4. ASSUME NEW i \in 1..6 PROVE Around(text)[i] = PASTE_START[i]
  <2>1. i \in 1..Len(p)
    BY <1>0, <1>1
  <2> QED
    BY <1>1, <1>3, <2>1
<1>5. ASSUME NEW i \in 1..Len(text) PROVE Around(text)[6 + i] = text[i]
  <2>1. 6 + i \in 1..Len(p)
    BY <1>0, <1>1
  <2> QED
    BY <1>1, <1>3, <2>1
<1>6. ASSUME NEW i \in 1..6 PROVE Around(text)[Len(text) + 6 + i] = PASTE_END[i]
  <2>1. Len(text) + 6 + i = Len(p) + i
    BY <1>0, <1>1
  <2> QED
    BY <1>3, <2>1
<1>7. Len(p) + 6 = Len(text) + 12
  BY <1>0, <1>1
<1> QED
  BY <1>0, <1>3, <1>4, <1>5, <1>6, <1>7

(* Six bytes are the mark that ends a paste if each of them is.            *)
IsEnd(s, i) == SubSeq(s, i, i + 5) = PASTE_END
LEMMA Six ==
  ASSUME NEW s \in Seq(Nat), NEW i \in Nat, i >= 1, i + 5 <= Len(s)
  PROVE  IsEnd(s, i) <=> \A k \in 1..6 : s[i + k - 1] = PASTE_END[k]
<1>1. i + 6 <= Len(s) + 1 /\ i + 6 - 1 = i + 5
  BY LenProperties
<1>2. /\ SubSeq(s, i, i + 5) \in Seq(Nat) /\ Len(SubSeq(s, i, i + 5)) = 6
      /\ \A k \in 1..6 : SubSeq(s, i, i + 5)[k] = s[i + k - 1]
  BY <1>1, Part
<1> DEFINE t == SubSeq(s, i, i + 5)
<1>3. t \in Seq(Nat) /\ Len(t) = 6 /\ \A k \in 1..6 : t[k] = s[i + k - 1]
  BY <1>2
<1> HIDE DEF t
<1>4. t = PASTE_END <=> \A k \in 1..6 : t[k] = PASTE_END[k]
  <2>1. ASSUME \A k \in 1..6 : t[k] = PASTE_END[k] PROVE t = PASTE_END
    <3>1. Len(t) = Len(PASTE_END) /\ \A k \in 1..Len(t) : t[k] = PASTE_END[k]
      BY <1>3, <2>1, Markers
    <3> QED
      BY <1>3, <3>1, Markers, Same, Zenon
  <2> QED
    BY <2>1
<1>5. t = PASTE_END <=> \A k \in 1..6 : s[i + k - 1] = PASTE_END[k]
  BY <1>3, <1>4
<1> QED
  BY <1>5 DEF IsEnd, t

(* Only the first byte of either mark is an ESC: the mark that ends the    *)
(* paste cannot begin in the one before it, nor straddle the text's end.   *)
LEMMA EndsOnce ==
  ASSUME NEW text \in Seq(Nat), \A i \in 1..(Len(text) - 5) : ~IsEnd(text, i)
  PROVE  LET sent == Around(text)
         IN  \A i \in 1..(Len(sent) - 5) : IsEnd(sent, i) <=> i = Len(sent) - 5
<1> DEFINE sent == Around(text)
           n == Len(text)
<1>0. n \in Nat /\ Len(sent) = n + 12 /\ sent \in Seq(Nat)
  BY AroundAt
<1>1. /\ \A i \in 1..6 : sent[i] = PASTE_START[i]
      /\ \A i \in 1..n : sent[6 + i] = text[i]
      /\ \A i \in 1..6 : sent[n + 6 + i] = PASTE_END[i]
  BY AroundAt
<1> HIDE DEF sent, n
<1>2. ASSUME NEW i \in 1..(n + 7)
      PROVE  i \in Nat /\ (IsEnd(sent, i) <=> \A k \in 1..6 : sent[i + k - 1] = PASTE_END[k])
  <2>1. i \in Nat /\ i >= 1 /\ i + 5 <= Len(sent)
    BY <1>0
  <2> QED
    BY <1>0, <2>1, Six
<1>3. IsEnd(sent, n + 7)
  <2>1. \A k \in 1..6 : (n + 7) + k - 1 = n + 6 + k
    BY <1>0
  <2>2. \A k \in 1..6 : sent[(n + 7) + k - 1] = PASTE_END[k]
    BY <1>1, <2>1
  <2>3. n + 7 \in 1..(n + 7)
    BY <1>0
  <2> QED
    BY <1>2, <2>2, <2>3
<1>4. ASSUME NEW i \in 1..(n + 6), IsEnd(sent, i) PROVE FALSE
  <2>0. i \in 1..(n + 7) /\ i \in Nat /\ i >= 1 /\ i <= n + 6
    BY <1>0
  <2>1. \A k \in 1..6 : sent[i + k - 1] = PASTE_END[k]
    BY <1>2, <1>4, <2>0
  <2>2. sent[i] = 27 /\ sent[i + 4] = 49
    <3>1. 1 \in 1..6 /\ 5 \in 1..6 /\ i + 1 - 1 = i /\ i + 5 - 1 = i + 4
      BY <2>0
    <3>2. PASTE_END[1] = 27 /\ PASTE_END[5] = 49
      BY Markers, <3>1
    <3> QED
      BY <2>1, <3>1, <3>2
  <2>3. \A k \in 2..6 : sent[i + k - 1] # 27
    <3> TAKE k \in 2..6
    <3>1. k \in 1..6 /\ k # 1
      OBVIOUS
    <3> QED
      BY <2>1, <3>1, Markers
  <2>4. CASE i <= 6
    <3>1. i \in 1..6
      BY <2>0, <2>4
    <3>2. i = 1
      BY <1>1, <2>2, <3>1, Markers
    <3>3. sent[5] = 49 /\ sent[5] = PASTE_START[5] /\ PASTE_START[5] = 48
      <4>1. 5 \in 1..6 /\ 1 + 4 = 5
        OBVIOUS
      <4> QED
        BY <1>1, <2>2, <3>2, <4>1, Markers
    <3> QED
      BY <3>3
  <2>5. CASE i > 6 /\ i <= n + 1
    <3> DEFINE j == i - 6
    <3>1. j \in 1..(n - 5) /\ j \in Nat /\ j >= 1 /\ j + 5 <= n
      BY <1>0, <2>0, <2>5
    <3>2. \A k \in 1..6 : text[j + k - 1] = PASTE_END[k]
      <4> TAKE k \in 1..6
      <4>1. j + k - 1 \in 1..n /\ 6 + (j + k - 1) = i + k - 1
        BY <1>0, <2>0, <2>5
      <4> HIDE DEF j
      <4>2. sent[6 + (j + k - 1)] = text[j + k - 1]
        BY <1>1, <4>1
      <4> QED
        BY <2>1, <4>1, <4>2
    <3> HIDE DEF j
    <3>3. IsEnd(text, j)
      BY <3>1, <3>2, Six DEF n
    <3> QED
      BY <3>1, <3>3 DEF n
  <2>6. CASE i > n + 1 /\ i > 6
    <3> DEFINE k == n + 8 - i
    <3>1. k \in 2..6 /\ i + k - 1 = n + 6 + 1 /\ 1 \in 1..6
      BY <1>0, <2>0, <2>6
    <3> HIDE DEF k
    <3>2. sent[i + k - 1] = 27
      BY <1>1, <3>1, Markers
    <3> QED
      BY <2>3, <3>1, <3>2
  <2> QED
    BY <1>0, <2>0, <2>4, <2>5, <2>6
<1>5. Len(sent) - 5 = n + 7
  BY <1>0
<1>6. ASSUME NEW i \in 1..(n + 7) PROVE IsEnd(sent, i) <=> i = n + 7
  <2>1. i = n + 7 \/ i \in 1..(n + 6)
    BY <1>0
  <2> QED
    BY <1>3, <1>4, <2>1
<1> QED
  BY <1>5, <1>6 DEF sent

LEMMA MaxOf ==
  ASSUME NEW S \in SUBSET Nat, NEW b \in Nat, \A n \in S : n <= b, S # {}
  PROVE  Max(S) \in S /\ \A n \in S : n <= Max(S)
<1> DEFINE Bounds == {n \in Nat : \A k \in S : k <= n}
<1>1. Bounds \in SUBSET Nat /\ Bounds # {}
  OBVIOUS
<1>2. \E m \in Bounds : \A n \in Bounds : m <= n
  <2> HIDE DEF Bounds
  <2> QED
    BY <1>1, LeastNat
<1>3. PICK m \in Bounds : \A n \in Bounds : m <= n
  BY <1>2
<1>4. m \in S
  <2> SUFFICES ASSUME m \notin S PROVE FALSE
    OBVIOUS
  <2>1. m \in Nat /\ \A k \in S : k <= m /\ k # m
    OBVIOUS
  <2>2. m > 0
    <3>1. PICK k \in S : TRUE
      OBVIOUS
    <3>2. k \in Nat /\ k <= m /\ k # m
      BY <2>1
    <3> QED
      BY <2>1, <3>2
  <2>3. m - 1 \in Nat /\ \A k \in S : k <= m - 1
    BY <2>1, <2>2
  <2>4. m - 1 \in Bounds
    BY <2>3
  <2>5. m <= m - 1
    BY <1>3, <2>4
  <2> QED
    BY <2>1, <2>5
<1>5. m \in S /\ \A y \in S : m >= y
  BY <1>4
<1>6. Max(S) \in S /\ \A y \in S : Max(S) >= y
  BY <1>5, Zenon DEF Max
<1> QED
  BY <1>6

(* Of any text: a bracketed paste ends only where it says and carries the  *)
(* text between, an unbracketed one is the text, and what needs no         *)
(* confirmation has nothing after a line break (encode_paste, paste_risk). *)
THEOREM PasteArrives ==
  ASSUME NEW text \in Seq(Nat), NEW mode
  PROVE  PasteReach(text, mode)
<1> DEFINE n == Len(text)
<1>0. n \in Nat /\ DOMAIN text = 1..n
  BY LenProperties
<1>1. ASSUME NEW sent \in EncodePaste(text, mode)
      PROVE  IF mode.bracketed
               THEN /\ {i \in 1..(Len(sent) - 5) : SubSeq(sent, i, i + 5) = PASTE_END} = {Len(sent) - 5}
                    /\ SubSeq(sent, 7, Len(sent) - 6) = text
               ELSE sent = text
  <2>1. CASE ~mode.bracketed
    BY <1>1, <2>1 DEF EncodePaste
  <2>2. CASE mode.bracketed
    <3>1. sent = Around(text) /\ \A i \in 1..(Len(text) - 5) : ~IsEnd(text, i)
      BY <1>1, <2>2 DEF EncodePaste, Around, IsEnd
    <3>2. \A i \in 1..(Len(sent) - 5) : IsEnd(sent, i) <=> i = Len(sent) - 5
      BY <3>1, EndsOnce
    <3>3. /\ sent \in Seq(Nat) /\ Len(sent) = n + 12
          /\ \A i \in 1..n : sent[6 + i] = text[i]
      BY <3>1, AroundAt
    <3>4. Len(sent) - 5 \in 1..(Len(sent) - 5)
      BY <1>0, <3>3
    <3>5. {i \in 1..(Len(sent) - 5) : IsEnd(sent, i)} = {Len(sent) - 5}
      BY <3>2, <3>4
    <3>6. SubSeq(sent, 7, Len(sent) - 6) = text
      <4>1. Len(sent) - 6 = 7 + n - 1 /\ 7 + n <= Len(sent) + 1
        BY <1>0, <3>3
      <4> DEFINE t == SubSeq(sent, 7, 7 + n - 1)
      <4>2. t \in Seq(Nat) /\ Len(t) = n /\ \A i \in 1..n : t[i] = sent[7 + i - 1]
        BY <1>0, <3>3, <4>1, Part
      <4> HIDE DEF t
      <4>3. \A i \in 1..n : 7 + i - 1 = 6 + i
        BY <1>0
      <4>4. \A i \in 1..Len(t) : t[i] = text[i]
        BY <3>3, <4>2, <4>3
      <4>5. t = text
        BY <4>2, <4>4, Same
      <4> QED
        BY <4>1, <4>5 DEF t
    <3> QED
      BY <2>2, <3>5, <3>6 DEF IsEnd
  <2> QED
    BY <2>1, <2>2
<1>2. ASSUME ~PasteRisk(text).multiline, NEW i \in DOMAIN text, NEW j \in DOMAIN text, i < j,
             text[i] \in NewLines
      PROVE  text[j] \in NewLines
  <2> DEFINE kept == {k \in DOMAIN text : text[k] \notin NewLines}
  <2> SUFFICES ASSUME j \in kept PROVE FALSE
    OBVIOUS
  <2>1. kept \in SUBSET Nat /\ (\A k \in kept : k <= n) /\ kept # {}
    BY <1>0
  <2>2. Max(kept) \in kept /\ j <= Max(kept)
    <3> HIDE DEF kept
    <3> QED
      BY <1>0, <2>1, MaxOf
  <2>3. Body(text) = SubSeq(text, 1, Max(kept))
    BY <2>1 DEF Body
  <2> DEFINE m == Max(kept)
             body == SubSeq(text, 1, 1 + m - 1)
  <2>4. m \in 1..n /\ j <= m
    BY <1>0, <2>2
  <2> HIDE DEF m, kept
  <2>5. m \in Nat /\ 1 + m <= n + 1 /\ 1 + m - 1 = m /\ i \in 1..m
    BY <1>0, <1>2, <2>4
  <2>6. body \in Seq(Nat) /\ Len(body) = m /\ \A k \in 1..m : body[k] = text[1 + k - 1]
    BY <2>5, Part
  <2>7. Body(text) = body
    BY <2>3, <2>5 DEF m
  <2> HIDE DEF body
  <2>8. i \in DOMAIN body /\ body[i] = text[i]
    <3>1. DOMAIN body = 1..m
      BY <2>6, LenProperties
    <3>2. 1 + i - 1 = i
      BY <2>5
    <3> QED
      BY <2>5, <2>6, <3>1, <3>2
  <2>9. Range(body) \cap NewLines # {}
    BY <1>2, <2>8 DEF Range
  <2> QED
    BY <1>2, <2>7, <2>9 DEF PasteRisk
<1> QED
  BY <1>1, <1>2 DEF PasteReach

(***************************************************************************)
(* The wheel                                                               *)
(***************************************************************************)
LEMMA MinOfTwo ==
  \A a, b \in Int : Min({a, b}) = IF a <= b THEN a ELSE b
<1> SUFFICES ASSUME NEW a \in Int, NEW b \in Int PROVE Min({a, b}) = IF a <= b THEN a ELSE b
  OBVIOUS
<1> DEFINE m == IF a <= b THEN a ELSE b
<1>1. m \in {a, b} /\ \A y \in {a, b} : m <= y
  OBVIOUS
<1>2. \A x \in {a, b} : (\A y \in {a, b} : x <= y) => x = m
  OBVIOUS
<1>3. Min({a, b}) \in {a, b} /\ \A y \in {a, b} : Min({a, b}) <= y
  <2> HIDE DEF m
  <2> QED
    BY <1>1, Zenon DEF Min
<1> HIDE DEF m
<1>4. Min({a, b}) = m
  BY <1>2, <1>3
<1> QED
  BY <1>4 DEF m

LEMMA MaxOfTwo ==
  \A a, b \in Int : Max({a, b}) = IF a >= b THEN a ELSE b
<1> SUFFICES ASSUME NEW a \in Int, NEW b \in Int PROVE Max({a, b}) = IF a >= b THEN a ELSE b
  OBVIOUS
<1> DEFINE m == IF a >= b THEN a ELSE b
<1>1. m \in {a, b} /\ \A y \in {a, b} : m >= y
  OBVIOUS
<1>2. \A x \in {a, b} : (\A y \in {a, b} : x >= y) => x = m
  OBVIOUS
<1>3. Max({a, b}) \in {a, b} /\ \A y \in {a, b} : Max({a, b}) >= y
  <2> HIDE DEF m
  <2> QED
    BY <1>1, Zenon DEF Max
<1> HIDE DEF m
<1>4. Max({a, b}) = m
  BY <1>2, <1>3
<1> QED
  BY <1>4 DEF m

LEMMA WholeRest ==
  \A t \in Int : WholeLines(t) \in Int /\ t - 10 * WholeLines(t) \in -9..9
<1> SUFFICES ASSUME NEW t \in Int
             PROVE  WholeLines(t) \in Int /\ t - 10 * WholeLines(t) \in -9..9
  OBVIOUS
<1>1. CASE t >= 0
  <2>1. t \div 10 \in Int /\ t - 10 * (t \div 10) \in 0..9
    BY <1>1
  <2> QED
    BY <1>1, <2>1 DEF WholeLines
<1>2. CASE ~(t >= 0)
  <2>1. (-t) \div 10 \in Int /\ (-t) - 10 * ((-t) \div 10) \in 0..9
    BY <1>2
  <2>2. WholeLines(t) = -((-t) \div 10)
    BY <1>2 DEF WholeLines
  <2> QED
    BY <2>1, <2>2
<1> QED
  BY <1>1, <1>2

LEMMA RepeatedLen ==
  \A bytes \in Seq(Nat) : \A n \in Nat : Len(bytes) > 0 => Len(Repeated(bytes, n)) = n * Len(bytes)
<1> SUFFICES ASSUME NEW bytes \in Seq(Nat), NEW n \in Nat, Len(bytes) > 0
             PROVE  Len(Repeated(bytes, n)) = n * Len(bytes)
  OBVIOUS
<1> DEFINE k == Len(bytes)
           f == [i \in 1..(n * k) |-> bytes[1 + ((i - 1) % k)]]
<1>1. k \in Nat /\ n * k \in Nat /\ k > 0
  BY LenProperties
<1>2. \A i \in 1..(n * k) : 1 + ((i - 1) % k) \in 1..k
  <2> HIDE DEF k
  <2> QED
    BY <1>1
<1>3. \A i \in 1..k : bytes[i] \in Nat
  BY ElementOfSeq
<1>4. f \in [1..(n * k) -> Nat]
  <2> HIDE DEF k
  <2> QED
    BY <1>2, <1>3
<1>5. Len(f) = n * k
  <2> HIDE DEF k, f
  <2> QED
    BY <1>1, <1>4
<1> QED
  BY <1>5 DEF Repeated

Local(mode) == ~MouseActive(mode) /\ ~(mode.altScreen /\ mode.alternateScroll)

LEMMA WheelReport ==
  ASSUME NEW button \in {"wheelup", "wheeldown"}, NEW mode, mode.sgr = FALSE, MouseActive(mode),
         NEW n \in Nat
  PROVE  LET report == EncodeMouse(button, "press", 0, 0, {}, mode)
         IN  Len(Repeated(CHOOSE b \in report : TRUE, n)) = n * 6
<1> DEFINE report == EncodeMouse(button, "press", 0, 0, {}, mode)
           b0 == <<27, 91, 77, 32 + ButtonCode[button], 33, 33>>
<1>1. Weight({}, "shift", 4) = 0 /\ Weight({}, "alt", 8) = 0 /\ Weight({}, "ctrl", 16) = 0
  BY DEF Weight
<1>2. Min({0, 222}) = 0
  BY MinOfTwo
<1>3. ButtonCode[button] \in Nat
  BY DEF ButtonCode
<1>4. report = {b0}
  <2>1. "press" # "drag" /\ "press" # "release"
    OBVIOUS
  <2>2. ButtonCode[button] + (0 + 0 + 0) + 0 = ButtonCode[button] /\ 0 + 33 = 33
    BY <1>3
  <2> DEFINE c == ButtonCode[button] + (Weight({}, "shift", 4) + Weight({}, "alt", 8) + Weight({}, "ctrl", 16)) + 0
  <2>3. report = {<<ESC, 91, 77, 32 + c, Min({0, 222}) + 33, Min({0, 222}) + 33>>}
    BY <2>1, Zenon DEF EncodeMouse
  <2>4. c = ButtonCode[button]
    BY <1>1, <1>3
  <2> HIDE DEF c, report
  <2> QED
    BY <1>2, <2>2, <2>3, <2>4 DEF ESC
<1>5. b0 \in Seq(Nat) /\ Len(b0) = 6
  BY <1>3
<1>6. (CHOOSE b \in report : TRUE) = b0
  <2> HIDE DEF b0, report
  <2> QED
    BY <1>4
<1> HIDE DEF b0, report
<1>7. Len(Repeated(b0, n)) = n * Len(b0)
  <2>1. Len(b0) > 0
    BY <1>5
  <2> QED
    BY <1>5, <2>1, RepeatedLen
<1> QED
  BY <1>5, <1>6, <1>7 DEF report

LEMMA ArrowSent ==
  ASSUME NEW named \in {"up", "down"}, NEW mode, NEW n \in Nat
  PROVE  Len(Repeated(EncodeNamed(named, {}, mode), n)) = n * 3
<1> DEFINE a == <<ESC, IF mode.appCursor THEN 79 ELSE 91, CursorFinal[named]>>
<1>1. EncodeNamed(named, {}, mode) = CursorKey(CursorFinal[named], {}, mode)
  <2>1. /\ named # "enter" /\ named # "backspace" /\ named # "escape" /\ named # "tab"
        /\ named \in DOMAIN CursorFinal /\ named \notin DOMAIN TildeCode /\ named \notin DOMAIN FunctionNumber
    BY DEF CursorFinal, TildeCode, FunctionNumber
  <2> QED
    BY <2>1, Zenon DEF EncodeNamed
<1>2. CursorKey(CursorFinal[named], {}, mode) = a
  BY DEF CursorKey
<1>3. CursorFinal[named] \in Nat
  BY DEF CursorFinal
<1>4. a \in Seq(Nat) /\ Len(a) = 3
  BY <1>3 DEF ESC
<1> HIDE DEF a
<1>5. Len(Repeated(a, n)) = n * Len(a)
  <2>1. Len(a) > 0
    BY <1>4
  <2> QED
    BY <1>4, <2>1, RepeatedLen
<1> QED
  BY <1>1, <1>2, <1>4, <1>5

LEMMA OneTurn ==
  ASSUME NEW accum \in -9..9, NEW lines \in Int, NEW mode, mode.sgr = FALSE
  PROVE  LET w == Wheel(accum, lines, 0, 0, mode)
         IN  /\ w.accum \in -9..9 /\ w.scroll \in Int /\ Len(w.sent) \in 0..60
             /\ Local(mode) => 10 * w.scroll + w.accum = accum + lines /\ Len(w.sent) = 0
             /\ ~Local(mode) => w.scroll = 0
<1> DEFINE whole == WholeLines(accum + lines)
           magnitude == IF whole < 0 THEN -whole ELSE whole
           many == Min({10, magnitude})
           button == IF whole > 0 THEN "wheelup" ELSE "wheeldown"
           named == IF whole > 0 THEN "up" ELSE "down"
           reports == Repeated(CHOOSE b \in EncodeMouse(button, "press", 0, 0, {}, mode) : TRUE, many)
           arrows == Repeated(EncodeNamed(named, {}, mode), many)
           sent == IF MouseActive(mode) THEN reports
                   ELSE IF mode.altScreen /\ mode.alternateScroll THEN arrows ELSE <<>>
           scroll == IF MouseActive(mode) \/ (mode.altScreen /\ mode.alternateScroll) THEN 0 ELSE whole
           rest == accum + lines - 10 * whole
<1>1. Wheel(accum, lines, 0, 0, mode) = [accum |-> rest, sent |-> sent, scroll |-> scroll]
  BY Zenon DEF Wheel
<1>2. whole \in Int /\ rest \in -9..9
  <2>1. accum + lines \in Int
    OBVIOUS
  <2> QED
    BY <2>1, WholeRest
<1> HIDE DEF whole
<1>3. many \in 0..10
  <2>1. magnitude \in Nat
    BY <1>2
  <2> HIDE DEF magnitude
  <2>2. Min({10, magnitude}) = IF 10 <= magnitude THEN 10 ELSE magnitude
    BY <2>1, MinOfTwo
  <2> QED
    BY <2>1, <2>2
<1> HIDE DEF many
<1>4. MouseActive(mode) => Len(reports) = many * 6
  <2>1. button \in {"wheelup", "wheeldown"} /\ many \in Nat
    BY <1>3
  <2> HIDE DEF button
  <2> QED
    BY <2>1, WheelReport
<1>5. Len(arrows) = many * 3
  <2>1. named \in {"up", "down"} /\ many \in Nat
    BY <1>3
  <2> HIDE DEF named
  <2> QED
    BY <2>1, ArrowSent
<1> HIDE DEF reports, arrows
<1>6. Len(reports) = many * 6 => Len(reports) \in 0..60
  BY <1>3
<1>7. Len(arrows) \in 0..60
  BY <1>3, <1>5
<1>8. Local(mode) => sent = <<>>
  BY DEF Local
<1>9. (Local(mode) => scroll = whole) /\ (~Local(mode) => scroll = 0) /\ scroll \in Int
  BY <1>2 DEF Local
<1>10. Len(sent) \in 0..60
  <2>1. Len(<<>>) = 0
    OBVIOUS
  <2> QED
    BY <1>4, <1>6, <1>7, <2>1
<1>11. Local(mode) => Len(sent) = 0
  <2>1. Len(<<>>) = 0
    OBVIOUS
  <2> QED
    BY <1>8, <2>1
<1> HIDE DEF sent, scroll
<1>12. Local(mode) => 10 * scroll + rest = accum + lines
  BY <1>2, <1>9
<1> HIDE DEF rest
<1> DEFINE w == Wheel(accum, lines, 0, 0, mode)
<1>13. w.accum = rest /\ w.sent = sent /\ w.scroll = scroll
  <2>1. \A x : x = [accum |-> rest, sent |-> sent, scroll |-> scroll] =>
                 x.accum = rest /\ x.sent = sent /\ x.scroll = scroll
    OBVIOUS
  <2> QED
    BY <1>1, <2>1
<1> HIDE DEF w
<1>14. /\ w.accum \in -9..9 /\ w.scroll \in Int /\ Len(w.sent) \in 0..60
       /\ Local(mode) => 10 * w.scroll + w.accum = accum + lines /\ Len(w.sent) = 0
       /\ ~Local(mode) => w.scroll = 0
  BY <1>2, <1>9, <1>10, <1>11, <1>12, <1>13
<1> QED
  BY <1>14, Zenon DEF w

LEMMA TurnedKeeps ==
  ASSUME NEW mode, mode.sgr = FALSE
  PROVE  LET S == {s \in [accum : -9..9, scroll : Int, total : Int, most : 0..60] :
                     /\ Local(mode) => 10 * s.scroll + s.accum = s.total /\ s.most = 0
                     /\ ~Local(mode) => s.scroll = 0}
         IN  \A s \in S : \A lines \in Int : Turned(s, lines, mode) \in S
<1> DEFINE S == {s \in [accum : -9..9, scroll : Int, total : Int, most : 0..60] :
                   /\ Local(mode) => 10 * s.scroll + s.accum = s.total /\ s.most = 0
                   /\ ~Local(mode) => s.scroll = 0}
<1> SUFFICES ASSUME NEW s \in S, NEW lines \in Int PROVE Turned(s, lines, mode) \in S
  OBVIOUS
<1> DEFINE w == Wheel(s.accum, lines, 0, 0, mode)
<1>0. (\A x \in -9..9 : x \in Int) /\ (\A x \in 0..60 : x \in Int)
  OBVIOUS
<1>1. /\ s.accum \in -9..9 /\ s.scroll \in Int /\ s.total \in Int /\ s.most \in 0..60
      /\ Local(mode) => 10 * s.scroll + s.accum = s.total /\ s.most = 0
      /\ ~Local(mode) => s.scroll = 0
  OBVIOUS
<1>2. /\ w.accum \in -9..9 /\ w.scroll \in Int /\ Len(w.sent) \in 0..60
      /\ Local(mode) => 10 * w.scroll + w.accum = s.accum + lines /\ Len(w.sent) = 0
      /\ ~Local(mode) => w.scroll = 0
  BY <1>1, OneTurn
<1> HIDE DEF w
<1>3. Max({s.most, Len(w.sent)}) = IF s.most >= Len(w.sent) THEN s.most ELSE Len(w.sent)
  <2>1. s.most \in Int /\ Len(w.sent) \in Int
    BY <1>0, <1>1, <1>2, Zenon
  <2> QED
    BY <2>1, MaxOfTwo, Zenon
<1> DEFINE t == [accum |-> w.accum, scroll |-> s.scroll + w.scroll, total |-> s.total + lines,
                 most |-> Max({s.most, Len(w.sent)})]
<1>4. Turned(s, lines, mode) = t
  BY DEF Turned, w
<1>5. t.most \in 0..60 /\ (Local(mode) => t.most = 0)
  BY <1>1, <1>2, <1>3
<1>6. Local(mode) => 10 * t.scroll + t.accum = t.total
  <2>1. \A a, b, c, d, e, l \in Int :
          10 * a + b = c /\ 10 * d + e = b + l => 10 * (a + d) + e = c + l
    OBVIOUS
  <2>2. /\ s.accum \in Int /\ s.scroll \in Int /\ s.total \in Int /\ w.accum \in Int /\ w.scroll \in Int
    BY <1>0, <1>1, <1>2, Zenon
  <2>3. Local(mode) => 10 * (s.scroll + w.scroll) + w.accum = s.total + lines
    <3> SUFFICES ASSUME Local(mode) PROVE 10 * (s.scroll + w.scroll) + w.accum = s.total + lines
      OBVIOUS
    <3>1. 10 * s.scroll + s.accum = s.total
      BY <1>1, Zenon
    <3>2. 10 * w.scroll + w.accum = s.accum + lines
      BY <1>2, Zenon
    <3> QED
      BY <2>2, <3>1, <3>2
  <2>4. t.scroll = s.scroll + w.scroll /\ t.accum = w.accum /\ t.total = s.total + lines
    OBVIOUS
  <2> HIDE DEF t
  <2> QED
    BY <2>3, <2>4
<1>7. (~Local(mode) => t.scroll = 0) /\ t.scroll \in Int /\ t.total \in Int
  BY <1>1, <1>2
<1>8. t \in [accum : -9..9, scroll : Int, total : Int, most : 0..60]
  BY <1>2, <1>5, <1>7
<1> HIDE DEF t
<1> QED
  BY <1>4, <1>5, <1>6, <1>7, <1>8

(* For any sequence of turns: what is left over is less than a line, the   *)
(* view scrolls by all the rest, a program that takes the wheel never      *)
(* moves the view, and a turn sends at most 60 bytes (App::wheel).         *)
THEOREM WheelArrives ==
  ASSUME NEW turns \in Seq(Int), NEW mode, mode.sgr = FALSE
  PROVE  WheelReach(turns, mode)
<1> DEFINE S == {s \in [accum : -9..9, scroll : Int, total : Int, most : 0..60] :
                   /\ Local(mode) => 10 * s.scroll + s.accum = s.total /\ s.most = 0
                   /\ ~Local(mode) => s.scroll = 0}
           begin == [accum |-> 0, scroll |-> 0, total |-> 0, most |-> 0]
           k == Len(turns)
           turn == [n \in 1..k |-> [s \in S |-> Turned(s, turns[n], mode)]]
           done[n \in 0..k] == IF n = 0 THEN begin ELSE Turned(done[n - 1], turns[n], mode)
           Run(f) == f = [n \in 0..k |-> IF n = 0 THEN begin ELSE Turned(f[n - 1], turns[n], mode)]
<1>1. k \in Nat /\ begin \in S
  BY LenProperties
<1>2. \A n \in 1..k : turns[n] \in Int
  BY ElementOfSeq
<1>3. \A n \in 1..k : \A s \in S : Turned(s, turns[n], mode) \in S
  BY <1>2, TurnedKeeps
<1>13. \A end \in S : /\ end.accum \in -9..9 /\ end.most <= 60
                      /\ Local(mode) => 10 * end.scroll + end.accum = end.total /\ end.most = 0
                      /\ ~Local(mode) => end.scroll = 0
  <2> TAKE end \in S
  <2>1. end.most \in 0..60 /\ end.accum \in -9..9
    OBVIOUS
  <2>2. end.most <= 60
    <3>1. \A x \in 0..60 : x <= 60
      OBVIOUS
    <3> QED
      BY <2>1, <3>1, Zenon
  <2> QED
    BY <2>1, <2>2
<1> HIDE DEF S, begin
<1>4. turn \in [1..k -> [S -> S]]
  <2> HIDE DEF k
  <2> QED
    BY <1>3
<1>5. PICK f : LoopRun(f, k, S, begin, turn)
  <2> HIDE DEF k, turn
  <2> QED
    BY <1>1, <1>4, LoopRuns
<1>6. f \in [0..k -> S] /\ f[0] = begin /\ \A n \in 1..k : f[n] = turn[n][f[n - 1]]
  BY <1>5 DEF LoopRun
<1>7. \A n \in 0..k : f[n] = IF n = 0 THEN begin ELSE Turned(f[n - 1], turns[n], mode)
  <2> SUFFICES ASSUME NEW n \in 0..k, n # 0 PROVE f[n] = Turned(f[n - 1], turns[n], mode)
    BY <1>6
  <2>1. n \in 1..k /\ n - 1 \in 0..k
    BY <1>1
  <2>2. f[n - 1] \in S /\ f[n] = turn[n][f[n - 1]]
    BY <1>6, <2>1
  <2> HIDE DEF k
  <2> QED
    BY <2>1, <2>2
<1>8. Run(f)
  <2>1. f = [n \in 0..k |-> f[n]]
    BY <1>6
  <2> HIDE DEF k, turn
  <2> QED
    BY <1>7, <2>1
<1>9. done = CHOOSE g : Run(g)
  OBVIOUS
<1>10. Run(done)
  <2> HIDE DEF Run, done
  <2> QED
    BY <1>8, <1>9
<1>11. done[0] = begin /\ \A n \in 1..k : done[n] = Turned(done[n - 1], turns[n], mode)
  <2>1. \A n \in 0..k : done[n] = IF n = 0 THEN begin ELSE Turned(done[n - 1], turns[n], mode)
    <3> HIDE DEF done, k
    <3> QED
      BY <1>10
  <2> HIDE DEF done, Run
  <2> QED
    BY <1>1, <2>1
<1>12. done[k] \in S
  <2> HIDE DEF done, Run
  <2> DEFINE G == {m \in 0..k : done[m] \in S}
  <2>1. 0 \in G
    BY <1>1, <1>11
  <2>2. ASSUME NEW n \in 1..k, n - 1 \in G PROVE n \in G
    <3>1. n \in 0..k
      BY <1>1
    <3> QED
      BY <1>3, <1>11, <2>2, <3>1
  <2> HIDE DEF G, k
  <2>3. \A n \in 0..k : n \in G
    BY <1>1, <2>1, <2>2, Turns
  <2>4. k \in 0..k
    BY <1>1
  <2> QED
    BY <2>3, <2>4 DEF G
<1>14. LET end == done[k]
       IN /\ end.accum \in -9..9 /\ end.most <= 60
          /\ Local(mode) => 10 * end.scroll + end.accum = end.total /\ end.most = 0
          /\ ~Local(mode) => end.scroll = 0
  <2> HIDE DEF done, Run
  <2> QED
    BY <1>12, <1>13
<1> QED
  BY <1>14, Zenon DEF WheelReach, Local, begin

(* What a program reads of a decimal number, byte by byte.                 *)
LEMMA NumberRun ==
  ASSUME NEW bytes \in Seq(Nat)
  PROVE  \E v : /\ v[0] = 0 /\ v[Len(bytes)] = Number(bytes)
                /\ \A n \in 1..Len(bytes) : v[n] = 10 * v[n - 1] + (bytes[n] - 48)
<1> DEFINE k == Len(bytes)
           turn == [n \in 1..k |-> [x \in Int |-> 10 * x + (bytes[n] - 48)]]
           value[n \in 0..k] == IF n = 0 THEN 0 ELSE 10 * value[n - 1] + (bytes[n] - 48)
           Run(f) == f = [n \in 0..k |-> IF n = 0 THEN 0 ELSE 10 * f[n - 1] + (bytes[n] - 48)]
<1>1. k \in Nat
  BY LenProperties
<1>2. \A n \in 1..k : bytes[n] \in Nat
  BY ElementOfSeq
<1>4. turn \in [1..k -> [Int -> Int]]
  <2> HIDE DEF k
  <2> QED
    BY <1>2
<1>5. PICK f : LoopRun(f, k, Int, 0, turn)
  <2> HIDE DEF k, turn
  <2>1. 0 \in Int
    OBVIOUS
  <2> QED
    BY <1>1, <1>4, <2>1, LoopRuns
<1>6. f \in [0..k -> Int] /\ f[0] = 0 /\ \A n \in 1..k : f[n] = turn[n][f[n - 1]]
  BY <1>5 DEF LoopRun
<1>7. \A n \in 0..k : f[n] = IF n = 0 THEN 0 ELSE 10 * f[n - 1] + (bytes[n] - 48)
  <2> SUFFICES ASSUME NEW n \in 0..k, n # 0 PROVE f[n] = 10 * f[n - 1] + (bytes[n] - 48)
    BY <1>6
  <2>1. n \in 1..k /\ n - 1 \in 0..k
    BY <1>1
  <2>2. f[n - 1] \in Int /\ f[n] = turn[n][f[n - 1]]
    BY <1>6, <2>1
  <2> HIDE DEF k
  <2> QED
    BY <2>1, <2>2
<1>8. Run(f)
  <2>1. f = [n \in 0..k |-> f[n]]
    BY <1>6
  <2> HIDE DEF k, turn
  <2> QED
    BY <1>7, <2>1
<1>9. value = CHOOSE g : Run(g)
  OBVIOUS
<1>10. Run(value)
  <2> HIDE DEF Run, value
  <2> QED
    BY <1>8, <1>9
<1>11. value[0] = 0 /\ \A n \in 1..k : value[n] = 10 * value[n - 1] + (bytes[n] - 48)
  <2>1. \A n \in 0..k : value[n] = IF n = 0 THEN 0 ELSE 10 * value[n - 1] + (bytes[n] - 48)
    <3> HIDE DEF value, k
    <3> QED
      BY <1>10
  <2> HIDE DEF value, Run
  <2> QED
    BY <1>1, <2>1
<1>12. Number(bytes) = value[k]
  BY DEF Number
<1> HIDE DEF value, Run
<1> QED
  BY <1>11, <1>12

LEMMA NumberShort ==
  \A bytes \in Seq(Nat) :
    /\ Len(bytes) = 1 => Number(bytes) = bytes[1] - 48
    /\ Len(bytes) = 2 => Number(bytes) = 10 * (bytes[1] - 48) + (bytes[2] - 48)
    /\ Len(bytes) = 3 => Number(bytes) = 10 * (10 * (bytes[1] - 48) + (bytes[2] - 48)) + (bytes[3] - 48)
<1> SUFFICES ASSUME NEW bytes \in Seq(Nat)
    PROVE /\ Len(bytes) = 1 => Number(bytes) = bytes[1] - 48
          /\ Len(bytes) = 2 => Number(bytes) = 10 * (bytes[1] - 48) + (bytes[2] - 48)
          /\ Len(bytes) = 3 =>
               Number(bytes) = 10 * (10 * (bytes[1] - 48) + (bytes[2] - 48)) + (bytes[3] - 48)
  OBVIOUS
<1>1. PICK v : /\ v[0] = 0 /\ v[Len(bytes)] = Number(bytes)
               /\ \A n \in 1..Len(bytes) : v[n] = 10 * v[n - 1] + (bytes[n] - 48)
  BY NumberRun
<1>2. \A n \in 1..Len(bytes) : bytes[n] \in Nat
  BY ElementOfSeq
<1>3. Len(bytes) \in 1..3 => v[1] = bytes[1] - 48
  <2> SUFFICES ASSUME Len(bytes) \in 1..3 PROVE v[1] = bytes[1] - 48
    OBVIOUS
  <2>1. 1 \in 1..Len(bytes) /\ 1 - 1 = 0
    BY SMTT(30)
  <2> QED
    BY <1>1, <1>2, <2>1
<1>4. Len(bytes) \in 2..3 => v[2] = 10 * v[1] + (bytes[2] - 48)
  <2> SUFFICES ASSUME Len(bytes) \in 2..3 PROVE v[2] = 10 * v[1] + (bytes[2] - 48)
    OBVIOUS
  <2>1. 2 \in 1..Len(bytes) /\ 2 - 1 = 1
    OBVIOUS
  <2> QED
    BY <1>1, <2>1
<1>5. Len(bytes) = 3 => v[3] = 10 * v[2] + (bytes[3] - 48)
  <2> SUFFICES ASSUME Len(bytes) = 3 PROVE v[3] = 10 * v[2] + (bytes[3] - 48)
    OBVIOUS
  <2>1. 3 \in 1..Len(bytes) /\ 3 - 1 = 2
    OBVIOUS
  <2> QED
    BY <1>1, <2>1
<1>6. Len(bytes) = 1 => Number(bytes) = bytes[1] - 48
  BY <1>1, <1>3
<1>7. Len(bytes) = 2 => Number(bytes) = 10 * (bytes[1] - 48) + (bytes[2] - 48)
  BY <1>1, <1>3, <1>4
<1>8. Len(bytes) = 3 => Number(bytes) = 10 * (10 * (bytes[1] - 48) + (bytes[2] - 48)) + (bytes[3] - 48)
  BY <1>1, <1>3, <1>4, <1>5
<1> QED
  BY <1>6, <1>7, <1>8

(* A number below 1000 is written with digits and read back.               *)
Short == 0..999

LEMMA NumberDigits ==
  \A n \in Short :
    /\ Digits(n) \in Seq(Nat) /\ Len(Digits(n)) \in 1..3
    /\ \A i \in 1..Len(Digits(n)) : Digits(n)[i] \in 48..57
    /\ Number(Digits(n)) = n
<1> SUFFICES ASSUME NEW n \in Short
             PROVE  /\ Digits(n) \in Seq(Nat) /\ Len(Digits(n)) \in 1..3
                    /\ \A i \in 1..Len(Digits(n)) : Digits(n)[i] \in 48..57
                    /\ Number(Digits(n)) = n
  OBVIOUS
<1> DEFINE a == 48 + ((n \div 100) % 10)
           b == 48 + ((n \div 10) % 10)
           c == 48 + ((n \div 1) % 10)
<1>1. a \in 48..57 /\ b \in 48..57 /\ c \in 48..57
  BY DEF Short
<1>2. /\ n < 10 => n = c - 48
      /\ n < 100 => n = 10 * (b - 48) + (c - 48)
      /\ n = 10 * (10 * (a - 48) + (b - 48)) + (c - 48)
  BY DEF Short
<1>3. Digits(n) = IF n < 10 THEN <<c>> ELSE IF n < 100 THEN <<b, c>> ELSE <<a, b, c>>
  BY Zenon DEF Digits
<1> HIDE DEF a, b, c
<1>4. CASE n < 10
  <2>1. /\ <<c>> \in Seq(Nat) /\ Len(<<c>>) = 1 /\ <<c>>[1] = c
    BY <1>1
  <2>2. Number(<<c>>) = c - 48
    BY <2>1, NumberShort
  <2>3. \A i \in 1..1 : <<c>>[i] \in 48..57
    BY <1>1
  <2>4. Digits(n) = <<c>>
    BY <1>3, <1>4
  <2>5. Digits(n) \in Seq(Nat) /\ Len(Digits(n)) = 1
    BY <2>1, <2>4
  <2>6. \A i \in 1..1 : Digits(n)[i] \in 48..57
    BY <2>3, <2>4
  <2>7. Number(Digits(n)) = n
    BY <1>2, <1>4, <2>2, <2>4
  <2> QED
    BY <2>5, <2>6, <2>7
<1>5. CASE ~(n < 10) /\ n < 100
  <2>1. /\ <<b, c>> \in Seq(Nat) /\ Len(<<b, c>>) = 2 /\ <<b, c>>[1] = b /\ <<b, c>>[2] = c
    BY <1>1
  <2>2. Number(<<b, c>>) = 10 * (b - 48) + (c - 48)
    BY <2>1, NumberShort
  <2>3. \A i \in 1..2 : <<b, c>>[i] \in 48..57
    BY <1>1
  <2>4. Digits(n) = <<b, c>>
    BY <1>3, <1>5
  <2>5. Digits(n) \in Seq(Nat) /\ Len(Digits(n)) = 2
    BY <2>1, <2>4
  <2>6. \A i \in 1..2 : Digits(n)[i] \in 48..57
    BY <2>3, <2>4
  <2>7. Number(Digits(n)) = n
    BY <1>2, <1>5, <2>2, <2>4
  <2> QED
    BY <2>5, <2>6, <2>7
<1>6. CASE ~(n < 10) /\ ~(n < 100)
  <2>1. /\ <<a, b, c>> \in Seq(Nat) /\ Len(<<a, b, c>>) = 3 /\ <<a, b, c>>[1] = a
        /\ <<a, b, c>>[2] = b /\ <<a, b, c>>[3] = c
    BY <1>1
  <2>2. Number(<<a, b, c>>) = 10 * (10 * (a - 48) + (b - 48)) + (c - 48)
    BY <2>1, NumberShort
  <2>3. \A i \in 1..3 : <<a, b, c>>[i] \in 48..57
    BY <1>1
  <2>4. Digits(n) = <<a, b, c>>
    BY <1>3, <1>6
  <2>5. Digits(n) \in Seq(Nat) /\ Len(Digits(n)) = 3
    BY <2>1, <2>4
  <2>6. \A i \in 1..3 : Digits(n)[i] \in 48..57
    BY <2>3, <2>4
  <2>7. Number(Digits(n)) = n
    BY <1>2, <1>6, <2>2, <2>4
  <2> QED
    BY <2>5, <2>6, <2>7
<1> QED
  BY <1>4, <1>5, <1>6

(* A report is its start and three numbers with a byte after each.         *)
Report(P, D1, D2, D3, F) == P \o D1 \o <<59>> \o D2 \o <<59>> \o D3 \o <<F>>
Placed(b, P, D1, D2, D3, F) ==
  /\ b \in Seq(Nat) /\ Len(b) = 6 + Len(D1) + Len(D2) + Len(D3)
  /\ \A i \in 1..3 : b[i] = P[i]
  /\ \A i \in 1..Len(D1) : b[3 + i] = D1[i]
  /\ b[4 + Len(D1)] = 59 /\ b[5 + Len(D1) + Len(D2)] = 59 /\ b[Len(b)] = F
  /\ \A i \in 1..Len(D2) : b[4 + Len(D1) + i] = D2[i]
  /\ \A i \in 1..Len(D3) : b[5 + Len(D1) + Len(D2) + i] = D3[i]

LEMMA Parts ==
  ASSUME NEW P \in Seq(Nat), NEW D1 \in Seq(Nat), NEW D2 \in Seq(Nat), NEW D3 \in Seq(Nat),
         NEW F \in Nat, Len(P) = 3
  PROVE  Placed(Report(P, D1, D2, D3, F), P, D1, D2, D3, F)
<1> DEFINE l1 == Len(D1)
           l2 == Len(D2)
           l3 == Len(D3)
           A == P \o D1
<1>0. l1 \in Nat /\ l2 \in Nat /\ l3 \in Nat
  BY LenProperties
<1>1. /\ <<59>> \in Seq(Nat) /\ Len(<<59>>) = 1 /\ <<59>>[1] = 59
      /\ <<F>> \in Seq(Nat) /\ Len(<<F>>) = 1 /\ <<F>>[1] = F
  OBVIOUS
<1>2. /\ A \in Seq(Nat) /\ Len(A) = 3 + l1
      /\ \A i \in 1..3 : A[i] = P[i]
      /\ \A i \in 1..l1 : A[3 + i] = D1[i]
  <2>1. /\ A \in Seq(Nat) /\ Len(A) = Len(P) + Len(D1)
        /\ \A i \in 1..Len(P) : A[i] = P[i]
        /\ \A i \in 1..Len(D1) : A[Len(P) + i] = D1[i]
    BY Joined, Zenon
  <2> HIDE DEF A
  <2> QED
    BY <2>1
<1> HIDE DEF A
<1> DEFINE B == A \o <<59>>
<1>3. /\ B \in Seq(Nat) /\ Len(B) = 4 + l1
      /\ \A i \in 1..(3 + l1) : B[i] = A[i]
      /\ B[4 + l1] = 59
  <2>1. /\ B \in Seq(Nat) /\ Len(B) = Len(A) + Len(<<59>>)
        /\ \A i \in 1..Len(A) : B[i] = A[i]
        /\ \A i \in 1..Len(<<59>>) : B[Len(A) + i] = <<59>>[i]
    <3>1. A \in Seq(Nat) /\ <<59>> \in Seq(Nat)
      BY <1>1, <1>2
    <3> QED
      BY <3>1, Joined, Zenon
  <2>2. 1 \in 1..1 /\ (3 + l1) + 1 = 4 + l1
    BY <1>0
  <2> HIDE DEF B
  <2>3. B[(3 + l1) + 1] = 59
    BY <1>1, <1>2, <2>1, <2>2, Zenon
  <2>4. Len(B) = (3 + l1) + 1
    BY <1>1, <1>2, <2>1
  <2> QED
    BY <1>2, <2>1, <2>2, <2>3, <2>4
<1> HIDE DEF B
<1> DEFINE C == B \o D2
<1>4. /\ C \in Seq(Nat) /\ Len(C) = 4 + l1 + l2
      /\ \A i \in 1..(4 + l1) : C[i] = B[i]
      /\ \A i \in 1..l2 : C[4 + l1 + i] = D2[i]
  <2>1. /\ C \in Seq(Nat) /\ Len(C) = Len(B) + Len(D2)
        /\ \A i \in 1..Len(B) : C[i] = B[i]
        /\ \A i \in 1..Len(D2) : C[Len(B) + i] = D2[i]
    <3>1. B \in Seq(Nat) /\ D2 \in Seq(Nat)
      BY <1>3
    <3> QED
      BY <3>1, Joined, Zenon
  <2> HIDE DEF C
  <2> QED
    BY <1>3, <2>1
<1> HIDE DEF C
<1> DEFINE D == C \o <<59>>
<1>5. /\ D \in Seq(Nat) /\ Len(D) = 5 + l1 + l2
      /\ \A i \in 1..(4 + l1 + l2) : D[i] = C[i]
      /\ D[5 + l1 + l2] = 59
  <2>1. /\ D \in Seq(Nat) /\ Len(D) = Len(C) + Len(<<59>>)
        /\ \A i \in 1..Len(C) : D[i] = C[i]
        /\ \A i \in 1..Len(<<59>>) : D[Len(C) + i] = <<59>>[i]
    <3>1. C \in Seq(Nat) /\ <<59>> \in Seq(Nat)
      BY <1>1, <1>4
    <3> QED
      BY <3>1, Joined, Zenon
  <2>2. 1 \in 1..1 /\ (4 + l1 + l2) + 1 = 5 + l1 + l2
    BY <1>0
  <2> HIDE DEF D
  <2>3. D[(4 + l1 + l2) + 1] = 59
    BY <1>1, <1>4, <2>1, <2>2, Zenon
  <2>4. Len(D) = (4 + l1 + l2) + 1
    BY <1>1, <1>4, <2>1
  <2> QED
    BY <1>4, <2>1, <2>2, <2>3, <2>4
<1> HIDE DEF D
<1> DEFINE E == D \o D3
<1>6. /\ E \in Seq(Nat) /\ Len(E) = 5 + l1 + l2 + l3
      /\ \A i \in 1..(5 + l1 + l2) : E[i] = D[i]
      /\ \A i \in 1..l3 : E[5 + l1 + l2 + i] = D3[i]
  <2>1. /\ E \in Seq(Nat) /\ Len(E) = Len(D) + Len(D3)
        /\ \A i \in 1..Len(D) : E[i] = D[i]
        /\ \A i \in 1..Len(D3) : E[Len(D) + i] = D3[i]
    <3>1. D \in Seq(Nat) /\ D3 \in Seq(Nat)
      BY <1>5
    <3> QED
      BY <3>1, Joined, Zenon
  <2> HIDE DEF E
  <2> QED
    BY <1>5, <2>1
<1> HIDE DEF E
<1> DEFINE G == E \o <<F>>
<1>7. /\ G \in Seq(Nat) /\ Len(G) = 6 + l1 + l2 + l3
      /\ \A i \in 1..(5 + l1 + l2 + l3) : G[i] = E[i]
      /\ G[6 + l1 + l2 + l3] = F
  <2>1. /\ G \in Seq(Nat) /\ Len(G) = Len(E) + Len(<<F>>)
        /\ \A i \in 1..Len(E) : G[i] = E[i]
        /\ \A i \in 1..Len(<<F>>) : G[Len(E) + i] = <<F>>[i]
    <3>1. E \in Seq(Nat) /\ <<F>> \in Seq(Nat)
      BY <1>1, <1>6
    <3> QED
      BY <3>1, Joined, Zenon
  <2>2. 1 \in 1..1 /\ (5 + l1 + l2 + l3) + 1 = 6 + l1 + l2 + l3
    BY <1>0
  <2> HIDE DEF G
  <2>3. G[(5 + l1 + l2 + l3) + 1] = F
    BY <1>1, <1>6, <2>1, <2>2, Zenon
  <2>4. Len(G) = (5 + l1 + l2 + l3) + 1
    BY <1>1, <1>6, <2>1
  <2> QED
    BY <1>6, <2>1, <2>2, <2>3, <2>4
<1> HIDE DEF G
<1> HIDE DEF l1, l2, l3
<1>8. \A i \in 1..3 : G[i] = P[i]
  <2> TAKE i \in 1..3
  <2>1. /\ i \in 1..(3 + l1) /\ i \in 1..(4 + l1) /\ i \in 1..(4 + l1 + l2) /\ i \in 1..(5 + l1 + l2)
        /\ i \in 1..(5 + l1 + l2 + l3)
    BY <1>0
  <2>2. G[i] = E[i]
    BY <1>7, <2>1
  <2>3. E[i] = D[i]
    BY <1>6, <2>1
  <2>4. D[i] = C[i]
    BY <1>5, <2>1
  <2>5. C[i] = B[i]
    BY <1>4, <2>1
  <2>6. B[i] = A[i]
    BY <1>3, <2>1
  <2> QED
    BY <1>2, <2>2, <2>3, <2>4, <2>5, <2>6
<1>9. \A i \in 1..l1 : G[3 + i] = D1[i]
  <2> TAKE i \in 1..l1
  <2>1. /\ 3 + i \in 1..(3 + l1) /\ 3 + i \in 1..(4 + l1) /\ 3 + i \in 1..(4 + l1 + l2)
        /\ 3 + i \in 1..(5 + l1 + l2) /\ 3 + i \in 1..(5 + l1 + l2 + l3)
    BY <1>0
  <2>2. G[3 + i] = E[3 + i]
    BY <1>7, <2>1
  <2>3. E[3 + i] = D[3 + i]
    BY <1>6, <2>1
  <2>4. D[3 + i] = C[3 + i]
    BY <1>5, <2>1
  <2>5. C[3 + i] = B[3 + i]
    BY <1>4, <2>1
  <2>6. B[3 + i] = A[3 + i]
    BY <1>3, <2>1
  <2> QED
    BY <1>2, <2>2, <2>3, <2>4, <2>5, <2>6
<1>10. G[4 + l1] = 59
  <2>1. /\ 4 + l1 \in 1..(4 + l1) /\ 4 + l1 \in 1..(4 + l1 + l2) /\ 4 + l1 \in 1..(5 + l1 + l2)
        /\ 4 + l1 \in 1..(5 + l1 + l2 + l3)
    BY <1>0
  <2>2. G[4 + l1] = E[4 + l1]
    BY <1>7, <2>1
  <2>3. E[4 + l1] = D[4 + l1]
    BY <1>6, <2>1
  <2>4. D[4 + l1] = C[4 + l1]
    BY <1>5, <2>1
  <2>5. C[4 + l1] = B[4 + l1]
    BY <1>4, <2>1
  <2> QED
    BY <1>3, <2>2, <2>3, <2>4, <2>5
<1>11. \A i \in 1..l2 : G[4 + l1 + i] = D2[i]
  <2> TAKE i \in 1..l2
  <2>1. /\ 4 + l1 + i \in 1..(4 + l1 + l2) /\ 4 + l1 + i \in 1..(5 + l1 + l2)
        /\ 4 + l1 + i \in 1..(5 + l1 + l2 + l3)
    BY <1>0
  <2>2. G[4 + l1 + i] = E[4 + l1 + i]
    BY <1>7, <2>1
  <2>3. E[4 + l1 + i] = D[4 + l1 + i]
    BY <1>6, <2>1
  <2>4. D[4 + l1 + i] = C[4 + l1 + i]
    BY <1>5, <2>1
  <2> QED
    BY <1>4, <2>2, <2>3, <2>4
<1>12. G[5 + l1 + l2] = 59
  <2>1. 5 + l1 + l2 \in 1..(5 + l1 + l2) /\ 5 + l1 + l2 \in 1..(5 + l1 + l2 + l3)
    BY <1>0
  <2>2. G[5 + l1 + l2] = E[5 + l1 + l2]
    BY <1>7, <2>1
  <2>3. E[5 + l1 + l2] = D[5 + l1 + l2]
    BY <1>6, <2>1
  <2> QED
    BY <1>5, <2>2, <2>3
<1>13. \A i \in 1..l3 : G[5 + l1 + l2 + i] = D3[i]
  <2> TAKE i \in 1..l3
  <2>1. 5 + l1 + l2 + i \in 1..(5 + l1 + l2 + l3)
    BY <1>0
  <2>2. G[5 + l1 + l2 + i] = E[5 + l1 + l2 + i]
    BY <1>7, <2>1
  <2> QED
    BY <1>6, <2>2
<1>14. G[Len(G)] = F
  BY <1>7
<1>15. Report(P, D1, D2, D3, F) = G
  BY DEF Report, G, E, D, C, B, A
<1>16. Placed(G, P, D1, D2, D3, F)
  BY <1>7, <1>8, <1>9, <1>10, <1>11, <1>12, <1>13, <1>14, Zenon DEF Placed, l1, l2, l3
<1> QED
  BY <1>15, <1>16

LEMMA Segment ==
  \A b, D \in Seq(Nat) : \A a \in Nat :
    a >= 1 /\ a + Len(D) <= Len(b) /\ (\A i \in 1..Len(D) : b[a + i - 1] = D[i]) =>
      SubSeq(b, a, a + Len(D) - 1) = D
<1>1. SUFFICES ASSUME NEW b \in Seq(Nat), NEW D \in Seq(Nat), NEW a \in Nat,
                      a >= 1, a + Len(D) <= Len(b), \A i \in 1..Len(D) : b[a + i - 1] = D[i]
               PROVE  SubSeq(b, a, a + Len(D) - 1) = D
  OBVIOUS
<1>2. Len(D) \in Nat /\ Len(b) \in Nat
  BY LenProperties
<1> DEFINE s == SubSeq(b, a, a + Len(D) - 1)
<1>3. s \in Seq(Nat) /\ Len(s) = Len(D) /\ \A i \in 1..Len(D) : s[i] = b[a + i - 1]
  <2>1. a + Len(D) <= Len(b) + 1
    BY <1>1, <1>2
  <2>2. \A k \in Nat : a >= 1 /\ a + k <= Len(b) + 1 =>
          /\ SubSeq(b, a, a + k - 1) \in Seq(Nat) /\ Len(SubSeq(b, a, a + k - 1)) = k
          /\ \A i \in 1..k : SubSeq(b, a, a + k - 1)[i] = b[a + i - 1]
    BY Part, Zenon
  <2> QED
    BY <1>1, <1>2, <2>1, <2>2, Zenon
<1> HIDE DEF s
<1>4. s = D
  BY <1>1, <1>3, Same
<1> QED
  BY <1>4 DEF s

(* Its semicolons are the bytes after its first two numbers.               *)
Framed(b, l1, l2, l3) ==
  /\ Len(b) = 6 + l1 + l2 + l3
  /\ \A i \in 1..3 : b[i] # 59
  /\ \A i \in 1..l1 : b[3 + i] # 59
  /\ b[4 + l1] = 59 /\ b[5 + l1 + l2] = 59 /\ b[Len(b)] # 59
  /\ \A i \in 1..l2 : b[4 + l1 + i] # 59
  /\ \A i \in 1..l3 : b[5 + l1 + l2 + i] # 59

LEMMA Among ==
  \A l1, l2, l3, i \in Int :
    1 <= i /\ i <= 6 + l1 + l2 + l3 =>
      \/ i <= 3 \/ (3 < i /\ i <= 3 + l1) \/ i = 4 + l1 \/ (4 + l1 < i /\ i <= 4 + l1 + l2)
      \/ i = 5 + l1 + l2 \/ (5 + l1 + l2 < i /\ i <= 5 + l1 + l2 + l3) \/ i = 6 + l1 + l2 + l3
  OBVIOUS

LEMMA Offset == \A a, l, i \in Int : a < i /\ i <= a + l => \E j \in 1..l : i = a + j
<1> TAKE a, l, i \in Int
<1> HAVE a < i /\ i <= a + l
<1>1. i - a \in 1..l /\ i = a + (i - a)
  OBVIOUS
<1> QED
  BY <1>1

LEMMA Semis ==
  ASSUME NEW l1 \in 1..3, NEW l2 \in 1..3, NEW l3 \in 1..3, NEW b \in Seq(Nat), Framed(b, l1, l2, l3)
  PROVE  Min({i \in DOMAIN b : b[i] = 59}) = 4 + l1 /\ Max({i \in DOMAIN b : b[i] = 59}) = 5 + l1 + l2
<1> DEFINE p == 4 + l1
           q == 5 + l1 + l2
           semi == {i \in DOMAIN b : b[i] = 59}
<1>2. DOMAIN b = 1..(6 + l1 + l2 + l3)
  BY DEF Framed
<1>3. ASSUME NEW i \in DOMAIN b, b[i] = 59 PROVE i = p \/ i = q
  <2>1. i \in Int /\ 1 <= i /\ i <= 6 + l1 + l2 + l3 /\ l1 \in Int /\ l2 \in Int /\ l3 \in Int
    BY <1>2
  <2>2. i <= 3 => FALSE
    <3>1. i <= 3 => i \in 1..3
      BY <2>1
    <3> QED
      BY <1>3, <3>1 DEF Framed
  <2>3. ASSUME 3 < i, i <= 3 + l1 PROVE FALSE
    <3>1. 3 \in Int
      BY <2>1
    <3>2. \E j \in 1..l1 : i = 3 + j
      BY <2>1, <2>3, <3>1, Offset, ZenonT(40)
    <3>3. PICK j \in 1..l1 : i = 3 + j
      BY <3>2
    <3>4. b[3 + j] # 59
      BY Zenon DEF Framed
    <3> QED
      BY <1>3, <3>3, <3>4, Zenon
  <2>4. ASSUME 4 + l1 < i, i <= 4 + l1 + l2 PROVE FALSE
    <3>1. 4 + l1 \in Int
      BY <2>1
    <3>2. \E j \in 1..l2 : i = 4 + l1 + j
      BY <2>1, <2>4, <3>1, Offset, ZenonT(40)
    <3>3. PICK j \in 1..l2 : i = 4 + l1 + j
      BY <3>2
    <3>4. b[4 + l1 + j] # 59
      BY Zenon DEF Framed
    <3> QED
      BY <1>3, <3>3, <3>4, Zenon
  <2>5. ASSUME 5 + l1 + l2 < i, i <= 5 + l1 + l2 + l3 PROVE FALSE
    <3>1. 5 + l1 + l2 \in Int
      BY <2>1
    <3>2. \E j \in 1..l3 : i = 5 + l1 + l2 + j
      BY <2>1, <2>5, <3>1, Offset, ZenonT(40)
    <3>3. PICK j \in 1..l3 : i = 5 + l1 + l2 + j
      BY <3>2
    <3>4. b[5 + l1 + l2 + j] # 59
      BY Zenon DEF Framed
    <3> QED
      BY <1>3, <3>3, <3>4, Zenon
  <2>6. i # 6 + l1 + l2 + l3
    BY <1>3 DEF Framed
  <2>7. \/ i <= 3 \/ (3 < i /\ i <= 3 + l1) \/ i = 4 + l1 \/ (4 + l1 < i /\ i <= 4 + l1 + l2)
        \/ i = 5 + l1 + l2 \/ (5 + l1 + l2 < i /\ i <= 5 + l1 + l2 + l3) \/ i = 6 + l1 + l2 + l3
    BY <2>1, Among, Zenon
  <2> QED
    BY <2>2, <2>3, <2>4, <2>5, <2>6, <2>7, Zenon
<1>4. p \in DOMAIN b /\ q \in DOMAIN b /\ p \in Int /\ q \in Int /\ p <= q /\ q >= p
  BY <1>2
<1>5. semi = {p, q}
  <2>1. b[p] = 59 /\ b[q] = 59
    BY DEF Framed
  <2> HIDE DEF p, q
  <2>2. \A i \in semi : i \in {p, q}
    BY <1>3
  <2>3. p \in semi /\ q \in semi
    BY <1>4, <2>1
  <2> HIDE DEF semi
  <2> QED
    BY <2>2, <2>3
<1> HIDE DEF p, q, semi
<1>6. Min({p, q}) = p
  BY <1>4, MinOfTwo
<1>7. {p, q} = {q, p}
  OBVIOUS
<1>8. Max({q, p}) = q
  BY <1>4, MaxOfTwo
<1>9. Min(semi) = p /\ Max(semi) = q
  BY <1>5, <1>6, <1>7, <1>8
<1> QED
  BY <1>9 DEF p, q, semi

(* It is read back.                                                        *)
ReadAs(b, code, x, y, F) ==
  LET semi == {i \in DOMAIN b : b[i] = 59}
  IN  /\ Number(SubSeq(b, 4, Min(semi) - 1)) = code
      /\ Number(SubSeq(b, Min(semi) + 1, Max(semi) - 1)) = x
      /\ Number(SubSeq(b, Max(semi) + 1, Len(b) - 1)) = y
      /\ Last(b) = F

LEMMA SgrReads ==
  ASSUME NEW code \in Short, NEW x \in Short, NEW y \in Short, NEW F \in {109, 77}
  PROVE  ReadAs(Report(<<27, 91, 60>>, Digits(code), Digits(x), Digits(y), F), code, x, y, F)
<1> DEFINE P == <<27, 91, 60>>
           D1 == Digits(code)
           D2 == Digits(x)
           D3 == Digits(y)
<1>2. /\ D1 \in Seq(Nat) /\ Len(D1) \in 1..3 /\ \A i \in 1..Len(D1) : D1[i] \in 48..57
      /\ Number(D1) = code
  BY NumberDigits
<1>3. /\ D2 \in Seq(Nat) /\ Len(D2) \in 1..3 /\ \A i \in 1..Len(D2) : D2[i] \in 48..57
      /\ Number(D2) = x
  BY NumberDigits
<1>4. /\ D3 \in Seq(Nat) /\ Len(D3) \in 1..3 /\ \A i \in 1..Len(D3) : D3[i] \in 48..57
      /\ Number(D3) = y
  BY NumberDigits
<1>5. P \in Seq(Nat) /\ Len(P) = 3 /\ \A i \in 1..3 : P[i] # 59
  OBVIOUS
<1>6. F \in Nat /\ F # 59
  OBVIOUS
<1> HIDE DEF P, D1, D2, D3
<1> DEFINE b == Report(P, D1, D2, D3, F)
<1>8. Placed(b, P, D1, D2, D3, F)
  <2>1. P \in Seq(Nat) /\ Len(P) = 3 /\ F \in Nat
    BY <1>5, <1>6
  <2>2. D1 \in Seq(Nat) /\ D2 \in Seq(Nat) /\ D3 \in Seq(Nat)
    BY <1>2, <1>3, <1>4
  <2> QED
    BY <2>1, <2>2, Parts
<1> HIDE DEF b
<1> DEFINE l1 == Len(D1)
           l2 == Len(D2)
           l3 == Len(D3)
           p == 4 + l1
           q == 5 + l1 + l2
           semi == {i \in DOMAIN b : b[i] = 59}
<1>9. l1 \in 1..3 /\ l2 \in 1..3 /\ l3 \in 1..3 /\ b \in Seq(Nat) /\ Len(b) = 6 + l1 + l2 + l3
  BY <1>2, <1>3, <1>4, <1>8 DEF Placed
<1>10. \A n \in 48..57 : n # 59
  OBVIOUS
<1>11. Min(semi) = p /\ Max(semi) = q
  <2>1. (\A i \in 1..3 : b[i] # 59) /\ b[Len(b)] # 59
    <3>1. (\A i \in 1..3 : b[i] = P[i]) /\ b[Len(b)] = F
      BY <1>8, Zenon DEF Placed
    <3> QED
      BY <1>5, <1>6, <3>1
  <2>2. \A i \in 1..Len(D1) : b[3 + i] # 59
    <3>1. \A i \in 1..Len(D1) : b[3 + i] = D1[i]
      BY <1>8, Zenon DEF Placed
    <3>2. \A i \in 1..Len(D1) : D1[i] # 59
      BY <1>2, <1>10, Zenon
    <3> QED
      BY <3>1, <3>2
  <2>3. \A i \in 1..Len(D2) : b[4 + Len(D1) + i] # 59
    <3>1. \A i \in 1..Len(D2) : b[4 + Len(D1) + i] = D2[i]
      BY <1>8, Zenon DEF Placed
    <3>2. \A i \in 1..Len(D2) : D2[i] # 59
      BY <1>3, <1>10, Zenon
    <3> QED
      BY <3>1, <3>2
  <2>4. \A i \in 1..Len(D3) : b[5 + Len(D1) + Len(D2) + i] # 59
    <3>1. \A i \in 1..Len(D3) : b[5 + Len(D1) + Len(D2) + i] = D3[i]
      BY <1>8, Zenon DEF Placed
    <3>2. \A i \in 1..Len(D3) : D3[i] # 59
      BY <1>4, <1>10, ZenonT(40)
    <3> QED
      BY <3>1, <3>2
  <2>5. b[4 + Len(D1)] = 59 /\ b[5 + Len(D1) + Len(D2)] = 59
    BY <1>8 DEF Placed
  <2>6. Framed(b, l1, l2, l3)
    BY <1>9, <2>1, <2>2, <2>3, <2>4, <2>5, Zenon DEF Framed
  <2> HIDE DEF l1, l2, l3
  <2> QED
    BY <1>9, <2>6, Semis, ZenonT(40)
<1>12. SubSeq(b, 4, p - 1) = D1
  <2>1. 4 \in Nat /\ 4 >= 1 /\ 4 + l1 <= Len(b) /\ p - 1 = 4 + l1 - 1 /\ \A i \in 1..l1 : 4 + i - 1 = 3 + i
    <3> HIDE DEF l1, l2, l3
    <3> QED
      BY <1>9
  <2>2. \A i \in 1..Len(D1) : b[4 + i - 1] = D1[i]
    BY <1>8, <2>1 DEF Placed
  <2> HIDE DEF p
  <2>3. SubSeq(b, 4, 4 + Len(D1) - 1) = D1
    BY <1>2, <1>9, <2>1, <2>2, Segment, Zenon
  <2> QED
    BY <2>1, <2>3, Zenon
<1>13. SubSeq(b, p + 1, q - 1) = D2
  <2>1. /\ p + 1 \in Nat /\ p + 1 >= 1 /\ (p + 1) + l2 <= Len(b) /\ q - 1 = (p + 1) + l2 - 1
        /\ \A i \in 1..l2 : (p + 1) + i - 1 = p + i
    <3> HIDE DEF l1, l2, l3
    <3> QED
      BY <1>9
  <2>2. \A i \in 1..l2 : b[p + i] = D2[i]
    BY <1>8, Zenon DEF Placed
  <2> HIDE DEF p, q
  <2>3. \A i \in 1..Len(D2) : b[(p + 1) + i - 1] = D2[i]
    BY <2>1, <2>2
  <2>4. SubSeq(b, p + 1, (p + 1) + Len(D2) - 1) = D2
    BY <1>3, <1>9, <2>1, <2>3, Segment, Zenon
  <2> QED
    BY <2>1, <2>4, Zenon
<1>14. SubSeq(b, q + 1, Len(b) - 1) = D3
  <2>1. /\ q + 1 \in Nat /\ q + 1 >= 1 /\ (q + 1) + l3 <= Len(b) /\ Len(b) - 1 = (q + 1) + l3 - 1
        /\ \A i \in 1..l3 : (q + 1) + i - 1 = q + i
    <3> HIDE DEF l1, l2, l3
    <3> QED
      BY <1>9
  <2>2. \A i \in 1..l3 : b[q + i] = D3[i]
    BY <1>8, Zenon DEF Placed
  <2> HIDE DEF p, q
  <2>3. \A i \in 1..Len(D3) : b[(q + 1) + i - 1] = D3[i]
    BY <2>1, <2>2
  <2>4. SubSeq(b, q + 1, (q + 1) + Len(D3) - 1) = D3
    BY <1>4, <1>9, <2>1, <2>3, Segment, Zenon
  <2> QED
    BY <2>1, <2>4, Zenon
<1>15. Last(b) = F
  BY <1>8, Zenon DEF Last, Placed
<1> HIDE DEF p, q, l1, l2, l3, semi
<1>16. /\ Number(SubSeq(b, 4, Min(semi) - 1)) = code
       /\ Number(SubSeq(b, Min(semi) + 1, Max(semi) - 1)) = x
       /\ Number(SubSeq(b, Max(semi) + 1, Len(b) - 1)) = y
  BY <1>2, <1>3, <1>4, <1>11, <1>12, <1>13, <1>14, Zenon
<1> QED
  BY <1>15, <1>16, Zenon DEF semi, b, P, D1, D2, D3, ReadAs

(* A cell has a number of at most three digits, from one.                  *)
ReportCells == 0..998

(* For every cell of a terminal of up to 999 columns and rows: an SGR      *)
(* report reads back as its cell, button and release, and an X10 report    *)
(* has six bytes with the cell or its cap (encode_mouse).                  *)
THEOREM MouseArrives ==
  ASSUME NEW button \in DOMAIN ButtonCode, NEW action, NEW col \in ReportCells, NEW row \in ReportCells,
         NEW mods, NEW mode
  PROVE  MouseReach(button, action, col, row, mods, mode)
<1> USE DEF ReportCells
<1> DEFINE w1 == Weight(mods, "shift", 4)
           w2 == Weight(mods, "alt", 8)
           w3 == Weight(mods, "ctrl", 16)
           w4 == IF action = "drag" THEN 32 ELSE 0
           code == ButtonCode[button] + (w1 + w2 + w3) + w4
           legacy == IF action = "release" THEN 3 + (w1 + w2 + w3) ELSE code
           F == IF action = "release" THEN 109 ELSE 77
           sgr == Report(<<27, 91, 60>>, Digits(code), Digits(col + 1), Digits(row + 1), F)
           X == Min({col, 222})
           Y == Min({row, 222})
           old == <<27, 91, 77, 32 + legacy, X + 33, Y + 33>>
<1> SUFFICES ASSUME NEW b \in EncodeMouse(button, action, col, row, mods, mode)
             PROVE  IF mode.sgr
                      THEN LET semi == {i \in DOMAIN b : b[i] = 59}
                           IN /\ Number(SubSeq(b, Min(semi) + 1, Max(semi) - 1)) = col + 1
                              /\ Number(SubSeq(b, Max(semi) + 1, Len(b) - 1)) = row + 1
                              /\ Number(SubSeq(b, 4, Min(semi) - 1)) % 4 = ButtonCode[button] % 4
                              /\ (Last(b) = 109) = (action = "release")
                      ELSE /\ Len(b) = 6 /\ \A i \in 4..6 : b[i] \in 32..255
                           /\ b[5] - 33 \in {col, 222} /\ b[6] - 33 \in {row, 222}
  BY DEF MouseReach
<1>1. b \in IF mode.sgr THEN {sgr} ELSE {old}
  <2>1. \A c, d, e : b \in (IF c THEN {} ELSE IF mode.sgr THEN {d} ELSE {e}) =>
                     b \in IF mode.sgr THEN {d} ELSE {e}
    OBVIOUS
  <2>2. EncodeMouse(button, action, col, row, mods, mode) =
          IF ~MouseActive(mode) \/ (action = "drag" /\ ~mode.mouseDrag /\ ~mode.mouseMotion) THEN {}
          ELSE IF mode.sgr THEN {sgr} ELSE {old}
    BY ZenonT(40) DEF EncodeMouse, ESC, Report
  <2> HIDE DEF sgr, old
  <2> QED
    BY <2>1, <2>2
<1>2. w1 \in {0, 4} /\ w2 \in {0, 8} /\ w3 \in {0, 16} /\ w4 \in {0, 32}
  BY DEF Weight
<1>3. ButtonCode[button] \in {0, 1, 2, 64, 65}
  BY DEF ButtonCode
<1> HIDE DEF w1, w2, w3, w4
<1>4. code \in 0..125 /\ code % 4 = ButtonCode[button] % 4
  <2>1. code \in 0..125
    BY <1>2, <1>3
  <2>2. (ButtonCode[button] + (w1 + w2 + w3) + w4) % 4 = ButtonCode[button] % 4
    BY <1>2, <1>3
  <2> QED
    BY <2>1, <2>2
<1>5. legacy \in 0..125
  <2>1. 3 + (w1 + w2 + w3) \in 0..125
    BY <1>2
  <2> HIDE DEF code
  <2> QED
    BY <1>4, <2>1
<1> HIDE DEF code, legacy
<1>6. X \in {col, 222} /\ X \in 0..222 /\ Y \in {row, 222} /\ Y \in 0..222
  <2>1. Min({col, 222}) = (IF col <= 222 THEN col ELSE 222) /\ Min({row, 222}) = (IF row <= 222 THEN row ELSE 222)
    <3>1. col \in Int /\ row \in Int /\ 222 \in Int
      OBVIOUS
    <3> HIDE DEF ReportCells
    <3> QED
      BY <3>1, MinOfTwo, ZenonT(40)
  <2>2. X \in {col, 222} /\ X \in 0..222
    BY <2>1
  <2>3. Y \in {row, 222} /\ Y \in 0..222
    BY <2>1
  <2> QED
    BY <2>2, <2>3
<1> HIDE DEF X, Y
<1>7. CASE ~mode.sgr
  <2>1. b = old
    BY <1>1, <1>7
  <2>2. Len(old) = 6 /\ old[4] = 32 + legacy /\ old[5] = X + 33 /\ old[6] = Y + 33
    OBVIOUS
  <2> HIDE DEF old
  <2>3. \A i \in 4..6 : i = 4 \/ i = 5 \/ i = 6
    OBVIOUS
  <2>4. \A i \in 4..6 : b[i] \in 32..255
    BY <1>5, <1>6, <2>1, <2>2, <2>3
  <2>5. b[5] - 33 = X /\ b[6] - 33 = Y
    BY <1>6, <2>1, <2>2
  <2> QED
    BY <1>6, <1>7, <2>1, <2>2, <2>4, <2>5
<1>8. CASE mode.sgr
  <2>1. b = sgr
    BY <1>1, <1>8
  <2>2. F \in {109, 77} /\ (F = 109) = (action = "release")
    OBVIOUS
  <2>3. code \in Short /\ col + 1 \in Short /\ row + 1 \in Short
    BY <1>4 DEF Short
  <2> HIDE DEF F
  <2> DEFINE semi == {i \in DOMAIN b : b[i] = 59}
  <2>4. /\ Number(SubSeq(b, 4, Min(semi) - 1)) = code
        /\ Number(SubSeq(b, Min(semi) + 1, Max(semi) - 1)) = col + 1
        /\ Number(SubSeq(b, Max(semi) + 1, Len(b) - 1)) = row + 1
        /\ Last(b) = F
    <3>1. ReadAs(sgr, code, col + 1, row + 1, F)
      <4>1. F \in {109, 77}
        BY <2>2
      <4> QED
        BY <2>3, <4>1, SgrReads
    <3> HIDE DEF sgr
    <3> QED
      BY <2>1, <3>1, ZenonT(40) DEF ReadAs
  <2> HIDE DEF semi, sgr
  <2>5. /\ Number(SubSeq(b, 4, Min(semi) - 1)) % 4 = ButtonCode[button] % 4
        /\ (Last(b) = 109) = (action = "release")
    BY <1>4, <2>2, <2>4, ZenonT(40)
  <2> QED
    BY <1>8, <2>4, <2>5, ZenonT(40) DEF semi
<1> QED
  BY <1>7, <1>8

Pieces(s, t, u) ==
  /\ Len(u) = Len(s) + Len(t)
  /\ \A i \in 1..Len(s) : u[i] = s[i]
  /\ \A i \in 1..Len(t) : u[Len(s) + i] = t[i]

LEMMA Concat ==
  ASSUME NEW s \in Seq(Nat), NEW t \in Seq(Nat), NEW u \in Seq(Nat), Pieces(s, t, u)
  PROVE  s \o t = u
<1>1. /\ Len(u) = Len(s) + Len(t)
      /\ \A i \in 1..Len(s) : u[i] = s[i]
      /\ \A i \in 1..Len(t) : u[Len(s) + i] = t[i]
  BY DEF Pieces
<1>2. /\ s \o t \in Seq(Nat) /\ Len(s \o t) = Len(s) + Len(t)
      /\ \A i \in 1..Len(s) : (s \o t)[i] = s[i]
      /\ \A i \in 1..Len(t) : (s \o t)[Len(s) + i] = t[i]
  BY Joined, Zenon
<1>3. Len(s) \in Nat /\ Len(t) \in Nat
  BY LenProperties
<1>4. \A i \in 1..(Len(s) + Len(t)) : (s \o t)[i] = u[i]
  <2> TAKE i \in 1..(Len(s) + Len(t))
  <2>1. CASE i <= Len(s)
    <3>1. i \in 1..Len(s)
      BY <1>3, <2>1
    <3> QED
      BY <1>1, <1>2, <3>1
  <2>2. CASE ~(i <= Len(s))
    <3>1. i - Len(s) \in 1..Len(t) /\ Len(s) + (i - Len(s)) = i
      BY <1>3, <2>2
    <3> QED
      BY <1>1, <1>2, <3>1
  <2> QED
    BY <2>1, <2>2
<1> QED
  BY <1>1, <1>2, <1>4, Same

LEMMA LetterString ==
  ASSUME NEW p \in Nat, NEW a \in Nat
  PROVE  <<27, 91, 49, 59>> \o <<p>> \o <<a>> = <<27, 91, 49, 59, p, a>>
<1>1. <<27, 91, 49, 59>> \o <<p>> = <<27, 91, 49, 59, p>>
  <2> DEFINE s == <<27, 91, 49, 59>>
             t == <<p>>
             u == <<27, 91, 49, 59, p>>
  <2>1. s \in Seq(Nat) /\ t \in Seq(Nat) /\ u \in Seq(Nat) /\ Len(s) = 4 /\ Len(t) = 1 /\ Len(u) = 5
    OBVIOUS
  <2>2. (\A i \in 1..4 : u[i] = s[i]) /\ \A i \in 1..1 : u[4 + i] = t[i]
    OBVIOUS
  <2> HIDE DEF s, t, u
  <2>3. Pieces(s, t, u)
    BY <2>1, <2>2 DEF Pieces
  <2>4. s \o t = u
    BY <2>1, <2>3, Concat
  <2> QED
    BY <2>4 DEF s, t, u
<1>2. <<27, 91, 49, 59, p>> \o <<a>> = <<27, 91, 49, 59, p, a>>
  <2> DEFINE s == <<27, 91, 49, 59, p>>
             t == <<a>>
             u == <<27, 91, 49, 59, p, a>>
  <2>1. s \in Seq(Nat) /\ t \in Seq(Nat) /\ u \in Seq(Nat) /\ Len(s) = 5 /\ Len(t) = 1 /\ Len(u) = 6
    OBVIOUS
  <2>2. (\A i \in 1..5 : u[i] = s[i]) /\ \A i \in 1..1 : u[5 + i] = t[i]
    OBVIOUS
  <2> HIDE DEF s, t, u
  <2>3. Pieces(s, t, u)
    BY <2>1, <2>2 DEF Pieces
  <2>4. s \o t = u
    BY <2>1, <2>3, Concat
  <2> QED
    BY <2>4 DEF s, t, u
<1> QED
  BY <1>1, <1>2

LEMMA PlainString ==
  ASSUME NEW a \in Nat
  PROVE  <<27, 91>> \o <<a>> \o <<>> \o <<126>> = <<27, 91, a, 126>>
<1>1. <<27, 91>> \o <<a>> = <<27, 91, a>>
  <2> DEFINE s == <<27, 91>>
             t == <<a>>
             u == <<27, 91, a>>
  <2>1. s \in Seq(Nat) /\ t \in Seq(Nat) /\ u \in Seq(Nat) /\ Len(s) = 2 /\ Len(t) = 1 /\ Len(u) = 3
    OBVIOUS
  <2>2. (\A i \in 1..2 : u[i] = s[i]) /\ \A i \in 1..1 : u[2 + i] = t[i]
    OBVIOUS
  <2> HIDE DEF s, t, u
  <2>3. Pieces(s, t, u)
    BY <2>1, <2>2 DEF Pieces
  <2>4. s \o t = u
    BY <2>1, <2>3, Concat
  <2> QED
    BY <2>4 DEF s, t, u
<1>2. <<27, 91, a>> \o <<>> = <<27, 91, a>>
  <2> DEFINE s == <<27, 91, a>>
             t == <<>>
             u == <<27, 91, a>>
  <2>1. s \in Seq(Nat) /\ t \in Seq(Nat) /\ u \in Seq(Nat) /\ Len(s) = 3 /\ Len(t) = 0 /\ Len(u) = 3
    OBVIOUS
  <2>2. (\A i \in 1..3 : u[i] = s[i]) /\ \A i \in 1..0 : u[3 + i] = t[i]
    OBVIOUS
  <2> HIDE DEF s, t, u
  <2>3. Pieces(s, t, u)
    BY <2>1, <2>2 DEF Pieces
  <2>4. s \o t = u
    BY <2>1, <2>3, Concat
  <2> QED
    BY <2>4 DEF s, t, u
<1>3. <<27, 91, a>> \o <<126>> = <<27, 91, a, 126>>
  <2> DEFINE s == <<27, 91, a>>
             t == <<126>>
             u == <<27, 91, a, 126>>
  <2>1. s \in Seq(Nat) /\ t \in Seq(Nat) /\ u \in Seq(Nat) /\ Len(s) = 3 /\ Len(t) = 1 /\ Len(u) = 4
    OBVIOUS
  <2>2. (\A i \in 1..3 : u[i] = s[i]) /\ \A i \in 1..1 : u[3 + i] = t[i]
    OBVIOUS
  <2> HIDE DEF s, t, u
  <2>3. Pieces(s, t, u)
    BY <2>1, <2>2 DEF Pieces
  <2>4. s \o t = u
    BY <2>1, <2>3, Concat
  <2> QED
    BY <2>4 DEF s, t, u
<1> QED
  BY <1>1, <1>2, <1>3

LEMMA PlainString2 ==
  ASSUME NEW a \in Nat, NEW b \in Nat
  PROVE  <<27, 91>> \o <<a, b>> \o <<>> \o <<126>> = <<27, 91, a, b, 126>>
<1>1. <<27, 91>> \o <<a, b>> = <<27, 91, a, b>>
  <2> DEFINE s == <<27, 91>>
             t == <<a, b>>
             u == <<27, 91, a, b>>
  <2>1. s \in Seq(Nat) /\ t \in Seq(Nat) /\ u \in Seq(Nat) /\ Len(s) = 2 /\ Len(t) = 2 /\ Len(u) = 4
    OBVIOUS
  <2>2. (\A i \in 1..2 : u[i] = s[i]) /\ \A i \in 1..2 : u[2 + i] = t[i]
    OBVIOUS
  <2> HIDE DEF s, t, u
  <2>3. Pieces(s, t, u)
    BY <2>1, <2>2 DEF Pieces
  <2>4. s \o t = u
    BY <2>1, <2>3, Concat
  <2> QED
    BY <2>4 DEF s, t, u
<1>2. <<27, 91, a, b>> \o <<>> = <<27, 91, a, b>>
  <2> DEFINE s == <<27, 91, a, b>>
             t == <<>>
             u == <<27, 91, a, b>>
  <2>1. s \in Seq(Nat) /\ t \in Seq(Nat) /\ u \in Seq(Nat) /\ Len(s) = 4 /\ Len(t) = 0 /\ Len(u) = 4
    OBVIOUS
  <2>2. (\A i \in 1..4 : u[i] = s[i]) /\ \A i \in 1..0 : u[4 + i] = t[i]
    OBVIOUS
  <2> HIDE DEF s, t, u
  <2>3. Pieces(s, t, u)
    BY <2>1, <2>2 DEF Pieces
  <2>4. s \o t = u
    BY <2>1, <2>3, Concat
  <2> QED
    BY <2>4 DEF s, t, u
<1>3. <<27, 91, a, b>> \o <<126>> = <<27, 91, a, b, 126>>
  <2> DEFINE s == <<27, 91, a, b>>
             t == <<126>>
             u == <<27, 91, a, b, 126>>
  <2>1. s \in Seq(Nat) /\ t \in Seq(Nat) /\ u \in Seq(Nat) /\ Len(s) = 4 /\ Len(t) = 1 /\ Len(u) = 5
    OBVIOUS
  <2>2. (\A i \in 1..4 : u[i] = s[i]) /\ \A i \in 1..1 : u[4 + i] = t[i]
    OBVIOUS
  <2> HIDE DEF s, t, u
  <2>3. Pieces(s, t, u)
    BY <2>1, <2>2 DEF Pieces
  <2>4. s \o t = u
    BY <2>1, <2>3, Concat
  <2> QED
    BY <2>4 DEF s, t, u
<1> QED
  BY <1>1, <1>2, <1>3

LEMMA ModString ==
  ASSUME NEW a \in Nat, NEW p \in Nat
  PROVE  <<27, 91>> \o <<a>> \o (<<59>> \o <<p>>) \o <<126>> = <<27, 91, a, 59, p, 126>>
<1>1. <<27, 91>> \o <<a>> = <<27, 91, a>>
  <2> DEFINE s == <<27, 91>>
             t == <<a>>
             u == <<27, 91, a>>
  <2>1. s \in Seq(Nat) /\ t \in Seq(Nat) /\ u \in Seq(Nat) /\ Len(s) = 2 /\ Len(t) = 1 /\ Len(u) = 3
    OBVIOUS
  <2>2. (\A i \in 1..2 : u[i] = s[i]) /\ \A i \in 1..1 : u[2 + i] = t[i]
    OBVIOUS
  <2> HIDE DEF s, t, u
  <2>3. Pieces(s, t, u)
    BY <2>1, <2>2 DEF Pieces
  <2>4. s \o t = u
    BY <2>1, <2>3, Concat
  <2> QED
    BY <2>4 DEF s, t, u
<1>2. <<59>> \o <<p>> = <<59, p>>
  <2> DEFINE s == <<59>>
             t == <<p>>
             u == <<59, p>>
  <2>1. s \in Seq(Nat) /\ t \in Seq(Nat) /\ u \in Seq(Nat) /\ Len(s) = 1 /\ Len(t) = 1 /\ Len(u) = 2
    OBVIOUS
  <2>2. (\A i \in 1..1 : u[i] = s[i]) /\ \A i \in 1..1 : u[1 + i] = t[i]
    OBVIOUS
  <2> HIDE DEF s, t, u
  <2>3. Pieces(s, t, u)
    BY <2>1, <2>2 DEF Pieces
  <2>4. s \o t = u
    BY <2>1, <2>3, Concat
  <2> QED
    BY <2>4 DEF s, t, u
<1>3. <<27, 91, a>> \o <<59, p>> = <<27, 91, a, 59, p>>
  <2> DEFINE s == <<27, 91, a>>
             t == <<59, p>>
             u == <<27, 91, a, 59, p>>
  <2>1. s \in Seq(Nat) /\ t \in Seq(Nat) /\ u \in Seq(Nat) /\ Len(s) = 3 /\ Len(t) = 2 /\ Len(u) = 5
    OBVIOUS
  <2>2. (\A i \in 1..3 : u[i] = s[i]) /\ \A i \in 1..2 : u[3 + i] = t[i]
    OBVIOUS
  <2> HIDE DEF s, t, u
  <2>3. Pieces(s, t, u)
    BY <2>1, <2>2 DEF Pieces
  <2>4. s \o t = u
    BY <2>1, <2>3, Concat
  <2> QED
    BY <2>4 DEF s, t, u
<1>4. <<27, 91, a, 59, p>> \o <<126>> = <<27, 91, a, 59, p, 126>>
  <2> DEFINE s == <<27, 91, a, 59, p>>
             t == <<126>>
             u == <<27, 91, a, 59, p, 126>>
  <2>1. s \in Seq(Nat) /\ t \in Seq(Nat) /\ u \in Seq(Nat) /\ Len(s) = 5 /\ Len(t) = 1 /\ Len(u) = 6
    OBVIOUS
  <2>2. (\A i \in 1..5 : u[i] = s[i]) /\ \A i \in 1..1 : u[5 + i] = t[i]
    OBVIOUS
  <2> HIDE DEF s, t, u
  <2>3. Pieces(s, t, u)
    BY <2>1, <2>2 DEF Pieces
  <2>4. s \o t = u
    BY <2>1, <2>3, Concat
  <2> QED
    BY <2>4 DEF s, t, u
<1> QED
  BY <1>1, <1>2, <1>3, <1>4

LEMMA ModString2 ==
  ASSUME NEW a \in Nat, NEW b \in Nat, NEW p \in Nat
  PROVE  <<27, 91>> \o <<a, b>> \o (<<59>> \o <<p>>) \o <<126>> = <<27, 91, a, b, 59, p, 126>>
<1>1. <<27, 91>> \o <<a, b>> = <<27, 91, a, b>>
  <2> DEFINE s == <<27, 91>>
             t == <<a, b>>
             u == <<27, 91, a, b>>
  <2>1. s \in Seq(Nat) /\ t \in Seq(Nat) /\ u \in Seq(Nat) /\ Len(s) = 2 /\ Len(t) = 2 /\ Len(u) = 4
    OBVIOUS
  <2>2. (\A i \in 1..2 : u[i] = s[i]) /\ \A i \in 1..2 : u[2 + i] = t[i]
    OBVIOUS
  <2> HIDE DEF s, t, u
  <2>3. Pieces(s, t, u)
    BY <2>1, <2>2 DEF Pieces
  <2>4. s \o t = u
    BY <2>1, <2>3, Concat
  <2> QED
    BY <2>4 DEF s, t, u
<1>2. <<59>> \o <<p>> = <<59, p>>
  <2> DEFINE s == <<59>>
             t == <<p>>
             u == <<59, p>>
  <2>1. s \in Seq(Nat) /\ t \in Seq(Nat) /\ u \in Seq(Nat) /\ Len(s) = 1 /\ Len(t) = 1 /\ Len(u) = 2
    OBVIOUS
  <2>2. (\A i \in 1..1 : u[i] = s[i]) /\ \A i \in 1..1 : u[1 + i] = t[i]
    OBVIOUS
  <2> HIDE DEF s, t, u
  <2>3. Pieces(s, t, u)
    BY <2>1, <2>2 DEF Pieces
  <2>4. s \o t = u
    BY <2>1, <2>3, Concat
  <2> QED
    BY <2>4 DEF s, t, u
<1>3. <<27, 91, a, b>> \o <<59, p>> = <<27, 91, a, b, 59, p>>
  <2> DEFINE s == <<27, 91, a, b>>
             t == <<59, p>>
             u == <<27, 91, a, b, 59, p>>
  <2>1. s \in Seq(Nat) /\ t \in Seq(Nat) /\ u \in Seq(Nat) /\ Len(s) = 4 /\ Len(t) = 2 /\ Len(u) = 6
    OBVIOUS
  <2>2. (\A i \in 1..4 : u[i] = s[i]) /\ \A i \in 1..2 : u[4 + i] = t[i]
    OBVIOUS
  <2> HIDE DEF s, t, u
  <2>3. Pieces(s, t, u)
    BY <2>1, <2>2 DEF Pieces
  <2>4. s \o t = u
    BY <2>1, <2>3, Concat
  <2> QED
    BY <2>4 DEF s, t, u
<1>4. <<27, 91, a, b, 59, p>> \o <<126>> = <<27, 91, a, b, 59, p, 126>>
  <2> DEFINE s == <<27, 91, a, b, 59, p>>
             t == <<126>>
             u == <<27, 91, a, b, 59, p, 126>>
  <2>1. s \in Seq(Nat) /\ t \in Seq(Nat) /\ u \in Seq(Nat) /\ Len(s) = 6 /\ Len(t) = 1 /\ Len(u) = 7
    OBVIOUS
  <2>2. (\A i \in 1..6 : u[i] = s[i]) /\ \A i \in 1..1 : u[6 + i] = t[i]
    OBVIOUS
  <2> HIDE DEF s, t, u
  <2>3. Pieces(s, t, u)
    BY <2>1, <2>2 DEF Pieces
  <2>4. s \o t = u
    BY <2>1, <2>3, Concat
  <2> QED
    BY <2>4 DEF s, t, u
<1> QED
  BY <1>1, <1>2, <1>3, <1>4

LetterKeys == DOMAIN CursorFinal \cup {"f1", "f2", "f3", "f4"}
TildeKeys == DOMAIN TildeCode \cup {"f5", "f6", "f7", "f8", "f9", "f10", "f11", "f12"}
LetterOf(k) == IF k \in DOMAIN CursorFinal THEN CursorFinal[k] ELSE 79 + FunctionNumber[k]
NumberOf(k) ==
  IF k \in DOMAIN TildeCode THEN TildeCode[k]
  ELSE <<15, 17, 18, 19, 20, 21, 23, 24>>[FunctionNumber[k] - 4]

LEMMA KeyKinds == CsiKeys = LetterKeys \cup TildeKeys
  BY DEF CsiKeys, LetterKeys, TildeKeys, CursorFinal, TildeCode, FunctionNumber

LEMMA LetterDistinct ==
  \A k, l \in LetterKeys : LetterOf(k) \in 65..83 /\ (LetterOf(k) = LetterOf(l) => k = l)
  BY DEF LetterKeys, LetterOf, CursorFinal, FunctionNumber

LEMMA NumberDistinct ==
  \A k, l \in TildeKeys : NumberOf(k) \in 2..24 /\ (NumberOf(k) = NumberOf(l) => k = l)
  BY DEF TildeKeys, NumberOf, TildeCode, FunctionNumber

LEMMA ParamDistinct ==
  \A m, n \in TerminalMods :
    /\ Param(m) \in 1..8 /\ (m = {} <=> Param(m) = 1)
    /\ Param(m) = Param(n) => m = n
<1> SUFFICES ASSUME NEW m \in TerminalMods, NEW n \in TerminalMods
             PROVE  /\ Param(m) \in 1..8 /\ (m = {} <=> Param(m) = 1)
                    /\ Param(m) = Param(n) => m = n
  OBVIOUS
<1>1. \A a, b, c, d, e, f \in BOOLEAN :
        1 + (IF a THEN 1 ELSE 0) + (IF b THEN 2 ELSE 0) + (IF c THEN 4 ELSE 0) =
          1 + (IF d THEN 1 ELSE 0) + (IF e THEN 2 ELSE 0) + (IF f THEN 4 ELSE 0)
        => a = d /\ b = e /\ c = f
  OBVIOUS
<1>2. /\ Param(m) \in 1..8
      /\ ("shift" \notin m /\ "alt" \notin m /\ "ctrl" \notin m) <=> Param(m) = 1
  BY DEF Param, Weight
<1>3. Param(m) = Param(n) =>
        ("shift" \in m <=> "shift" \in n) /\ ("alt" \in m <=> "alt" \in n) /\ ("ctrl" \in m <=> "ctrl" \in n)
  BY DEF Param, Weight
<1>4. m = {} <=> ("shift" \notin m /\ "alt" \notin m /\ "ctrl" \notin m)
  BY DEF TerminalMods
<1>5. ("shift" \in m <=> "shift" \in n) /\ ("alt" \in m <=> "alt" \in n) /\ ("ctrl" \in m <=> "ctrl" \in n)
        => m = n
  <2>1. \A x : x \in m \/ x \in n => x \in {"shift", "alt", "ctrl"}
    BY DEF TerminalMods
  <2> QED
    BY <2>1
<1> QED
  BY <1>2, <1>3, <1>4, <1>5

LEMMA OneDigit == \A n \in 0..9 : Digits(n) = <<48 + n>>
<1> SUFFICES ASSUME NEW n \in 0..9 PROVE Digits(n) = <<48 + n>>
  OBVIOUS
<1>1. n < 10 /\ (n \div 1) % 10 = n
  OBVIOUS
<1>2. Digits(n) = <<48 + ((n \div 1) % 10)>>
  BY <1>1 DEF Digits
<1> QED
  BY <1>1, <1>2

LEMMA LetterSent ==
  ASSUME NEW k \in LetterKeys, NEW mods \in TerminalMods, NEW mode
  PROVE  EncodeNamed(k, mods, mode) =
           IF mods = {}
             THEN <<27, IF k \in DOMAIN CursorFinal /\ ~mode.appCursor THEN 91 ELSE 79, LetterOf(k)>>
             ELSE <<27, 91, 49, 59, 48 + Param(mods), LetterOf(k)>>
<1>1. mods # {} => Digits(Param(mods)) = <<48 + Param(mods)>>
  <2>1. Param(mods) \in 0..9
    <3>1. Param(mods) \in 1..8
      BY ParamDistinct
    <3> QED
      BY <3>1
  <2> QED
    BY <2>1, OneDigit
<1>2. \A p, f \in Nat : <<27, 91, 49, 59>> \o <<p>> \o <<f>> = <<27, 91, 49, 59, p, f>>
  BY LetterString
<1>5. 48 + Param(mods) \in Nat /\ LetterOf(k) \in Nat
  <2>1. Param(mods) \in 1..8 /\ LetterOf(k) \in 65..83
    BY ParamDistinct, LetterDistinct
  <2> QED
    BY <2>1
<1>3. CASE k \in DOMAIN CursorFinal
  <2>1. EncodeNamed(k, mods, mode) = CursorKey(CursorFinal[k], mods, mode)
    <3>1. /\ k # "enter" /\ k # "backspace" /\ k # "escape" /\ k # "tab"
          /\ k \notin DOMAIN TildeCode /\ k \notin DOMAIN FunctionNumber
      BY <1>3 DEF CursorFinal, TildeCode, FunctionNumber
    <3> QED
      BY <1>3, <3>1, Zenon DEF EncodeNamed
  <2>2. LetterOf(k) = CursorFinal[k]
    BY <1>3 DEF LetterOf
  <2>3. CASE mods = {}
    <3>1. CursorKey(CursorFinal[k], mods, mode) =
            <<27, IF mode.appCursor THEN 79 ELSE 91, CursorFinal[k]>>
      BY <2>3, Zenon DEF CursorKey, ESC
    <3> HIDE DEF CursorFinal
    <3> QED
      BY <1>3, <2>1, <2>2, <2>3, <3>1
  <2>4. CASE mods # {}
    <3>1. CursorKey(CursorFinal[k], mods, mode) =
            <<27, 91, 49, 59>> \o Digits(Param(mods)) \o <<CursorFinal[k]>>
      BY <2>4, Zenon DEF CursorKey, ESC
    <3>2. Digits(Param(mods)) = <<48 + Param(mods)>>
      BY <1>1, <2>4, Zenon
    <3>3. <<27, 91, 49, 59>> \o <<48 + Param(mods)>> \o <<LetterOf(k)>>
            = <<27, 91, 49, 59, 48 + Param(mods), LetterOf(k)>>
      BY <1>2, <1>5, Zenon
    <3> QED
      BY <2>1, <2>2, <2>4, <3>1, <3>2, <3>3, Zenon
  <2> QED
    BY <2>3, <2>4
<1>4. CASE k \notin DOMAIN CursorFinal
  <2>1. k \in {"f1", "f2", "f3", "f4"}
    BY <1>4 DEF LetterKeys
  <2>2. EncodeNamed(k, mods, mode) = FunctionKey(FunctionNumber[k], mods)
    <3>1. /\ k # "enter" /\ k # "backspace" /\ k # "escape" /\ k # "tab"
          /\ k \notin DOMAIN TildeCode /\ k \in DOMAIN FunctionNumber
      BY <2>1 DEF TildeCode, FunctionNumber
    <3> QED
      BY <1>4, <3>1, Zenon DEF EncodeNamed
  <2>3. FunctionNumber[k] \in 1..4
    BY <2>1 DEF FunctionNumber
  <2>4. LetterOf(k) = 79 + FunctionNumber[k]
    BY <1>4 DEF LetterOf
  <2>5. FunctionNumber[k] <= 4
    BY <2>3
  <2>6. FunctionKey(FunctionNumber[k], mods) =
          IF mods # {} THEN <<ESC, 91, 49, 59>> \o Digits(Param(mods)) \o <<79 + FunctionNumber[k]>>
          ELSE <<ESC, 79, 79 + FunctionNumber[k]>>
    BY <2>5, Zenon DEF FunctionKey
  <2>7. CASE mods = {}
    <3>1. FunctionKey(FunctionNumber[k], mods) = <<27, 79, 79 + FunctionNumber[k]>>
      BY <2>6, <2>7, Zenon DEF ESC
    <3> QED
      BY <1>4, <2>2, <2>4, <2>7, <3>1, Zenon
  <2>8. CASE mods # {}
    <3>1. FunctionKey(FunctionNumber[k], mods) =
            <<27, 91, 49, 59>> \o Digits(Param(mods)) \o <<79 + FunctionNumber[k]>>
      BY <2>6, <2>8, Zenon DEF ESC
    <3>2. Digits(Param(mods)) = <<48 + Param(mods)>>
      BY <1>1, <2>8, Zenon
    <3>3. <<27, 91, 49, 59>> \o <<48 + Param(mods)>> \o <<LetterOf(k)>>
            = <<27, 91, 49, 59, 48 + Param(mods), LetterOf(k)>>
      BY <1>2, <1>5, Zenon
    <3> QED
      BY <2>2, <2>4, <2>8, <3>1, <3>2, <3>3, Zenon
  <2> QED
    BY <2>7, <2>8
<1> QED
  BY <1>3, <1>4

TildeSentAs(k, mods) ==
  LET n == NumberOf(k)
  IN  IF mods = {} THEN (IF n < 10 THEN <<27, 91, 48 + n, 126>>
                         ELSE <<27, 91, 48 + (n \div 10), 48 + (n % 10), 126>>)
      ELSE IF n < 10 THEN <<27, 91, 48 + n, 59, 48 + Param(mods), 126>>
           ELSE <<27, 91, 48 + (n \div 10), 48 + (n % 10), 59, 48 + Param(mods), 126>>

LEMMA TwoDigits == \A n \in 10..99 : Digits(n) = <<48 + (n \div 10), 48 + (n % 10)>>
<1> SUFFICES ASSUME NEW n \in 10..99 PROVE Digits(n) = <<48 + (n \div 10), 48 + (n % 10)>>
  OBVIOUS
<1>1. ~(n < 10) /\ n < 100 /\ (n \div 10) % 10 = n \div 10 /\ (n \div 1) % 10 = n % 10
  OBVIOUS
<1>2. Digits(n) = <<48 + ((n \div 10) % 10), 48 + ((n \div 1) % 10)>>
  BY <1>1 DEF Digits
<1> QED
  BY <1>1, <1>2

LEMMA TildeSent ==
  ASSUME NEW k \in TildeKeys, NEW mods \in TerminalMods, NEW mode
  PROVE  EncodeNamed(k, mods, mode) = TildeSentAs(k, mods)
<1> DEFINE n == NumberOf(k)
<1>1. mods # {} => Digits(Param(mods)) = <<48 + Param(mods)>>
  <2>1. Param(mods) \in 0..9
    <3>1. Param(mods) \in 1..8
      BY ParamDistinct
    <3> QED
      BY <3>1
  <2> QED
    BY <2>1, OneDigit
<1>2. n \in 2..24
  BY NumberDistinct
<1>3. EncodeNamed(k, mods, mode) = TildeKey(n, mods)
  <2>1. CASE k \in DOMAIN TildeCode
    <3>1. /\ k # "enter" /\ k # "backspace" /\ k # "escape" /\ k # "tab"
          /\ k \notin DOMAIN CursorFinal /\ k \notin DOMAIN FunctionNumber
      BY <2>1 DEF CursorFinal, TildeCode, FunctionNumber
    <3>2. n = TildeCode[k]
      BY <2>1 DEF NumberOf
    <3> QED
      BY <2>1, <3>1, <3>2, Zenon DEF EncodeNamed
  <2>2. CASE k \notin DOMAIN TildeCode
    <3>1. k \in {"f5", "f6", "f7", "f8", "f9", "f10", "f11", "f12"}
      BY <2>2 DEF TildeKeys
    <3>2. /\ k # "enter" /\ k # "backspace" /\ k # "escape" /\ k # "tab"
          /\ k \notin DOMAIN CursorFinal /\ k \in DOMAIN FunctionNumber
      BY <3>1 DEF CursorFinal, FunctionNumber
    <3>3. EncodeNamed(k, mods, mode) = FunctionKey(FunctionNumber[k], mods)
      BY <2>2, <3>2, Zenon DEF EncodeNamed
    <3>4. ~(FunctionNumber[k] <= 4)
      BY <3>1 DEF FunctionNumber
    <3>5. n = <<15, 17, 18, 19, 20, 21, 23, 24>>[FunctionNumber[k] - 4]
      BY <2>2 DEF NumberOf
    <3> QED
      BY <3>3, <3>4, <3>5, Zenon DEF FunctionKey
  <2> QED
    BY <2>1, <2>2
<1> HIDE DEF n
<1>4. TildeKey(n, mods) = <<27, 91>> \o Digits(n) \o (IF mods # {} THEN <<59>> \o Digits(Param(mods)) ELSE <<>>) \o <<126>>
  BY DEF TildeKey, ESC
<1>5. 48 + Param(mods) \in Nat /\ 48 + n \in Nat /\ 48 + (n \div 10) \in Nat /\ 48 + (n % 10) \in Nat
  <2>1. Param(mods) \in 1..8
    BY ParamDistinct
  <2> QED
    BY <1>2, <2>1
<1>6. CASE n < 10
  <2>1. n \in 0..9
    BY <1>2, <1>6
  <2>2. Digits(n) = <<48 + n>>
    BY <2>1, OneDigit
  <2>3. /\ <<27, 91>> \o <<48 + n>> \o <<>> \o <<126>> = <<27, 91, 48 + n, 126>>
        /\ <<27, 91>> \o <<48 + n>> \o (<<59>> \o <<48 + Param(mods)>>) \o <<126>> =
             <<27, 91, 48 + n, 59, 48 + Param(mods), 126>>
    BY <1>5, PlainString, ModString
  <2>4. TildeKey(n, mods) = IF mods = {} THEN <<27, 91, 48 + n, 126>>
                            ELSE <<27, 91, 48 + n, 59, 48 + Param(mods), 126>>
    BY <1>1, <1>4, <2>2, <2>3
  <2> QED
    BY <1>3, <1>6, <2>4 DEF TildeSentAs, n
<1>7. CASE ~(n < 10)
  <2>1. n \in 10..99
    BY <1>2, <1>7
  <2> DEFINE a == 48 + (n \div 10)
             b == 48 + (n % 10)
  <2>2. Digits(n) = <<a, b>>
    BY <2>1, TwoDigits
  <2>0. a \in Nat /\ b \in Nat
    BY <1>5
  <2> HIDE DEF a, b
  <2>3. /\ <<27, 91>> \o <<a, b>> \o <<>> \o <<126>> = <<27, 91, a, b, 126>>
        /\ <<27, 91>> \o <<a, b>> \o (<<59>> \o <<48 + Param(mods)>>) \o <<126>> =
             <<27, 91, a, b, 59, 48 + Param(mods), 126>>
    BY <1>5, <2>0, PlainString2, ModString2
  <2>4. TildeKey(n, mods) = IF mods = {} THEN <<27, 91, a, b, 126>>
                            ELSE <<27, 91, a, b, 59, 48 + Param(mods), 126>>
    BY <1>1, <1>4, <2>2, <2>3
  <2> QED
    BY <1>3, <1>7, <2>4 DEF TildeSentAs, n, a, b
<1> QED
  BY <1>6, <1>7

(* What a program reads of these bytes: the key and the modifiers.         *)
KeyRead(b) ==
  IF Len(b) = 3 THEN <<b[3]>>
  ELSE IF Len(b) = 4 THEN <<b[3], 126>>
  ELSE IF Len(b) = 5 \/ Len(b) = 7 THEN <<b[3], b[4], 126>>
  ELSE IF b[6] = 126 THEN <<b[3], 126>> ELSE <<b[6]>>
ParRead(b) == IF Len(b) <= 5 THEN 1 ELSE IF Len(b) = 6 THEN b[5] - 48 ELSE b[6] - 48
KeyId(k) ==
  LET n == NumberOf(k)
  IN  IF k \in LetterKeys THEN <<LetterOf(k)>>
      ELSE IF n < 10 THEN <<48 + n, 126>> ELSE <<48 + (n \div 10), 48 + (n % 10), 126>>

LEMMA KeyDecoded ==
  ASSUME NEW k \in CsiKeys, NEW mods \in TerminalMods, NEW mode
  PROVE  KeyRead(EncodeNamed(k, mods, mode)) = KeyId(k) /\ ParRead(EncodeNamed(k, mods, mode)) = Param(mods)
<1>1. Param(mods) \in 1..8 /\ (mods = {} <=> Param(mods) = 1)
  BY ParamDistinct
<1>2. CASE k \in LetterKeys
  <2> DEFINE f == LetterOf(k)
             lead == IF k \in DOMAIN CursorFinal /\ ~mode.appCursor THEN 91 ELSE 79
             p == 48 + Param(mods)
  <2>1. f \in 65..83
    BY <1>2, LetterDistinct
  <2>2. EncodeNamed(k, mods, mode) = IF mods = {} THEN <<27, lead, f>> ELSE <<27, 91, 49, 59, p, f>>
    BY <1>2, LetterSent
  <2>3. p - 48 = Param(mods)
    BY <1>1
  <2>4. KeyId(k) = <<f>>
    BY <1>2, Zenon DEF KeyId
  <2> HIDE DEF f, lead, p
  <2>5. CASE mods = {}
    BY <1>1, <2>1, <2>2, <2>4, <2>5 DEF KeyRead, ParRead
  <2>6. CASE mods # {}
    BY <1>1, <2>1, <2>2, <2>3, <2>4, <2>6 DEF KeyRead, ParRead
  <2> QED
    BY <2>5, <2>6
<1>3. CASE k \notin LetterKeys
  <2> DEFINE n == NumberOf(k)
             a == 48 + (n \div 10)
             c == 48 + (n % 10)
             p == 48 + Param(mods)
  <2>1. k \in TildeKeys
    BY <1>3, KeyKinds
  <2>2. n \in 2..24
    BY <2>1, NumberDistinct
  <2>3. EncodeNamed(k, mods, mode) =
          IF mods = {} THEN (IF n < 10 THEN <<27, 91, 48 + n, 126>> ELSE <<27, 91, a, c, 126>>)
          ELSE IF n < 10 THEN <<27, 91, 48 + n, 59, p, 126>> ELSE <<27, 91, a, c, 59, p, 126>>
    <3>1. EncodeNamed(k, mods, mode) = TildeSentAs(k, mods)
      BY <2>1, TildeSent
    <3> QED
      BY <3>1, Zenon DEF TildeSentAs
  <2>4. p - 48 = Param(mods)
    BY <1>1
  <2>5. KeyId(k) = IF n < 10 THEN <<48 + n, 126>> ELSE <<a, c, 126>>
    BY <1>3, Zenon DEF KeyId
  <2> HIDE DEF n, a, c, p
  <2>6. CASE mods = {} /\ n < 10
    BY <1>1, <2>3, <2>5, <2>6 DEF KeyRead, ParRead
  <2>7. CASE mods = {} /\ ~(n < 10)
    BY <1>1, <2>3, <2>5, <2>7 DEF KeyRead, ParRead
  <2>8. CASE mods # {} /\ n < 10
    BY <1>1, <2>3, <2>4, <2>5, <2>8 DEF KeyRead, ParRead
  <2>9. CASE mods # {} /\ ~(n < 10)
    BY <1>1, <2>3, <2>4, <2>5, <2>9 DEF KeyRead, ParRead
  <2> QED
    BY <2>6, <2>7, <2>8, <2>9
<1> QED
  BY <1>2, <1>3

LEMMA KeyIdDistinct ==
  ASSUME NEW k \in CsiKeys, NEW l \in CsiKeys, KeyId(k) = KeyId(l)
  PROVE  k = l
<1> DEFINE Id(n) == IF n < 10 THEN <<48 + n, 126>> ELSE <<48 + (n \div 10), 48 + (n % 10), 126>>
<1>1. \A n \in 2..24 : Len(Id(n)) \in {2, 3}
  OBVIOUS
<1>2. \A n, m \in 2..24 : Id(n) = Id(m) => n = m
  <2> SUFFICES ASSUME NEW n \in 2..24, NEW m \in 2..24, Id(n) = Id(m) PROVE n = m
    OBVIOUS
  <2>1. n = 10 * (n \div 10) + (n % 10) /\ m = 10 * (m \div 10) + (m % 10)
    OBVIOUS
  <2>2. n \div 10 \in Int /\ n % 10 \in Int /\ m \div 10 \in Int /\ m % 10 \in Int
    OBVIOUS
  <2> QED
    BY <2>1, <2>2
<1>3. \A x \in CsiKeys : x \in LetterKeys \/ (x \notin LetterKeys /\ x \in TildeKeys)
  BY KeyKinds
<1>4. \A x \in CsiKeys : x \in LetterKeys => KeyId(x) = <<LetterOf(x)>>
  BY Zenon DEF KeyId
<1>5. \A x \in CsiKeys : x \notin LetterKeys => KeyId(x) = Id(NumberOf(x))
  BY Zenon DEF KeyId
<1>6. \A x \in TildeKeys : NumberOf(x) \in 2..24
  BY NumberDistinct
<1> HIDE DEF Id
<1>7. CASE k \in LetterKeys /\ l \in LetterKeys
  BY <1>4, <1>7, LetterDistinct
<1>8. CASE k \notin LetterKeys /\ l \notin LetterKeys
  <2>1. NumberOf(k) = NumberOf(l)
    BY <1>2, <1>3, <1>5, <1>6, <1>8
  <2> QED
    BY <1>3, <1>8, <2>1, NumberDistinct
<1>9. \A x, y \in CsiKeys : x \in LetterKeys /\ y \notin LetterKeys => KeyId(x) # KeyId(y)
  <2> SUFFICES ASSUME NEW x \in CsiKeys, NEW y \in CsiKeys, x \in LetterKeys, y \notin LetterKeys
               PROVE  KeyId(x) # KeyId(y)
    OBVIOUS
  <2>1. Len(KeyId(x)) = 1
    BY <1>4
  <2>2. Len(KeyId(y)) \in {2, 3}
    BY <1>1, <1>3, <1>5, <1>6
  <2> QED
    BY <2>1, <2>2
<1> QED
  BY <1>7, <1>8, <1>9

LEMMA FiniteUnion == \A S, T : IsFiniteSet(S) /\ IsFiniteSet(T) => IsFiniteSet(S \cup T)
  BY FS_Union

LEMMA FiniteTwo == \A a, b : IsFiniteSet({a, b})
<1> TAKE a, b
<1>1. {a, b} = {a} \cup {b}
  OBVIOUS
<1>2. IsFiniteSet({a}) /\ IsFiniteSet({b})
  BY FS_Singleton, Zenon
<1>3. IsFiniteSet({a} \cup {b})
  BY <1>2, FiniteUnion, Zenon
<1> QED
  BY <1>1, <1>3, Zenon

LEMMA FiniteFour == \A a, b, c, d : IsFiniteSet({a, b, c, d})
<1> TAKE a, b, c, d
<1>1. {a, b, c, d} = {a, b} \cup {c, d}
  OBVIOUS
<1>2. IsFiniteSet({a, b} \cup {c, d})
  BY FiniteTwo, FiniteUnion, Zenon
<1> QED
  BY <1>1, <1>2, Zenon

LEMMA FiniteKeys == IsFiniteSet(CsiKeys) /\ IsFiniteSet(TerminalMods)
<1>1. DOMAIN CursorFinal = {"up", "down", "right", "left"} \cup {"home", "end"}
  BY DEF CursorFinal
<1>2. DOMAIN TildeCode = {"insert", "delete", "pageup", "pagedown"}
  BY DEF TildeCode
<1>3. DOMAIN FunctionNumber =
        {"f1", "f2", "f3", "f4"} \cup {"f5", "f6", "f7", "f8"} \cup {"f9", "f10", "f11", "f12"}
  BY DEF FunctionNumber
<1>4. IsFiniteSet(DOMAIN CursorFinal)
  <2>1. IsFiniteSet({"up", "down", "right", "left"}) /\ IsFiniteSet({"home", "end"})
    BY FiniteFour, FiniteTwo, Zenon
  <2>2. IsFiniteSet({"up", "down", "right", "left"} \cup {"home", "end"})
    BY <2>1, FiniteUnion, Zenon
  <2> QED
    BY <1>1, <2>2
<1>5. IsFiniteSet(DOMAIN TildeCode)
  <2>1. IsFiniteSet({"insert", "delete", "pageup", "pagedown"})
    BY FiniteFour, Zenon
  <2> QED
    BY <1>2, <2>1
<1>6. IsFiniteSet(DOMAIN FunctionNumber)
  <2>1. /\ IsFiniteSet({"f1", "f2", "f3", "f4"}) /\ IsFiniteSet({"f5", "f6", "f7", "f8"})
        /\ IsFiniteSet({"f9", "f10", "f11", "f12"})
    BY FiniteFour, Zenon
  <2>2. IsFiniteSet({"f1", "f2", "f3", "f4"} \cup {"f5", "f6", "f7", "f8"} \cup {"f9", "f10", "f11", "f12"})
    BY <2>1, FiniteUnion, Zenon
  <2> QED
    BY <1>3, <2>2
<1>7. IsFiniteSet(CsiKeys)
  BY <1>4, <1>5, <1>6, FiniteUnion, Zenon DEF CsiKeys
<1>8. IsFiniteSet({"shift", "alt", "ctrl"})
  <2>1. {"shift", "alt", "ctrl"} = {"shift", "alt"} \cup {"ctrl"}
    OBVIOUS
  <2> QED
    <3>1. IsFiniteSet({"shift", "alt"}) /\ IsFiniteSet({"ctrl"})
      BY FiniteTwo, FS_Singleton, Zenon
    <3>2. IsFiniteSet({"shift", "alt"} \cup {"ctrl"})
      BY <3>1, FiniteUnion, Zenon
    <3> QED
      BY <2>1, <3>2
<1>9. IsFiniteSet(TerminalMods)
  BY <1>8, FS_SUBSET DEF TerminalMods
<1> QED
  BY <1>7, <1>9

LEMMA NamedArrives == \A mode : NamedReach(mode)
<1> TAKE mode
<1> DEFINE S == CsiKeys \X TerminalMods
           f == [x \in S |-> EncodeNamed(x[1], x[2], mode)]
           T == {EncodeNamed(k, mods, mode) : k \in CsiKeys, mods \in TerminalMods}
<1>1. IsFiniteSet(S) /\ Cardinality(S) = Cardinality(CsiKeys) * Cardinality(TerminalMods)
  BY FiniteKeys, FS_Product
<1>2. ASSUME NEW x \in S, NEW y \in S, f[x] = f[y] PROVE x = y
  <2>1. PICK k \in CsiKeys, m \in TerminalMods : x = <<k, m>>
    OBVIOUS
  <2>2. PICK l \in CsiKeys, n \in TerminalMods : y = <<l, n>>
    OBVIOUS
  <2>3. EncodeNamed(k, m, mode) = EncodeNamed(l, n, mode)
    BY <1>2, <2>1, <2>2
  <2>4. KeyId(k) = KeyId(l) /\ Param(m) = Param(n)
    BY <2>3, KeyDecoded
  <2>5. k = l
    BY <2>4, KeyIdDistinct
  <2>6. m = n
    BY <2>4, ParamDistinct
  <2> QED
    BY <2>1, <2>2, <2>5, <2>6
<1>3. f \in [S -> T]
  OBVIOUS
<1>4. \A t \in T : \E x \in S : f[x] = t
  <2> SUFFICES ASSUME NEW k \in CsiKeys, NEW m \in TerminalMods
               PROVE  \E x \in S : f[x] = EncodeNamed(k, m, mode)
    OBVIOUS
  <2>1. <<k, m>> \in S /\ f[<<k, m>>] = EncodeNamed(k, m, mode)
    OBVIOUS
  <2> QED
    BY <2>1
<1>5. f \in Surjection(S, T) /\ f \in Injection(S, T)
  <2> HIDE DEF f, S, T
  <2> QED
    BY <1>2, <1>3, <1>4 DEF Injection, Surjection, IsInjective
<1>6. Cardinality(T) = Cardinality(S)
  <2> HIDE DEF f, S, T
  <2> QED
    BY <1>1, <1>5, FS_Surjection
<1> QED
  BY <1>1, <1>6 DEF NamedReach

(***************************************************************************)
(* A key press                                                             *)
(***************************************************************************)
Core(text, mods) ==
  LET control == IF Len(text) = 1 /\ "ctrl" \in mods THEN CtrlChar(text[1]) ELSE {}
  IN  IF control # {} THEN <<CHOOSE b \in control : TRUE>> ELSE Bytes(text)

NoText(text) == text = <<>>

LEMMA TextEncoded ==
  \A text, mods : ~NoText(text) => EncodeText(text, mods) = {AltPrefixed(mods, Core(text, mods))}
<1> TAKE text, mods
<1> HAVE ~NoText(text)
<1> QED
  BY SMT DEF EncodeText, Core, NoText

LEMMA CoreWithout ==
  \A text, mods : "ctrl" \notin mods => Core(text, mods) = Bytes(text)
  BY Zenon DEF Core

(* The modifiers a press counts with.                                      *)
Counted(press, option, mac) ==
  press.mods \cap ({"shift"} \cup IF AltGr(press) THEN {}
                                  ELSE {"ctrl"} \cup (IF option \/ ~mac THEN {"alt"} ELSE {}))

LEMMA CountedMods ==
  ASSUME NEW press, NEW option, NEW mac
  PROVE  LET m == Counted(press, option, mac)
         IN  /\ "ctrl" \in m <=> "ctrl" \in press.mods /\ ~AltGr(press)
             /\ "alt" \in m <=> "alt" \in press.mods /\ ~AltGr(press) /\ (option \/ ~mac)
<1> DEFINE m == Counted(press, option, mac)
<1>1. CASE AltGr(press)
  <2>1. m = press.mods \cap ({"shift"} \cup {})
    BY <1>1, Zenon DEF Counted
  <2>2. "ctrl" \notin m /\ "alt" \notin m
    BY <2>1
  <2> QED
    BY <1>1, <2>2, Zenon
<1>2. CASE ~AltGr(press) /\ (option \/ ~mac)
  <2>1. m = press.mods \cap ({"shift"} \cup ({"ctrl"} \cup {"alt"}))
    BY <1>2, Zenon DEF Counted
  <2>2. ("ctrl" \in m <=> "ctrl" \in press.mods) /\ ("alt" \in m <=> "alt" \in press.mods)
    BY <2>1
  <2> QED
    BY <1>2, <2>2, Zenon
<1>3. CASE ~AltGr(press) /\ ~(option \/ ~mac)
  <2>1. m = press.mods \cap ({"shift"} \cup ({"ctrl"} \cup {}))
    BY <1>3, Zenon DEF Counted
  <2>2. ("ctrl" \in m <=> "ctrl" \in press.mods) /\ "alt" \notin m
    BY <2>1
  <2> QED
    BY <1>3, <2>2, Zenon
<1> QED
  BY <1>1, <1>2, <1>3

LEMMA NamelessKey == "" # "space" /\ "" \notin NAMED_KEYS
  BY Zenon DEF NAMED_KEYS, TYPING_KEYS

LEMMA TextKeySent ==
  ASSUME NEW press, NEW mode, NEW option, NEW mac, "logo" \notin press.mods, press.key.named = ""
  PROVE  LET m == Counted(press, option, mac)
             bare == {"ctrl", "alt"} \cap m # {} \/ Committed(press) = <<>>
         IN  Encode(press, mode, option, mac) =
               IF press.key.char = 0 THEN EncodeText(Committed(press), m)
               ELSE EncodeText(IF bare THEN <<press.key.char>> ELSE Committed(press), m)
<1>1. "" # "space" /\ "" \notin NAMED_KEYS
  BY NamelessKey, Zenon
<1> QED
  BY <1>1, Zenon DEF Encode, Counted

(***************************************************************************)
(* The on-screen keyboard                                                  *)
(***************************************************************************)
LEMMA FlatOne == \A x : FlattenSeq(<<x>>) = x
<1> TAKE x
<1> DEFINE s == <<x>>
           flatten[i \in 1..Len(s)] == IF i = 1 THEN s[i] ELSE flatten[i - 1] \o s[i]
           Run(g) == g = [i \in 1..Len(s) |-> IF i = 1 THEN s[i] ELSE g[i - 1] \o s[i]]
           one == [i \in 1..1 |-> x]
<1>1. Len(s) = 1 /\ s[1] = x
  OBVIOUS
<1> HIDE DEF s
<1>2. FlattenSeq(s) = flatten[1]
  <2>1. FlattenSeq(s) = IF Len(s) = 0 THEN s ELSE flatten[Len(s)]
    BY DEF FlattenSeq
  <2>2. Len(s) # 0
    BY <1>1
  <2> HIDE DEF flatten
  <2>3. FlattenSeq(s) = flatten[Len(s)]
    BY <2>1, <2>2, Zenon
  <2> QED
    BY <1>1, <2>3, Zenon
<1>3. Run(one)
  <2>1. \A i \in 1..1 : i = 1
    OBVIOUS
  <2>2. one = [i \in 1..1 |-> IF i = 1 THEN s[i] ELSE one[i - 1] \o s[i]]
    <3> HIDE DEF one
    <3>1. \A i \in 1..1 : x = IF i = 1 THEN s[i] ELSE one[i - 1] \o s[i]
      BY <1>1, <2>1, Zenon
    <3> QED
      BY <3>1, Zenon DEF one
  <2> QED
    BY <1>1, <2>2, Zenon
<1>4. flatten = CHOOSE g : Run(g)
  OBVIOUS
<1>5. Run(flatten)
  <2> HIDE DEF Run, flatten, one
  <2> QED
    BY <1>3, <1>4
<1>6. flatten[1] = x
  <2>1. 1 \in 1..1
    OBVIOUS
  <2> HIDE DEF flatten
  <2>2. flatten[1] = IF 1 = 1 THEN s[1] ELSE flatten[1 - 1] \o s[1]
    BY <1>1, <1>5, <2>1, Zenon
  <2> QED
    BY <1>1, <2>2, Zenon
<1> QED
  BY <1>2, <1>6, Zenon DEF s

LEMMA BytesOne == \A c : Bytes(<<c>>) = Utf8(c)
<1> TAKE c
<1>1. [i \in DOMAIN <<c>> |-> Utf8(<<c>>[i])] = <<Utf8(c)>>
  OBVIOUS
<1> QED
  BY <1>1, FlatOne DEF Bytes

LEMMA ControlOne ==
  \A c \in Nat : \/ CtrlChar(c) = {}
                 \/ \E x \in Nat : CtrlChar(c) = {x}
<1> TAKE c \in Nat
<1> DEFINE l == IF c \in 65..90 THEN c + 32 ELSE c
<1>1. l \in Nat
  OBVIOUS
<1>2. CtrlChar(c) = CASE l \in 97..122 -> {l - 96}
       [] l \in {64, 32, 50} -> {0}
       [] l \in {91, 51} -> {27}
       [] l \in {92, 52} -> {28}
       [] l \in {93, 53} -> {29}
       [] l \in {94, 54} -> {30}
       [] l \in {95, 55, 45} -> {31}
       [] l \in {63, 56} -> {127}
       [] OTHER -> {}
  BY Zenon DEF CtrlChar
<1> HIDE DEF l
<1> DEFINE C == CtrlChar(c)
<1>3. \/ l \in 97..122 /\ C = {l - 96}
      \/ C = {0} \/ C = {27} \/ C = {28} \/ C = {29} \/ C = {30} \/ C = {31} \/ C = {127} \/ C = {}
  BY <1>2, Zenon
<1>4. CASE l \in 97..122 /\ C = {l - 96}
  <2>1. l - 96 \in Nat
    BY <1>4
  <2> QED
    BY <1>4, <2>1
<1>5. 0 \in Nat /\ 27 \in Nat /\ 28 \in Nat /\ 29 \in Nat /\ 30 \in Nat /\ 31 \in Nat /\ 127 \in Nat
  OBVIOUS
<1> HIDE DEF C
<1>6. C = {} \/ \E x \in Nat : C = {x}
  BY <1>3, <1>4, <1>5, Zenon DEF C
<1> QED
  BY <1>6 DEF C

(* Ctrl does not see the case of a letter.                                 *)
LEMMA ControlLower == \A c \in Nat : CtrlChar(LowerOf(c)) = CtrlChar(c)
<1> TAKE c \in Nat
<1> DEFINE Low(x) == IF x \in 65..90 THEN x + 32 ELSE x
           l == LowerOf(c)
<1>1. CASE c \notin 192..222
  <2>1. Low(l) = Low(c)
    BY <1>1, SMT DEF LowerOf
  <2> QED
    BY <2>1, ZenonT(40) DEF CtrlChar
<1>2. CASE c \in 192..222
  <2>1. Low(l) = c + 32 /\ Low(c) = c
    BY <1>2, SMT DEF LowerOf
  <2>2. \A n \in Nat : n > 191 => /\ n \notin 97..122 /\ n \notin {64, 32, 50} /\ n \notin {91, 51}
          /\ n \notin {92, 52} /\ n \notin {93, 53} /\ n \notin {94, 54} /\ n \notin {95, 55, 45}
          /\ n \notin {63, 56}
    OBVIOUS
  <2>3. c + 32 \in Nat /\ c + 32 > 191 /\ c > 191
    BY <1>2
  <2>4. \A n : Low(n) \in Nat /\ Low(n) > 191 => CtrlChar(n) = {}
    <3> TAKE n
    <3>1. HAVE Low(n) \in Nat /\ Low(n) > 191
    <3> DEFINE k == Low(n)
    <3>2. CtrlChar(n) = CASE k \in 97..122 -> {k - 96}
       [] k \in {64, 32, 50} -> {0}
       [] k \in {91, 51} -> {27}
       [] k \in {92, 52} -> {28}
       [] k \in {93, 53} -> {29}
       [] k \in {94, 54} -> {30}
       [] k \in {95, 55, 45} -> {31}
       [] k \in {63, 56} -> {127}
       [] OTHER -> {}
      BY Zenon DEF CtrlChar
    <3>3. /\ k \notin 97..122 /\ k \notin {64, 32, 50} /\ k \notin {91, 51}
          /\ k \notin {92, 52} /\ k \notin {93, 53} /\ k \notin {94, 54} /\ k \notin {95, 55, 45}
          /\ k \notin {63, 56}
      BY <2>2, <3>1
    <3> HIDE DEF k
    <3> QED
      BY <3>2, <3>3, Zenon
  <2> HIDE DEF Low, l
  <2>5. CtrlChar(l) = {} /\ CtrlChar(c) = {}
    BY <2>1, <2>3, <2>4
  <2> QED
    BY <2>5 DEF l
<1> QED
  BY <1>1, <1>2

(* A label is a character that may be typed.                               *)
LEMMA Cases ==
  \A c \in Nat : ~IsControl(c) =>
    /\ LowerOf(c) \in Nat /\ LowerOf(c) # 0 /\ ~IsControl(LowerOf(c))
    /\ UpperOf(c) \in Nat /\ ~IsControl(UpperOf(c))
    /\ ~IsCased(c) => UpperOf(c) = c
  BY SMT DEF LowerOf, UpperOf, IsControl, IsCased
(* What an arrived key press stands for.                                   *)
LabelOf(key, held0, caps0) ==
  IF ("shift" \in held0) = (IsCased(key.base) /\ caps0) THEN key.base
  ELSE IF key.shifted # 0 THEN key.shifted ELSE UpperOf(key.base)
TextTyped(t) ==
  /\ t.key.kind = "text"
  /\ t.key.base \in Nat /\ ~IsControl(t.key.base)
  /\ t.key.shifted \in Nat /\ (t.key.shifted # 0 => ~IsControl(t.key.shifted))
  /\ t.press = [key |-> [named |-> "", char |-> LowerOf(t.key.base)], mods |-> t.held,
                text |-> IF {"ctrl", "alt"} \subseteq t.held THEN <<>>
                         ELSE <<LabelOf(t.key, t.held, t.caps)>>]
NamedTyped(t) ==
  /\ t.key.kind = "named" /\ t.key.of \in NAMED_KEYS
  /\ t.press = [key |-> [named |-> t.key.of, char |-> 0], mods |-> t.held,
                text |-> IF t.key.of = "space" THEN <<32>> ELSE <<>>]
OskInv ==
  /\ held \subseteq {"shift", "ctrl", "alt"} /\ caps \in BOOLEAN
  /\ typed.held \subseteq {"shift", "ctrl", "alt"} /\ typed.caps \in BOOLEAN
  /\ typed.key.kind \in {"text", "named"} => TextTyped(typed) \/ NamedTyped(typed)

LEMMA OskInitInv == OskInit => OskInv
<1> HAVE OskInit
<1>1. typed.held = {} /\ typed.caps = FALSE /\ typed.key.kind = "caps"
  BY DEF OskInit, Nothing, CapsKey
<1>2. held = {} /\ caps = FALSE
  BY DEF OskInit
<1> QED
  BY <1>1, <1>2 DEF OskInv

LEMMA OutputLabel ==
  ASSUME NEW key, key.base \in Nat, caps \in BOOLEAN, ~IsControl(key.base)
  PROVE  OutputText(key.base, key.shifted) = LabelOf(key, held, caps)
<1> DEFINE cased == IsCased(key.base)
           shift == "shift" \in held
           upper == IF cased THEN shift # caps ELSE shift
<1>1. cased \in BOOLEAN /\ shift \in BOOLEAN
  BY DEF IsCased
<1>2. ~cased => UpperOf(key.base) = key.base
  BY Cases
<1>3. OutputText(key.base, key.shifted) =
        IF ~upper THEN key.base
        ELSE IF key.shifted # 0 THEN key.shifted
        ELSE IF cased THEN UpperOf(key.base) ELSE key.base
  BY Zenon DEF OutputText
<1>4. LabelOf(key, held, caps) =
        IF shift = (cased /\ caps) THEN key.base
        ELSE IF key.shifted # 0 THEN key.shifted ELSE UpperOf(key.base)
  BY Zenon DEF LabelOf
<1> HIDE DEF cased, shift
<1>5. upper <=> ~(shift = (cased /\ caps))
  BY <1>1, Zenon
<1>6. (IF cased THEN UpperOf(key.base) ELSE key.base) = UpperOf(key.base)
  BY <1>2, Zenon
<1> HIDE DEF upper
<1>7. CASE upper
  <2>1. OutputText(key.base, key.shifted) = IF key.shifted # 0 THEN key.shifted ELSE UpperOf(key.base)
    BY <1>3, <1>6, <1>7, Zenon
  <2>2. LabelOf(key, held, caps) = IF key.shifted # 0 THEN key.shifted ELSE UpperOf(key.base)
    BY <1>4, <1>5, <1>7, Zenon
  <2> QED
    BY <2>1, <2>2
<1>8. CASE ~upper
  BY <1>3, <1>4, <1>5, <1>8, Zenon
<1> QED
  BY <1>7, <1>8

LEMMA OskNextInv == OskInv /\ [OskNext]_oskVars => OskInv'
<1> SUFFICES ASSUME OskInv, [OskNext]_oskVars PROVE OskInv'
  OBVIOUS
<1>1. ASSUME NEW key \in Keys, Press(key) PROVE OskInv'
  <2>1. CASE key \in {ModifierKey("shift"), ModifierKey("ctrl"), ModifierKey("alt"), CapsKey}
    <3>1. \/ key.kind = "modifier" /\ key.of \in {"shift", "ctrl", "alt"}
          \/ key.kind = "caps"
      <4>1. \A n : ModifierKey(n).kind = "modifier" /\ ModifierKey(n).of = n
        BY DEF ModifierKey
      <4>2. CapsKey.kind = "caps"
        BY DEF CapsKey
      <4> QED
        BY <2>1, <4>1, <4>2, Zenon
    <3>2. CASE key.kind = "modifier" /\ key.of \in {"shift", "ctrl", "alt"}
      <4>1. held' = Toggled(key.of) /\ UNCHANGED <<caps, typed>>
        BY <1>1, <3>2 DEF Press
      <4>2. held' \subseteq {"shift", "ctrl", "alt"}
        BY <3>2, <4>1 DEF Toggled, OskInv
      <4> QED
        BY <4>1, <4>2 DEF OskInv
    <3>3. CASE key.kind = "caps"
      <4>1. caps' = ~caps /\ UNCHANGED <<held, typed>>
        BY <1>1, <3>3 DEF Press
      <4> QED
        BY <4>1 DEF OskInv
    <3> QED
      BY <3>1, <3>2, <3>3
  <2>2. ASSUME key.kind \in {"text", "named"}
        PROVE  /\ typed' = [key |-> key, held |-> held, caps |-> caps, press |-> PressOf(key)]
               /\ held' = {} /\ caps' = caps
    BY <1>1, <2>2 DEF Press
  <2>3. CASE key.of \in NAMED_KEYS \ {"insert"} /\ key = NamedKey(key.of)
    <3>1. key.kind = "named"
      <4>1. \A n : NamedKey(n).kind = "named"
        BY DEF NamedKey
      <4> QED
        BY <2>3, <4>1, Zenon
    <3>2. /\ typed' = [key |-> key, held |-> held, caps |-> caps, press |-> PressOf(key)]
          /\ held' = {} /\ caps' = caps
      BY <2>2, <3>1
    <3>3. PressOf(key) = [key |-> [named |-> key.of, char |-> 0], mods |-> held,
                          text |-> IF key.of = "space" THEN <<32>> ELSE <<>>]
      <4>1. key.kind # "text"
        BY <3>1
      <4> QED
        BY <4>1, Zenon DEF PressOf
    <3>4. /\ typed'.key = key /\ typed'.held = held /\ typed'.caps = caps
          /\ typed'.press = PressOf(key)
      BY <3>2
    <3>5. NamedTyped(typed')
      BY <2>3, <3>1, <3>3, <3>4, Zenon DEF NamedTyped
    <3> QED
      BY <3>2, <3>4, <3>5 DEF OskInv
  <2>4. CASE /\ key = TextKey(key.base, key.shifted)
             /\ key.base \in Nat /\ key.shifted \in Nat
             /\ ~IsControl(key.base) /\ (key.shifted # 0 => ~IsControl(key.shifted))
    <3>1. key.kind = "text"
      <4>1. \A b, s : TextKey(b, s).kind = "text"
        BY DEF TextKey
      <4> QED
        BY <2>4, <4>1, Zenon
    <3>2. /\ typed' = [key |-> key, held |-> held, caps |-> caps, press |-> PressOf(key)]
          /\ held' = {} /\ caps' = caps
      BY <2>2, <3>1
    <3>3. OutputText(key.base, key.shifted) = LabelOf(key, held, caps)
      BY <2>4, OutputLabel DEF OskInv
    <3>4. PressOf(key) = [key |-> [named |-> "", char |-> LowerOf(key.base)], mods |-> held,
                          text |-> IF {"ctrl", "alt"} \subseteq held THEN <<>>
                                   ELSE <<LabelOf(key, held, caps)>>]
      BY <3>1, <3>3, Zenon DEF PressOf, TextSent
    <3>5. /\ typed'.key = key /\ typed'.held = held /\ typed'.caps = caps
          /\ typed'.press = PressOf(key)
      BY <3>2
    <3>6. TextTyped(typed')
      BY <2>4, <3>1, <3>4, <3>5, Zenon DEF TextTyped
    <3> QED
      BY <3>2, <3>5, <3>6 DEF OskInv
  <2> QED
    BY <2>1, <2>3, <2>4, KeysAssumption, Zenon
<1>2. ASSUME NEW l, ShowKeyboard(l) PROVE OskInv'
  BY <1>2 DEF ShowKeyboard, OskInv
<1>3. CASE UNCHANGED oskVars
  BY <1>3 DEF oskVars, OskInv
<1> QED
  BY <1>1, <1>2, <1>3 DEF OskNext

(* Ctrl+Shift+T as it is without overrides.                                *)
TabChord == [mods |-> {"ctrl", "shift"}, key |-> "t"]
TabSlot == <<"new_tab", "global">>

LEMMA TabParsed == ParseChord(CS("t")) = {TabChord}
<1> DEFINE s == CS("t")
<1>1. Last(s) = "t" /\ s # <<>> /\ Range(Front(s)) = {"ctrl", "shift"}
  <2>1. s = <<"ctrl", "shift", "t">>
    BY DEF CS
  <2>2. DOMAIN Front(s) = {1, 2} /\ Front(s)[1] = "ctrl" /\ Front(s)[2] = "shift"
    <3>1. Len(s) = 3 /\ s[1] = "ctrl" /\ s[2] = "shift"
      BY <2>1
    <3> DEFINE T == {"ctrl", "shift"}
               f == SubSeq(s, 1, 2)
    <3> HIDE DEF s
    <3>2. Front(s) = f
      BY <3>1 DEF Front
    <3>3. \A i \in 1..2 : s[i] \in T
      BY <3>1
    <3> HIDE DEF T
    <3>4. f \in Seq(T) /\ Len(f) = 2 /\ \A i \in 1..2 : f[i] = s[1 + i - 1]
      BY <3>3, SubSeqProperties
    <3> HIDE DEF f
    <3>5. f[1] = s[1] /\ f[2] = s[2] /\ DOMAIN f = 1..2 /\ 1..2 = {1, 2}
      BY <3>4
    <3> QED
      BY <3>1, <3>2, <3>5
  <2>3. \A f : DOMAIN f = {1, 2} => Range(f) = {f[1], f[2]}
    BY DEF Range
  <2>4. Last(s) = "t" /\ s # <<>>
    BY <2>1 DEF Last
  <2> QED
    BY <2>2, <2>3, <2>4
<1>2. NormalizeKey("t") = "t"
  <2>1. "t" \notin DOMAIN KeyAlias
    BY DEF KeyAlias
  <2> QED
    BY <2>1 DEF NormalizeKey
<1>3. "t" \in Characters \cup NAMED_KEYS
  BY Zenon DEF Characters
<1>4. {"ctrl", "shift"} \subseteq DOMAIN ModifierOf
  BY DEF ModifierOf
<1>5. {ModifierOf[m] : m \in {"ctrl", "shift"}} = {"ctrl", "shift"}
  <2>1. ModifierOf["ctrl"] = "ctrl" /\ ModifierOf["shift"] = "shift"
    BY DEF ModifierOf
  <2>2. \A a, b : {ModifierOf[m] : m \in {a, b}} = {ModifierOf[a], ModifierOf[b]}
    OBVIOUS
  <2> QED
    BY <2>1, <2>2
<1> HIDE DEF s
<1>6. ParseChord(s) = {[mods |-> {ModifierOf[m] : m \in Range(Front(s))}, key |-> NormalizeKey(Last(s))]}
  BY <1>1, <1>2, <1>3, <1>4, Zenon DEF ParseChord
<1> QED
  BY <1>1, <1>2, <1>5, <1>6, Zenon DEF TabChord, s

LEMMA TabChosen ==
  /\ TabSlot \in DOMAIN Chosen(<<>>, FALSE) /\ Chosen(<<>>, FALSE)[TabSlot] = CS("t")
<1>1. Chosen(<<>>, FALSE) = DefaultChosen(FALSE)
  <2> DEFINE o == <<>>
             chosen[n \in 0..Len(o)] == IF n = 0 THEN DefaultChosen(FALSE)
                ELSE IF Applicable(o[n]) THEN ApplyOverride(chosen[n - 1], o[n]) ELSE chosen[n - 1]
             Run(g) == g = [n \in 0..Len(o) |-> IF n = 0 THEN DefaultChosen(FALSE)
                ELSE IF Applicable(o[n]) THEN ApplyOverride(g[n - 1], o[n]) ELSE g[n - 1]]
             one == [n \in {0} |-> DefaultChosen(FALSE)]
  <2>1. Chosen(o, FALSE) = chosen[Len(o)]
    BY DEF Chosen
  <2>2. Len(o) = 0 /\ 0..0 = {0}
    OBVIOUS
  <2> HIDE DEF o
  <2>3. Run(one)
    <3>1. \A n \in {0} : DefaultChosen(FALSE) =
             IF n = 0 THEN DefaultChosen(FALSE)
                ELSE IF Applicable(o[n]) THEN ApplyOverride(one[n - 1], o[n]) ELSE one[n - 1]
      BY Zenon
    <3>2. one = [n \in {0} |-> IF n = 0 THEN DefaultChosen(FALSE)
                ELSE IF Applicable(o[n]) THEN ApplyOverride(one[n - 1], o[n]) ELSE one[n - 1]]
      <4> HIDE DEF one
      <4> QED
        BY <3>1, Zenon DEF one
    <3> QED
      BY <2>2, <3>2, Zenon
  <2>4. chosen = CHOOSE g : Run(g)
    OBVIOUS
  <2>5. Run(chosen)
    <3> HIDE DEF Run, chosen, one
    <3> QED
      BY <2>3, <2>4
  <2>6. chosen[0] = DefaultChosen(FALSE)
    <3>1. 0 \in 0..Len(o)
      BY <2>2
    <3> HIDE DEF chosen
    <3>2. chosen[0] = IF 0 = 0 THEN DefaultChosen(FALSE)
                ELSE IF Applicable(o[0]) THEN ApplyOverride(chosen[0 - 1], o[0]) ELSE chosen[0 - 1]
      BY <2>5, <3>1, Zenon
    <3> QED
      BY <3>2, Zenon
  <2> HIDE DEF chosen
  <2> QED
    BY <2>1, <2>2, <2>6, Zenon DEF o
<1>2. 1 \in DOMAIN Registry /\ Registry[1] \in Range(Registry)
  BY RegistryIds DEF Range
<1>3. Registry[1].id = "new_tab" /\ Registry[1].context = "global" /\ Registry[1].keys = CS("t")
  BY Zenon DEF Registry, Info
<1>4. InfoOf("new_tab") = Registry[1]
  <2>1. \A info \in Range(Registry) : info.id = "new_tab" => info = Registry[1]
    BY <1>3, RegistryIds DEF Range
  <2> HIDE DEF Registry
  <2> QED
    BY <1>2, <1>3, <2>1 DEF InfoOf
<1>5. TabSlot \in {<<info.id, info.context>> : info \in Range(Registry)}
  BY <1>2, <1>3 DEF TabSlot
<1>6. DefaultKeys(InfoOf("new_tab"), FALSE) = CS("t")
  BY <1>3, <1>4, Zenon DEF DefaultKeys
<1>7. TabSlot[1] = "new_tab"
  BY DEF TabSlot
<1>8. /\ TabSlot \in DOMAIN DefaultChosen(FALSE)
      /\ DefaultChosen(FALSE)[TabSlot] = DefaultKeys(InfoOf(TabSlot[1]), FALSE)
  <2> DEFINE D == {<<info.id, info.context>> : info \in Range(Registry)}
  <2>1. DefaultChosen(FALSE) = [k \in D |-> DefaultKeys(InfoOf(k[1]), FALSE)]
    BY DEF DefaultChosen
  <2> HIDE DEF D
  <2> QED
    BY <1>5, <2>1, Zenon DEF D
<1> QED
  BY <1>1, <1>6, <1>7, <1>8, Zenon

LEMMA TabFirst == \A slot \in Slots : Place(TabSlot) <= Place(slot)
<1> DEFINE At(id) == CHOOSE i \in DOMAIN Registry : Registry[i].id = id
<1>1. \A id \in ActionIds : At(id) \in 1..25 /\ Registry[At(id)].id = id
  <2> TAKE id \in ActionIds
  <2>1. \E i \in DOMAIN Registry : Registry[i].id = id
    BY RegistryIds, ActionIdsAre
  <2> QED
    BY <2>1, RegistryIds
<1>2. \A slot : Place(slot) = 2 * At(slot[1]) + IF slot[2] = "global" THEN 0 ELSE 1
  BY DEF Place
<1>3. \A slot \in Slots : slot[1] \in ActionIds
  BY DEF Slots
<1>4. At("new_tab") = 1
  <2>1. "new_tab" \in ActionIds /\ Registry[1].id = "new_tab"
    BY RegistryNames, RegistryIds, ActionIdsAre
  <2> HIDE DEF At
  <2>2. At("new_tab") \in 1..25 /\ Registry[At("new_tab")].id = Registry[1].id
    BY <1>1, <2>1
  <2> QED
    BY <2>2, RegistryIds
<1> HIDE DEF At
<1>5. Place(TabSlot) = 2
  <2>1. TabSlot[1] = "new_tab" /\ TabSlot[2] = "global"
    BY DEF TabSlot
  <2>2. Place(TabSlot) = 2 * At("new_tab") + 0
    BY <1>2, <2>1, Zenon
  <2> QED
    BY <1>4, <2>2
<1> TAKE slot \in Slots
<1>6. At(slot[1]) \in 1..25
  BY <1>1, <1>3
<1>7. Place(slot) = 2 * At(slot[1]) + IF slot[2] = "global" THEN 0 ELSE 1
  BY <1>2
<1> DEFINE n == At(slot[1])
<1>8. CASE slot[2] = "global"
  <2>1. Place(slot) = 2 * n + 0
    BY <1>7, <1>8
  <2> HIDE DEF n
  <2> QED
    BY <1>5, <1>6, <2>1 DEF n
<1>9. CASE slot[2] # "global"
  <2>1. Place(slot) = 2 * n + 1
    BY <1>7, <1>9
  <2> HIDE DEF n
  <2> QED
    BY <1>5, <1>6, <2>1 DEF n
<1> QED
  BY <1>8, <1>9

LEMMA TabBound == [context |-> "global", chord |-> TabChord, action |-> "new_tab"] \in Build(<<>>, FALSE).bindings
<1> DEFINE chosen == Chosen(<<>>, FALSE)
           wanted == Wanted(chosen)
           w == [place |-> Place(TabSlot), action |-> TabSlot[1], context |-> TabSlot[2], chord |-> TabChord]
<1>1. TabSlot[1] = "new_tab" /\ TabSlot[2] = "global"
  BY DEF TabSlot
<1>2. TabSlot \in DOMAIN chosen /\ chosen[TabSlot] = CS("t")
  BY TabChosen
<1>3. Bindable("global", TabChord)
  <2>1. HasModifier(TabChord)
    BY DEF HasModifier, TabChord
  <2> QED
    BY <2>1, Zenon DEF Bindable, BlocksTyping
<1>4. TabChord \in {c \in ParseChord(chosen[TabSlot]) : Bindable(TabSlot[2], c)}
  BY <1>1, <1>2, <1>3, TabParsed, Zenon
<1> HIDE DEF chosen
<1>5. w \in wanted
  <2> DEFINE From(slot) == {[place |-> Place(slot), action |-> slot[1], context |-> slot[2], chord |-> chord] :
            chord \in {c \in ParseChord(chosen[slot]) : Bindable(slot[2], c)}}
  <2>1. w \in From(TabSlot)
    BY <1>4
  <2>2. wanted = UNION {From(slot) : slot \in DOMAIN chosen}
    BY DEF Wanted
  <2> HIDE DEF w, wanted, From
  <2> QED
    BY <1>2, <2>1, <2>2
<1>6. \A v \in wanted : ~(v.place < Place(TabSlot))
  <2> TAKE v \in wanted
  <2>1. DOMAIN chosen \subseteq Slots
    <3>1. <<>> \in Seq(Nat)
      OBVIOUS
    <3> QED
      BY <3>1, ChosenSlots DEF chosen
  <2>2. PICK s \in DOMAIN chosen : v.place = Place(s)
    BY WantedAre
  <2>3. Place(TabSlot) \in Nat /\ Place(s) \in Nat
    BY <1>2, <2>1, RegistryPlaces
  <2>4. Place(TabSlot) <= Place(s)
    BY <2>1, TabFirst
  <2> QED
    BY <2>2, <2>3, <2>4
<1>7. w \in First(wanted)
  <2>1. w.place = Place(TabSlot)
    OBVIOUS
  <2> HIDE DEF w, wanted
  <2> QED
    BY <1>5, <1>6, <2>1, Zenon DEF First
<1>8. w.context = "global" /\ w.chord = TabChord /\ w.action = "new_tab"
  BY <1>1
<1> DEFINE unknown == {o.action : o \in {p \in Range(<<>>) : ~Applicable(p)}}
<1>9. Build(<<>>, FALSE).bindings =
        {[context |-> x.context, chord |-> x.chord, action |-> x.action] : x \in First(wanted)}
  <2>1. Build(<<>>, FALSE) = BindAll(chosen, First(wanted), unknown)
    BY DEF Build, BindChosen, chosen
  <2> HIDE DEF unknown, wanted
  <2>2. BindAll(chosen, First(wanted), unknown).bindings =
        {[context |-> x.context, chord |-> x.chord, action |-> x.action] : x \in First(wanted)}
    BY DEF BindAll
  <2> QED
    BY <2>1, <2>2
<1> HIDE DEF w, wanted
<1> QED
  BY <1>7, <1>8, <1>9, Zenon

LEMMA TabRuns == Resolve(Build(<<>>, FALSE), TabChord, TRUE) = {"new_tab"}
<1> DEFINE keymap == Build(<<>>, FALSE)
           tab == [context |-> "global", chord |-> TabChord, action |-> "new_tab"]
           runs == {b.action : b \in {c \in keymap.bindings : c.context = "global" /\ c.chord = TabChord}}
<1>1. tab \in keymap.bindings
  BY TabBound
<1>2. \A b, c \in keymap.bindings : b.chord = c.chord => b = c
  <2>1. <<>> \in Seq(Nat)
    OBVIOUS
  <2>2. Unambiguous(Chosen(<<>>, FALSE), Build(<<>>, FALSE))
    BY <2>1, KeymapUnambiguous
  <2> QED
    BY <2>2, Zenon DEF Unambiguous
<1>3. tab.chord = TabChord /\ tab.context = "global" /\ tab.action = "new_tab"
  OBVIOUS
<1> HIDE DEF keymap, tab
<1>4. {c \in keymap.bindings : c.context = "global" /\ c.chord = TabChord} = {tab}
  BY <1>1, <1>2, <1>3
<1>5. runs = {"new_tab"}
  BY <1>3, <1>4
<1> HIDE DEF runs
<1>6. Resolve(keymap, TabChord, TRUE) = IF runs # {} THEN runs
        ELSE {b.action : b \in {c \in keymap.bindings : c.context = "terminal" /\ c.chord = TabChord}}
  BY Zenon DEF Resolve, runs
<1>7. runs # {}
  BY <1>5
<1> QED
  BY <1>5, <1>6, <1>7, Zenon DEF keymap

LEMMA Utf8Type == \A c \in Nat : Utf8(c) \in Seq(Nat)
<1> TAKE c \in Nat
<1>1. c % 64 \in Nat /\ c \div 64 \in Nat
  OBVIOUS
<1>2. <<c>> \in Seq(Nat)
  OBVIOUS
<1>3. <<192 + (c \div 64), 128 + (c % 64)>> \in Seq(Nat)
  <2>1. \A a, b \in Nat : <<192 + a, 128 + b>> \in Seq(Nat)
    OBVIOUS
  <2> QED
    BY <1>1, <2>1
<1> QED
  BY <1>2, <1>3, Zenon DEF Utf8

Prefix(mods) == IF "alt" \in mods THEN <<ESC>> ELSE <<>>
LEMMA Prefixed ==
  \A mods : \A b \in Seq(Nat) : AltPrefixed(mods, b) = Prefix(mods) \o b
<1> TAKE mods
<1> TAKE b \in Seq(Nat)
<1>1. <<>> \o b = b
  BY ConcatEmptySeq
<1> QED
  BY <1>1, Zenon DEF AltPrefixed, Prefix

(* The key of a text without what the toolkit composed.                    *)
LEMMA BareSent ==
  ASSUME NEW press, "logo" \notin press.mods, press.key.named = "", press.key.char # 0,
         ~AltGr(press), {"ctrl", "alt"} \cap press.mods # {}
  PROVE  LET m == Counted(press, TRUE, FALSE)
         IN  /\ Encode(press, Plain, TRUE, FALSE) = EncodeText(<<press.key.char>>, m)
             /\ "ctrl" \in m <=> "ctrl" \in press.mods
             /\ "alt" \in m <=> "alt" \in press.mods
<1> DEFINE m == Counted(press, TRUE, FALSE)
<1>1. /\ "ctrl" \in m <=> "ctrl" \in press.mods
      /\ "alt" \in m <=> "alt" \in press.mods
  BY CountedMods
<1>2. {"ctrl", "alt"} \cap m # {}
  BY <1>1
<1>3. LET bare == {"ctrl", "alt"} \cap m # {} \/ Committed(press) = <<>>
      IN  Encode(press, Plain, TRUE, FALSE) =
               IF press.key.char = 0 THEN EncodeText(Committed(press), m)
               ELSE EncodeText(IF bare THEN <<press.key.char>> ELSE Committed(press), m)
  BY TextKeySent, Zenon
<1>4. Encode(press, Plain, TRUE, FALSE) = EncodeText(<<press.key.char>>, m)
  BY <1>2, <1>3, Zenon
<1> QED
  BY <1>1, <1>4

ControlOf(t) == IF "ctrl" \in t.held THEN CtrlChar(t.key.base) ELSE {}

(* A key of one text, with Ctrl or Alt.                                    *)
LEMMA HeldSent ==
  ASSUME NEW c \in Nat, NEW mods
  PROVE  LET control == IF "ctrl" \in mods THEN CtrlChar(c) ELSE {}
         IN  EncodeText(<<c>>, mods) =
               {Prefix(mods) \o b : b \in IF control = {} THEN {Utf8(c)} ELSE {<<k>> : k \in control}}
<1> DEFINE control == IF "ctrl" \in mods THEN CtrlChar(c) ELSE {}
           text == <<c>>
           core == IF control # {} THEN <<CHOOSE b \in control : TRUE>> ELSE Bytes(text)
<1>1. Len(text) = 1 /\ text[1] = c /\ ~NoText(text)
  BY DEF NoText
<1>2. Bytes(text) = Utf8(c)
  BY BytesOne
<1> HIDE DEF text
<1>3. Core(text, mods) = core
  <2> DEFINE con == IF Len(text) = 1 /\ "ctrl" \in mods THEN CtrlChar(text[1]) ELSE {}
  <2>1. con = control
    BY <1>1, Zenon
  <2>2. Core(text, mods) = IF con # {} THEN <<CHOOSE b \in con : TRUE>> ELSE Bytes(text)
    BY DEF Core
  <2> HIDE DEF con, control
  <2> QED
    BY <2>1, <2>2
<1>4. EncodeText(text, mods) = {AltPrefixed(mods, core)}
  BY <1>1, <1>3, TextEncoded, Zenon
<1>5. control = {} \/ \E x \in Nat : control = {x}
  BY ControlOne
<1>6. Utf8(c) \in Seq(Nat)
  BY Utf8Type
<1> HIDE DEF control
<1>7. CASE control = {}
  <2>1. core = Utf8(c)
    BY <1>2, <1>7, Zenon
  <2>2. EncodeText(text, mods) = {Prefix(mods) \o Utf8(c)}
    BY <1>4, <1>6, <2>1, Prefixed, Zenon
  <2>3. \A p, x : {p \o b : b \in {x}} = {p \o x}
    BY Zenon
  <2>4. (IF control = {} THEN {Utf8(c)} ELSE {<<k>> : k \in control}) = {Utf8(c)}
    BY <1>7, Zenon
  <2> QED
    BY <2>2, <2>3, <2>4, Zenon DEF text, control
<1>8. ASSUME NEW x \in Nat, control = {x}
      PROVE  EncodeText(text, mods) =
               {Prefix(mods) \o b : b \in IF control = {} THEN {Utf8(c)} ELSE {<<k>> : k \in control}}
  <2>1. control # {}
    BY <1>8
  <2>2. (CHOOSE b \in control : TRUE) = x
    BY <1>8
  <2>3. core = <<x>>
    BY <2>1, <2>2, Zenon
  <2>4. <<x>> \in Seq(Nat)
    OBVIOUS
  <2>5. EncodeText(text, mods) = {Prefix(mods) \o <<x>>}
    BY <1>4, <2>3, <2>4, Prefixed, Zenon
  <2>6. \A p, y : {p \o b : b \in {y}} = {p \o y}
    BY Zenon
  <2>7. \A y : {<<k>> : k \in {y}} = {<<y>>}
    BY Zenon
  <2>8. (IF control = {} THEN {Utf8(c)} ELSE {<<k>> : k \in control}) = {<<x>>}
    BY <1>8, <2>1, <2>7, Zenon
  <2> QED
    BY <2>5, <2>6, <2>8, Zenon
<1> QED
  BY <1>5, <1>7, <1>8, Zenon DEF text, control

(* For any key, text and modifiers: the logo key sends nothing; what was   *)
(* composed is sent as it is where neither Ctrl nor Alt counts, and under  *)
(* AltGr; Alt sends Escape and the key by itself, its control code or its  *)
(* character without Shift, and nothing of what was composed (ui/input.rs  *)
(* encode).                                                                *)
THEOREM PressArrives ==
  ASSUME NEW K, NEW M, NEW T, NEW press \in [key : K, mods : M, text : T],
         press.key.char \in Nat, NEW option, NEW mac
  PROVE  PressReach(press, option, mac)
<1> DEFINE sent == Encode(press, Plain, option, mac)
           composed == Committed(press)
           textKey == press.key.named = ""
           effective == IF option \/ ~mac THEN press.mods ELSE press.mods \ {"alt"}
           m == Counted(press, option, mac)
<1>1. "logo" \in press.mods => sent = {}
  BY Zenon DEF Encode
<1>2. /\ "ctrl" \in m <=> "ctrl" \in press.mods /\ ~AltGr(press)
      /\ "alt" \in m <=> "alt" \in press.mods /\ ~AltGr(press) /\ (option \/ ~mac)
  BY CountedMods
<1>3. ASSUME "ctrl" \notin m, "alt" \notin m, textKey, "logo" \notin press.mods, composed # <<>>
      PROVE  sent = {Bytes(composed)}
  <2>1. {"ctrl", "alt"} \cap m = {}
    BY <1>3
  <2>2. sent = EncodeText(composed, m)
    BY <1>3, <2>1, TextKeySent, Zenon
  <2>3. EncodeText(composed, m) = {AltPrefixed(m, Core(composed, m))}
    <3>1. ~NoText(composed)
      BY <1>3, Zenon DEF NoText
    <3> QED
      BY <3>1, TextEncoded, Zenon
  <2>4. Core(composed, m) = Bytes(composed)
    BY <1>3, CoreWithout, Zenon
  <2>5. AltPrefixed(m, Core(composed, m)) = Core(composed, m)
    BY <1>3, Zenon DEF AltPrefixed
  <2> QED
    BY <2>2, <2>3, <2>4, <2>5
<1>4. ASSUME textKey, composed # <<>>, "logo" \notin press.mods, ~AltGr(press),
             effective \cap {"ctrl", "alt"} = {}
      PROVE  sent = {Bytes(composed)}
  <2>1. "ctrl" \notin press.mods /\ ((option \/ ~mac) => "alt" \notin press.mods)
    <3>1. "ctrl" \notin effective /\ "alt" \notin effective
      BY <1>4
    <3> QED
      BY <3>1
  <2>2. "ctrl" \notin m /\ "alt" \notin m
    BY <1>2, <2>1
  <2> QED
    BY <1>3, <1>4, <2>2
<1>5. ASSUME textKey, press.key.char # 0, AltGr(press), "logo" \notin press.mods
      PROVE  sent = {Bytes(composed)}
  <2>1. composed # <<>>
    BY <1>5, Zenon DEF AltGr
  <2>2. "ctrl" \notin m /\ "alt" \notin m
    BY <1>2, <1>5
  <2> QED
    BY <1>3, <1>5, <2>1, <2>2
<1>6. ASSUME textKey, press.key.char # 0, ~AltGr(press), effective = press.mods, "alt" \in press.mods,
             "logo" \notin press.mods
      PROVE  sent = {<<ESC>> \o b : b \in BareKey(press)}
  <2> DEFINE c == press.key.char
             control == IF "ctrl" \in m THEN CtrlChar(c) ELSE {}
  <2>1. option \/ ~mac
    <3> SUFFICES ASSUME ~(option \/ ~mac) PROVE FALSE
      OBVIOUS
    <3>1. effective = press.mods \ {"alt"}
      OBVIOUS
    <3> QED
      BY <1>6, <3>1
  <2>2. "alt" \in m /\ ("ctrl" \in m <=> "ctrl" \in press.mods)
    BY <1>2, <1>6, <2>1, Zenon
  <2>3. sent = EncodeText(<<c>>, m)
    <3>1. {"ctrl", "alt"} \cap m # {}
      BY <2>2
    <3> QED
      BY <1>6, <3>1, TextKeySent, Zenon
  <2> HIDE DEF m
  <2>4. EncodeText(<<c>>, m) =
          {Prefix(m) \o b : b \in IF control = {} THEN {Utf8(c)} ELSE {<<k>> : k \in control}}
    BY HeldSent
  <2>5. Prefix(m) = <<ESC>>
    BY <2>2, Zenon DEF Prefix
  <2>6. (IF control = {} THEN {Utf8(c)} ELSE {<<k>> : k \in control}) = BareKey(press)
    BY <2>2, Zenon DEF BareKey
  <2> HIDE DEF control
  <2> QED
    BY <2>3, <2>4, <2>5, <2>6, Zenon
<1> QED
  BY <1>1, <1>4, <1>5, <1>6, Zenon DEF PressReach

LEMMA GlyphOfT == 116 \in DOMAIN Glyph /\ Glyph[116] = "t"
  BY DEF Glyph

(* What a key of the keyboard sends, of any press it has made.             *)
TextReach(t) ==
  LET sent == Encode(t.press, Plain, TRUE, FALSE)
      control == ControlOf(t)
  IN /\ t.held \cap {"ctrl", "alt"} = {} => sent = {Utf8(LabelOf(t.key, t.held, t.caps))}
     /\ "alt" \in t.held \/ control # {} =>
          sent = {Prefix(t.held) \o c : c \in IF control = {} THEN {Utf8(LowerOf(t.key.base))}
                                              ELSE {<<b>> : b \in control}}
     /\ t.key.base = 116 /\ t.held = {"ctrl", "shift"} =>
          OnKey(t.press, Build(<<>>, FALSE), Plain, TRUE, FALSE).run = {"new_tab"}

LEMMA LabelType ==
  ASSUME NEW t, TextTyped(t)
  PROVE  LabelOf(t.key, t.held, t.caps) \in Nat /\ ~IsControl(LabelOf(t.key, t.held, t.caps))
<1>1. UpperOf(t.key.base) \in Nat /\ ~IsControl(UpperOf(t.key.base))
  BY Cases DEF TextTyped
<1> QED
  BY <1>1, Zenon DEF LabelOf, TextTyped

LEMMA TextArrives ==
  ASSUME NEW t, TextTyped(t), t.held \subseteq {"shift", "ctrl", "alt"}
  PROVE  TextReach(t)
<1> DEFINE press == t.press
           char == LowerOf(t.key.base)
           label == LabelOf(t.key, t.held, t.caps)
           sent == Encode(press, Plain, TRUE, FALSE)
           both == {"ctrl", "alt"} \subseteq t.held
           text == IF both THEN <<>> ELSE <<label>>
<1>1. /\ press = [key |-> [named |-> "", char |-> char], mods |-> t.held, text |-> text]
      /\ t.key.base \in Nat /\ ~IsControl(t.key.base)
  BY Zenon DEF TextTyped
<1>2. /\ press.key.named = "" /\ press.key.char = char /\ press.mods = t.held
      /\ press.text = IF both THEN <<>> ELSE <<label>>
  <2>1. \A a, b, c, d : LET p == [key |-> [named |-> a, char |-> b], mods |-> c, text |-> d]
                       IN  p.key.named = a /\ p.key.char = b /\ p.mods = c /\ p.text = d
    OBVIOUS
  <2> HIDE DEF press, char, text
  <2>2. press.key.named = "" /\ press.key.char = char /\ press.mods = t.held /\ press.text = text
    BY <1>1, <2>1, Zenon
  <2> QED
    BY <2>2, Zenon DEF text
<1>3. press \in [key : {press.key}, mods : {press.mods}, text : {press.text}]
  BY <1>1
<1>4. "logo" \notin t.held
  OBVIOUS
<1>5. label \in Nat /\ ~IsControl(label)
  BY LabelType
<1>6. char \in Nat /\ char # 0 /\ CtrlChar(char) = CtrlChar(t.key.base)
  BY <1>1, Cases, ControlLower
<1> HIDE DEF press, char, label
<1>7. Committed(press) = IF both THEN <<>> ELSE <<label>>
  <2>1. \A i \in DOMAIN <<label>> : i = 1
    OBVIOUS
  <2>2. <<label>> # <<>> /\ 1 \in DOMAIN <<label>> /\ <<label>>[1] = label
    OBVIOUS
  <2>3. CASE both
    <3>1. press.text = <<>>
      BY <1>2, <2>3
    <3>2. Committed(press) = <<>>
      BY <3>1, Zenon DEF Committed
    <3> QED
      BY <2>3, <3>2
  <2>4. CASE ~both
    <3>1. press.text = <<label>>
      BY <1>2, <2>4
    <3>2. Committed(press) = <<label>>
      BY <1>5, <2>2, <3>1, Zenon DEF Committed
    <3> QED
      BY <2>4, <3>2
  <2> QED
    BY <2>3, <2>4
<1>8. ~AltGr(press)
  <2>1. CASE both
    BY <1>7, <2>1, Zenon DEF AltGr
  <2>2. CASE ~both
    BY <1>2, <2>2, Zenon DEF AltGr
  <2> QED
    BY <2>1, <2>2
<1>9. ASSUME t.held \cap {"ctrl", "alt"} = {} PROVE sent = {Utf8(label)}
  <2>1. ~both
    BY <1>9
  <2>2. Committed(press) = <<label>>
    BY <1>7, <2>1, Zenon
  <2>3. <<label>> # <<>>
    OBVIOUS
  <2>4. PressReach(press, TRUE, FALSE)
    <3>1. press.key.char \in Nat
      BY <1>2, <1>6
    <3> QED
      BY <1>3, <3>1, PressArrives
  <2>5. sent = {Bytes(<<label>>)}
    BY <1>2, <1>4, <1>8, <1>9, <2>2, <2>3, <2>4, Zenon DEF PressReach
  <2> QED
    BY <2>5, BytesOne
<1>10. ASSUME "alt" \in t.held \/ ControlOf(t) # {}
       PROVE  sent = {Prefix(t.held) \o c : c \in IF ControlOf(t) = {} THEN {Utf8(char)}
                                                  ELSE {<<b>> : b \in ControlOf(t)}}
  <2> DEFINE m == Counted(press, TRUE, FALSE)
             control == IF "ctrl" \in m THEN CtrlChar(char) ELSE {}
  <2>1. {"ctrl", "alt"} \cap press.mods # {}
    <3>1. "alt" \in t.held \/ "ctrl" \in t.held
      BY <1>10, Zenon DEF ControlOf
    <3> QED
      BY <1>2, <3>1
  <2>2. "logo" \notin press.mods /\ press.key.named = "" /\ press.key.char # 0
    BY <1>2, <1>4, <1>6
  <2>3. /\ sent = EncodeText(<<press.key.char>>, m)
        /\ "ctrl" \in m <=> "ctrl" \in press.mods
        /\ "alt" \in m <=> "alt" \in press.mods
    BY <1>8, <2>1, <2>2, BareSent
  <2>4. control = ControlOf(t) /\ Prefix(m) = Prefix(t.held)
    BY <1>2, <1>6, <2>3, Zenon DEF ControlOf, Prefix
  <2> HIDE DEF m
  <2>5. EncodeText(<<char>>, m) =
          {Prefix(m) \o b : b \in IF control = {} THEN {Utf8(char)} ELSE {<<k>> : k \in control}}
    BY <1>6, HeldSent
  <2> HIDE DEF control
  <2> QED
    BY <1>2, <2>3, <2>4, <2>5, Zenon
<1>11. ASSUME t.key.base = 116, t.held = {"ctrl", "shift"}
       PROVE  OnKey(press, Build(<<>>, FALSE), Plain, TRUE, FALSE).run = {"new_tab"}
  <2>1. char = 116
    BY <1>11, SMT DEF char, LowerOf
  <2>2. LowerOf(char) = 116
    BY <2>1, SMT DEF LowerOf
  <2>3. 116 \in DOMAIN Glyph /\ Glyph[116] = "t"
    BY GlyphOfT
  <2>4. ChordOf(press) = {TabChord}
    <3>1. ChordOf(press) = {[mods |-> press.mods, key |-> Glyph[c]] : c \in {LowerOf(press.key.char)} \cap DOMAIN Glyph}
      BY <1>2, Zenon DEF ChordOf
    <3>2. {LowerOf(press.key.char)} \cap DOMAIN Glyph = {116}
      <4>1. LowerOf(press.key.char) = 116
        BY <1>2, <2>2, Zenon
      <4> QED
        BY <2>3, <4>1
    <3>3. press.mods = {"ctrl", "shift"}
      BY <1>2, <1>11
    <3>4. \A g : {[mods |-> press.mods, key |-> Glyph[c]] : c \in {g}} = {[mods |-> press.mods, key |-> Glyph[g]]}
      BY Zenon
    <3> QED
      BY <2>3, <3>1, <3>2, <3>3, <3>4, Zenon DEF TabChord
  <2>5. UNION {Resolve(Build(<<>>, FALSE), chord, TRUE) : chord \in ChordOf(press)}
          = Resolve(Build(<<>>, FALSE), TabChord, TRUE)
    <3>1. \A k, g : UNION {Resolve(k, chord, TRUE) : chord \in {g}} = Resolve(k, g, TRUE)
      OBVIOUS
    <3> QED
      BY <2>4, <3>1, Zenon
  <2>6. \A k : OnKey(press, k, Plain, TRUE, FALSE).run
                 = UNION {Resolve(k, chord, TRUE) : chord \in ChordOf(press)}
    BY DEF OnKey
  <2> QED
    BY <2>5, <2>6, TabRuns, Zenon
<1> QED
  BY <1>9, <1>10, <1>11, Zenon DEF TextReach, press, char, label

NamedReached(t) ==
  LET sent == Encode(t.press, Plain, TRUE, FALSE)
  IN IF t.key.of = "space"
       THEN ~({"ctrl", "alt"} \subseteq t.held) =>
              sent = {Prefix(t.held) \o (IF "ctrl" \in t.held THEN <<0>> ELSE <<32>>)}
       ELSE sent = {EncodeNamed(t.key.of, t.held, Plain)}

LEMMA NamedKeyArrives ==
  ASSUME NEW t, NamedTyped(t), t.held \subseteq {"shift", "ctrl", "alt"}
  PROVE  NamedReached(t)
<1> DEFINE press == t.press
           sent == Encode(press, Plain, TRUE, FALSE)
           m == Counted(press, TRUE, FALSE)
<1>1. /\ press.key.named = t.key.of /\ press.mods = t.held
      /\ press.text = IF t.key.of = "space" THEN <<32>> ELSE <<>>
  BY DEF NamedTyped
<1>2. t.key.of \in NAMED_KEYS
  BY DEF NamedTyped
<1>3. "logo" \notin t.held
  OBVIOUS
<1> HIDE DEF press
<1>4. CASE t.key.of = "space"
  <2> SUFFICES ASSUME ~({"ctrl", "alt"} \subseteq t.held)
               PROVE  sent = {Prefix(t.held) \o (IF "ctrl" \in t.held THEN <<0>> ELSE <<32>>)}
    BY <1>4, Zenon DEF NamedReached, press
  <2>1. ~AltGr(press)
    BY <1>1, Zenon DEF AltGr
  <2>2. sent = EncodeText(<<32>>, m)
    BY <1>1, <1>3, <1>4, Zenon DEF Encode, Counted
  <2>3. /\ "ctrl" \in m <=> "ctrl" \in press.mods /\ ~AltGr(press)
        /\ "alt" \in m <=> "alt" \in press.mods /\ ~AltGr(press) /\ (TRUE \/ ~FALSE)
    BY CountedMods
  <2>4. ("ctrl" \in m <=> "ctrl" \in t.held) /\ Prefix(m) = Prefix(t.held)
    BY <1>1, <2>1, <2>3, Zenon DEF Prefix
  <2> HIDE DEF m
  <2> DEFINE control == IF "ctrl" \in m THEN CtrlChar(32) ELSE {}
  <2>5. EncodeText(<<32>>, m) =
          {Prefix(m) \o b : b \in IF control = {} THEN {Utf8(32)} ELSE {<<k>> : k \in control}}
    BY HeldSent
  <2>6. CtrlChar(32) = {0}
    BY SMT DEF CtrlChar
  <2>7. Utf8(32) = <<32>>
    BY SMT DEF Utf8
  <2>8. (IF control = {} THEN {Utf8(32)} ELSE {<<k>> : k \in control})
           = {IF "ctrl" \in t.held THEN <<0>> ELSE <<32>>}
    <3>1. \A y : {<<k>> : k \in {y}} = {<<y>>}
      BY Zenon
    <3>2. {0} # {}
      OBVIOUS
    <3>3. CASE "ctrl" \in t.held
      <4>1. control = {0}
        BY <2>4, <2>6, <3>3, Zenon
      <4> HIDE DEF control
      <4> QED
        BY <3>1, <3>2, <3>3, <4>1, Zenon
    <3>4. CASE "ctrl" \notin t.held
      <4>1. control = {}
        BY <2>4, <3>4, Zenon
      <4> HIDE DEF control
      <4> QED
        BY <2>7, <3>4, <4>1, Zenon
    <3> QED
      BY <3>3, <3>4
  <2>9. \A p, y : {p \o b : b \in {y}} = {p \o y}
    BY Zenon
  <2> HIDE DEF control
  <2> QED
    BY <2>2, <2>4, <2>5, <2>8, <2>9, ZenonT(40)
<1>5. CASE t.key.of # "space"
  <2>1. press.text = <<>>
    BY <1>1, <1>5
  <2>2. Committed(press) = <<>>
    BY <2>1, Zenon DEF Committed
  <2>3. ~AltGr(press)
    BY <2>2, Zenon DEF AltGr
  <2>4. m = t.held
    <3>1. m = press.mods \cap ({"shift"} \cup ({"ctrl"} \cup {"alt"}))
      BY <2>3, Zenon DEF Counted
    <3> QED
      BY <1>1, <3>1
  <2>5. sent = {EncodeNamed(t.key.of, m, Plain)}
    BY <1>1, <1>2, <1>3, <1>5, Zenon DEF Encode, Counted
  <2> QED
    BY <1>5, <2>4, <2>5, Zenon DEF NamedReached, press
<1> QED
  BY <1>4, <1>5

LEMMA OskArrives == OskInv => OskReach
<1> SUFFICES ASSUME OskInv PROVE OskReach
  OBVIOUS
<1>1. Label(typed.key) = LabelOf(typed.key, typed.held, typed.caps)
  BY Zenon DEF Label, LabelOf
<1>2. CASE typed.key.kind = "text"
  <2>1. TextTyped(typed)
    BY <1>2 DEF OskInv, NamedTyped
  <2>2. TextReach(typed)
    BY <2>1, TextArrives DEF OskInv
  <2> QED
    BY <1>1, <1>2, <2>2, Zenon DEF OskReach, TextReach, ControlOf, Prefix
<1>3. CASE typed.key.kind = "named"
  <2>1. NamedTyped(typed)
    BY <1>3 DEF OskInv, TextTyped
  <2>2. NamedReached(typed)
    BY <2>1, NamedKeyArrives DEF OskInv
  <2>3. "text" # "named"
    OBVIOUS
  <2> QED
    BY <1>3, <2>2, <2>3, Zenon DEF OskReach, NamedReached, Prefix
<1>4. CASE typed.key.kind \notin {"text", "named"}
  BY <1>4, Zenon DEF OskReach
<1> QED
  BY <1>2, <1>3, <1>4

(***************************************************************************)
(* The pointer and the fingers                                             *)
(***************************************************************************)
PointerType ==
  /\ reporting \in BOOLEAN /\ dragging \in BOOLEAN
  /\ copy_on_select \in BOOLEAN /\ touch_scroll \in BOOLEAN
  /\ selection = [is |-> selection.is, kind |-> selection.kind, from |-> selection.from,
                  to |-> selection.to]
  /\ touch = [is |-> touch.is, finger |-> touch.finger, last |-> touch.last,
              moved |-> touch.moved]

(* While the left button selects, the program does not ask for the mouse;  *)
(* after it is released, nothing drags.                                    *)
GestureInv ==
  /\ gesture \in {"none", "plain", "shift", "done"}
  /\ gesture = "plain" =>
       ~reporting /\ dragging /\ selection.is /\ selection.to = CellAt(pointer)
  /\ gesture = "done" => ~dragging /\ (copy_on_select => copied = selection)

(* The tracked finger is down; until it has moved, the track stays where   *)
(* it was put, and from then on it is where the finger is.                 *)
TouchInv ==
  /\ fingers \in [Fingers -> Heights \cup {Up}]
  /\ touch.is => LET y == fingers[touch.finger] IN
       /\ touch.finger \in Fingers /\ y \in Heights /\ start \in Heights
       /\ touch.moved \in BOOLEAN
       /\ IF touch.moved
            THEN touch.last = y /\ scrolled = IF touch_scroll THEN y - start ELSE 0
            ELSE touch.last = start /\ scrolled = 0 /\ Abs(y - start) < TapSlop

PointerInv == PointerType /\ GestureInv /\ TouchInv

LEMMA PointerFollows == PointerInv => PointerFollowed
  BY DEF PointerInv, GestureInv, TouchInv, PointerFollowed

LEMMA PointerStarts == PointerInit => PointerInv
<1> SUFFICES ASSUME PointerInit PROVE PointerInv
  OBVIOUS
<1>1. selection = [is |-> selection.is, kind |-> selection.kind, from |-> selection.from,
                   to |-> selection.to]
  <2>1. CASE selection = NoSelection
    BY <2>1 DEF NoSelection
  <2>2. CASE selection = [NoSelection EXCEPT !.is = TRUE]
    BY <2>2 DEF NoSelection
  <2> QED
    BY <2>1, <2>2 DEF PointerInit
<1>2. PointerType
  BY <1>1 DEF PointerInit, PointerType, NoTouch
<1>3. GestureInv /\ TouchInv
  BY DEF PointerInit, GestureInv, TouchInv, NoTouch
<1> QED
  BY <1>2, <1>3 DEF PointerInv

(* What the mouse does, one action at a time.                              *)
LEMMA MousePressed ==
  ASSUME PointerInv, NEW button, NEW soon, ButtonPressed(button, soon)
  PROVE  PointerInv'
<1>1. PointerType'
  BY DEF ButtonPressed, PointerInv, PointerType, touchVars
<1>2. TouchInv'
  BY DEF ButtonPressed, PointerInv, TouchInv, touchVars
<1>3. GestureInv'
  <2>1. gesture' \in {"none", "plain", "shift"}
    BY DEF ButtonPressed
  <2>2. ASSUME gesture' = "plain"
        PROVE  (~reporting /\ dragging /\ selection.is /\ selection.to = CellAt(pointer))'
    <3>1. button = "left" /\ "shift" \notin modifiers /\ ~reporting
      BY <2>2 DEF ButtonPressed
    <3>2. ~Reported(button, "shift" \in modifiers)
      BY <3>1 DEF Reported
    <3> QED
      BY <3>1, <3>2 DEF ButtonPressed, CellAt
  <2> QED
    BY <2>1, <2>2 DEF GestureInv
<1> QED
  BY <1>1, <1>2, <1>3 DEF PointerInv

LEMMA MouseMoved ==
  ASSUME PointerInv, NEW place, CursorMoved(place)
  PROVE  PointerInv'
<1>1. PointerType'
  BY DEF CursorMoved, PointerInv, PointerType, touchVars, Dragged
<1>2. TouchInv'
  BY DEF CursorMoved, PointerInv, TouchInv, touchVars
<1>3. GestureInv'
  <2>1. ASSUME gesture = "plain" PROVE selection'.is /\ selection'.to = CellAt(pointer)'
    BY <2>1 DEF CursorMoved, PointerInv, PointerType, GestureInv, Dragged, Reported, CellAt
  <2>2. ASSUME gesture = "done" PROVE selection' = selection
    BY <2>2 DEF CursorMoved, PointerInv, GestureInv, Dragged
  <2> QED
    BY <2>1, <2>2 DEF CursorMoved, PointerInv, GestureInv
<1> QED
  BY <1>1, <1>2, <1>3 DEF PointerInv

LEMMA MouseReleased ==
  ASSUME PointerInv, NEW button, ButtonReleased(button)
  PROVE  PointerInv'
<1>1. PointerType'
  BY DEF ButtonReleased, PointerInv, PointerType, touchVars
<1>2. TouchInv'
  BY DEF ButtonReleased, PointerInv, TouchInv, touchVars
<1>3. GestureInv'
  <2>1. gesture' \in {"none", "done"} /\ dragging' = FALSE
    BY DEF ButtonReleased
  <2>2. ASSUME gesture' = "done", copy_on_select PROVE copied' = selection'
    <3>1. button = "left" /\ gesture = "plain" /\ ~reporting
      BY <2>2 DEF ButtonReleased, PointerInv, GestureInv
    <3> QED
      BY <2>2, <3>1 DEF ButtonReleased, Reported
  <2> QED
    BY <2>1, <2>2 DEF GestureInv, ButtonReleased
<1> QED
  BY <1>1, <1>2, <1>3 DEF PointerInv

LEMMA MouseKept == ASSUME PointerInv, MouseNext PROVE PointerInv'
<1>1. ASSUME NEW mods, ModifiersChanged(mods) PROVE PointerInv'
  BY <1>1 DEF ModifiersChanged, PointerInv, PointerType, GestureInv, TouchInv, touchVars, CellAt
<1>2. CASE ModesChange
  BY <1>2 DEF ModesChange, PointerInv, PointerType, GestureInv, TouchInv, touchVars, CellAt
<1> QED
  BY <1>1, <1>2, MousePressed, MouseMoved, MouseReleased DEF MouseNext

(* A finger goes down: if it is tracked, it has moved by nothing.          *)
LEMMA FingerDown ==
  ASSUME PointerInv, NEW f \in Fingers, NEW y \in Heights, NEW inside, FingerPressed(f, y, inside)
  PROVE  PointerInv'
<1>1. Up \notin Heights /\ y \in Nat /\ TapSlop \in Nat \ {0}
  BY PointerAssumption DEF Up
<1>2. GestureInv'
  BY DEF FingerPressed, mouseVars, PointerInv, GestureInv, CellAt
<1>3. fingers' = [fingers EXCEPT ![f] = y] /\ fingers' \in [Fingers -> Heights \cup {Up}]
  BY DEF FingerPressed, PointerInv, TouchInv
<1>4. CASE inside /\ ~touch.is
  <2>1. /\ touch' = [is |-> TRUE, finger |-> f, last |-> y, moved |-> FALSE]
        /\ start' = y /\ scrolled' = 0
    BY <1>4 DEF FingerPressed
  <2>2. fingers'[f] = y /\ Abs(y - y) < TapSlop
    BY <1>1, <1>3 DEF PointerInv, TouchInv, Abs
  <2>3. TouchInv'
    BY <1>3, <2>1, <2>2 DEF TouchInv
  <2>4. PointerType'
    BY <2>1 DEF FingerPressed, mouseVars, PointerInv, PointerType
  <2> QED
    BY <1>2, <2>3, <2>4 DEF PointerInv
<1>5. CASE ~(inside /\ ~touch.is)
  <2>1. UNCHANGED <<touch, start, scrolled, touch_scroll>>
    BY <1>5 DEF FingerPressed
  <2>2. ASSUME touch.is PROVE touch.finger # f
    BY <2>2, <1>1 DEF FingerPressed, PointerInv, TouchInv
  <2>3. ASSUME touch.is PROVE fingers'[touch.finger] = fingers[touch.finger]
    BY <2>2, <2>3, <1>3 DEF PointerInv, TouchInv
  <2>4. TouchInv'
    BY <1>3, <2>1, <2>3 DEF PointerInv, TouchInv
  <2>5. PointerType'
    BY <2>1 DEF FingerPressed, mouseVars, PointerInv, PointerType
  <2> QED
    BY <1>2, <2>4, <2>5 DEF PointerInv
<1> QED
  BY <1>4, <1>5

(* It moves: inside the slop the track stays, and is made up for by the    *)
(* first step out of it.                                                   *)
LEMMA FingerSlides ==
  ASSUME PointerInv, NEW f \in Fingers, NEW y \in Heights, FingerMoved(f, y)
  PROVE  PointerInv'
<1>1. Heights \subseteq Nat /\ TapSlop \in Nat \ {0}
  BY PointerAssumption
<1>6. \A h \in Heights : h \in Int
  BY <1>1
<1>2. GestureInv'
  BY DEF FingerMoved, mouseVars, PointerInv, GestureInv, CellAt
<1>3. fingers' = [fingers EXCEPT ![f] = y] /\ fingers' \in [Fingers -> Heights \cup {Up}]
  BY DEF FingerMoved, PointerInv, TouchInv
<1>4. CASE touch.is /\ touch.finger = f
  <2>1. touch' = Tracked(y) /\ start' = start /\ touch_scroll' = touch_scroll
    BY <1>4 DEF FingerMoved
  <2>2. PointerType'
    BY <2>1 DEF FingerMoved, mouseVars, PointerInv, PointerType, Tracked
  <2>3. /\ touch'.is /\ touch'.finger = f /\ fingers'[f] = y
        /\ touch.last \in Int /\ start \in Heights /\ scrolled \in Int /\ y \in Int /\ start \in Int
    BY <1>1, <1>3, <1>4, <2>1 DEF PointerInv, PointerType, TouchInv, Tracked
  <2>4. ASSUME touch'.moved = TRUE, touch'.last = y,
               scrolled' = IF touch_scroll THEN y - start ELSE 0
        PROVE  PointerInv'
    <3>1. TouchInv'
      BY <1>3, <2>1, <2>3, <2>4 DEF TouchInv
    <3> QED
      BY <1>2, <2>2, <3>1 DEF PointerInv
  <2>5. CASE touch.moved \/ Abs(y - touch.last) >= TapSlop
    <3>1. touch'.moved = TRUE /\ touch'.last = y
      BY <2>1, <2>5 DEF Tracked, PointerInv, PointerType
    <3>2. scrolled' = IF touch_scroll THEN scrolled + (y - touch.last) ELSE scrolled
      BY <3>1 DEF FingerMoved
    <3>3. CASE touch.moved
      <4>1. scrolled = IF touch_scroll THEN touch.last - start ELSE 0
        BY <1>4, <3>3 DEF PointerInv, TouchInv
      <4>2. scrolled' = IF touch_scroll THEN y - start ELSE 0
        BY <2>3, <3>2, <4>1
      <4> QED
        BY <2>4, <3>1, <4>2
    <3>4. CASE ~touch.moved
      <4>1. scrolled = 0 /\ touch.last = start
        BY <1>4, <3>4 DEF PointerInv, TouchInv
      <4>2. scrolled' = IF touch_scroll THEN y - start ELSE 0
        BY <2>3, <3>2, <4>1
      <4> QED
        BY <2>4, <3>1, <4>2
    <3> QED
      BY <3>3, <3>4
  <2>6. CASE ~(touch.moved \/ Abs(y - touch.last) >= TapSlop)
    <3>1. touch' = touch /\ ~touch.moved /\ touch.last = start /\ scrolled = 0
      BY <1>4, <2>1, <2>6 DEF Tracked, PointerInv, TouchInv
    <3>2. Abs(y - start) < TapSlop
      BY <1>1, <2>3, <2>6, <3>1 DEF Abs
    <3>3. scrolled' = scrolled
      BY <3>1 DEF FingerMoved
    <3> QED
      BY <1>2, <1>3, <2>1, <2>2, <2>3, <3>1, <3>2, <3>3 DEF TouchInv, PointerInv
  <2> QED
    BY <2>5, <2>6
<1>5. CASE ~(touch.is /\ touch.finger = f)
  <2>1. touch' = touch /\ start' = start /\ touch_scroll' = touch_scroll
    BY <1>5 DEF FingerMoved
  <2>2. ASSUME touch.is PROVE scrolled' = scrolled /\ fingers'[touch.finger] = fingers[touch.finger]
    <3>1. ASSUME touch.moved PROVE scrolled' = scrolled
      <4>1. /\ touch.last = fingers[touch.finger] /\ fingers[touch.finger] \in Heights
            /\ start \in Heights
            /\ scrolled = IF touch_scroll THEN fingers[touch.finger] - start ELSE 0
        BY <2>2, <3>1 DEF PointerInv, TouchInv
      <4>2. fingers[touch.finger] \in Int /\ start \in Int
        BY <1>6, <4>1, Zenon
      <4>4. touch.last \in Int /\ scrolled \in Int
        BY <4>1, <4>2
      <4>3. scrolled' = IF touch_scroll THEN scrolled + (touch.last - touch.last) ELSE scrolled
        BY <2>1, <3>1 DEF FingerMoved
      <4> QED
        BY <4>3, <4>4
    <3>2. ASSUME ~touch.moved PROVE scrolled' = scrolled
      BY <2>1, <3>2 DEF FingerMoved
    <3>3. scrolled' = scrolled
      BY <3>1, <3>2
    <3> QED
      BY <1>3, <1>5, <2>2, <3>3 DEF PointerInv, TouchInv
  <2>3. TouchInv'
    BY <1>3, <2>1, <2>2 DEF PointerInv, TouchInv
  <2>4. PointerType'
    BY <2>1 DEF FingerMoved, mouseVars, PointerInv, PointerType
  <2> QED
    BY <1>2, <2>3, <2>4 DEF PointerInv
<1> QED
  BY <1>4, <1>5

LEMMA FingerUp ==
  ASSUME PointerInv, NEW f \in Fingers, FingerLifted(f)
  PROVE  PointerInv'
<1>1. touch' = NoTouch /\ fingers' = [fingers EXCEPT ![f] = Up]
  BY DEF FingerLifted
<1>2. TouchInv'
  BY <1>1 DEF PointerInv, TouchInv, NoTouch
<1>3. PointerType'
  <2>1. selection' \in {selection, NoSelection}
    BY DEF FingerLifted
  <2>2. (selection = [is |-> selection.is, kind |-> selection.kind, from |-> selection.from,
                      to |-> selection.to])'
    BY <2>1 DEF NoSelection, PointerInv, PointerType
  <2> QED
    BY <1>1, <2>2 DEF FingerLifted, mouseVars, PointerInv, PointerType, NoTouch
<1>4. GestureInv'
  BY DEF FingerLifted, mouseVars, PointerInv, GestureInv, CellAt
<1> QED
  BY <1>2, <1>3, <1>4 DEF PointerInv

LEMMA TouchKept == ASSUME PointerInv, TouchNext PROVE PointerInv'
  BY FingerDown, FingerSlides, FingerUp DEF TouchNext

LEMMA PointerRests == ASSUME PointerInv, UNCHANGED pointerVars PROVE PointerInv'
  BY DEF PointerInv, PointerType, GestureInv, TouchInv, pointerVars, mouseVars, touchVars, CellAt

(***************************************************************************)
(* What a key, a paste, the mouse or the wheel sends, of every input       *)
(***************************************************************************)
Arrives(i) ==
  CASE i.what = "named" -> NamedReach(i.mode)
    [] i.what = "press" -> PressReach(i.press, i.option, i.mac)
    [] i.what = "paste" -> PasteReach(i.text, i.mode)
    [] i.what = "mouse" -> MouseReach(i.button, i.action, i.col, i.row, i.mods, i.mode)
    [] i.what = "wheel" -> WheelReach(i.turns, i.mode)
    [] OTHER -> TRUE

LEMMA UpToSeq == \A S, n : n \in Nat => UpTo(S, n) \subseteq Seq(S)
<1> SUFFICES ASSUME NEW S, NEW n \in Nat, NEW s \in UpTo(S, n) PROVE s \in Seq(S)
  OBVIOUS
<1>1. PICK k \in 0..n : s \in [1..k -> S]
  BY DEF UpTo
<1> QED
  BY <1>1

LEMMA NamedInputsArrive == \A i \in NamedInputs : Arrives(i)
<1> SUFFICES ASSUME NEW f \in SUBSET {"appCursor", "lineFeed"}
             PROVE  Arrives([what |-> "named", mode |-> Mode(f)])
  BY DEF NamedInputs
<1> DEFINE i == [what |-> "named", mode |-> Mode(f)]
<1>1. i.what = "named"
  OBVIOUS
<1> HIDE DEF i
<1> QED
  BY <1>1, NamedArrives, Zenon DEF Arrives, i

LEMMA PressInputsArrive == \A i \in PressInputs : Arrives(i)
<1>1. ASSUME NEW k, k.char \in Nat, NEW mods, NEW text, NEW o, NEW m
      PROVE  Arrives([what |-> "press", press |-> [key |-> k, mods |-> mods, text |-> text], option |-> o, mac |-> m])
  <2> DEFINE press == [key |-> k, mods |-> mods, text |-> text]
             i == [what |-> "press", press |-> press, option |-> o, mac |-> m]
  <2>1. press \in [key : {k}, mods : {mods}, text : {text}] /\ press.key.char \in Nat
    BY <1>1
  <2>2. PressReach(press, o, m)
    BY <2>1, PressArrives
  <2> HIDE DEF press
  <2>3. i.what = "press" /\ i.press = press /\ i.option = o /\ i.mac = m
    OBVIOUS
  <2>4. "press" # "named"
    OBVIOUS
  <2> HIDE DEF i
  <2>5. Arrives(i)
    BY <2>2, <2>3, <2>4, Zenon DEF Arrives
  <2> QED
    BY <2>5 DEF i, press
<1> DEFINE K == {Char(c) : c \in {0, 97, 99, 50, 45, 91, 233}}
           \cup {Named(n) : n \in {"space", "enter", "tab", "home", "other"}}
           T == {<<>>, <<97>>, <<65>>, <<64>>, <<1>>, <<233>>, <<101, 233>>}
           M == SUBSET {"shift", "ctrl", "alt", "logo"}
<1>2. PressInputs =
  {[what |-> "press", press |-> [key |-> k, mods |-> mods, text |-> text], option |-> o, mac |-> m] :
     k \in K, mods \in M, text \in T, o \in BOOLEAN, m \in BOOLEAN}
  BY DEF PressInputs
<1>3. \A k \in K : k.char \in Nat
  <2>1. \A c \in {0, 97, 99, 50, 45, 91, 233} : Char(c).char \in Nat
    BY DEF Char
  <2>2. \A n : Named(n).char \in Nat
    BY DEF Named
  <2> SUFFICES ASSUME NEW k \in K PROVE k.char \in Nat
    OBVIOUS
  <2>3. \/ \E c \in {0, 97, 99, 50, 45, 91, 233} : k = Char(c)
        \/ \E n : k = Named(n)
    BY Zenon
  <2> QED
    BY <2>1, <2>2, <2>3, Zenon
<1> HIDE DEF K, T, M
<1> QED
  BY <1>1, <1>2, <1>3

LEMMA PasteInputsArrive == \A i \in PasteInputs : Arrives(i)
<1>1. ASSUME NEW p \in UpTo({97, 10}, 2), NEW i \in {1, 2}, NEW j \in 0..6,
             NEW q \in UpTo({97, 13, 126}, 2), NEW mode
      PROVE  Arrives([what |-> "paste", text |-> p \o SubSeq(PASTE_END, i, j) \o q, mode |-> mode])
  <2> DEFINE s == SubSeq(PASTE_END, i, j)
             text == p \o s \o q
             input0 == [what |-> "paste", text |-> text, mode |-> mode]
  <2>1. p \in Seq(Nat) /\ q \in Seq(Nat)
    <3>1. p \in Seq({97, 10}) /\ q \in Seq({97, 13, 126})
      BY UpToSeq
    <3>2. {97, 10} \subseteq Nat /\ {97, 13, 126} \subseteq Nat
      OBVIOUS
    <3>3. \A S, T : S \subseteq T => Seq(S) \subseteq Seq(T)
      OBVIOUS
    <3> QED
      BY <3>1, <3>2, <3>3, ZenonT(40)
  <2>2. s \in Seq(Nat)
    <3>1. \A n \in i..j : PASTE_END[n] \in Nat
      <4>1. /\ PASTE_END[1] \in Nat /\ PASTE_END[2] \in Nat /\ PASTE_END[3] \in Nat
            /\ PASTE_END[4] \in Nat /\ PASTE_END[5] \in Nat /\ PASTE_END[6] \in Nat
        BY DEF PASTE_END, ESC
      <4>2. \A n \in i..j : n \in 1..6
        OBVIOUS
      <4> QED
        BY <4>1, <4>2
    <3>2. i \in Int /\ j \in Int
      OBVIOUS
    <3> QED
      BY <3>1, <3>2, SubSeqProperties
  <2> HIDE DEF s
  <2>3. text \in Seq(Nat)
    BY <2>1, <2>2
  <2> HIDE DEF text
  <2>4. PasteReach(text, mode)
    BY <2>3, PasteArrives
  <2>5. input0.what = "paste" /\ input0.text = text /\ input0.mode = mode
    OBVIOUS
  <2>6. "paste" # "named" /\ "paste" # "press"
    OBVIOUS
  <2> HIDE DEF input0
  <2>7. Arrives(input0)
    BY <2>4, <2>5, <2>6, Zenon DEF Arrives
  <2> QED
    BY <2>7 DEF input0, text, s
<1> DEFINE P == UpTo({97, 10}, 2)
           Q == UpTo({97, 13, 126}, 2)
           I == {1, 2}
           J == 0..6
           Input0(p, i, j, q, f) ==
             [what |-> "paste", text |-> p \o SubSeq(PASTE_END, i, j) \o q, mode |-> Mode(f)]
<1>2. PasteInputs =
        {Input0(p, i, j, q, f) : p \in P, i \in I, j \in J, q \in Q, f \in {{}, {"bracketed"}}}
  BY DEF PasteInputs
<1>3. \A p \in P : \A i \in I : \A j \in J : \A q \in Q : \A f : Arrives(Input0(p, i, j, q, f))
  BY <1>1
<1> HIDE DEF P, Q, I, J, Input0
<1> QED
  BY <1>2, <1>3

LEMMA MouseInputsArrive == \A i \in MouseInputs : Arrives(i)
<1>0. \A b \in DOMAIN ButtonCode : \A a : \A c \in ReportCells : \A r \in ReportCells : \A mods, mode :
        MouseReach(b, a, c, r, mods, mode)
  BY MouseArrives
<1>1. ASSUME NEW b \in DOMAIN ButtonCode, NEW a, NEW c \in {0, 9, 222, 223, 600},
             NEW r \in {0, 98, 222, 300}, NEW mods, NEW mode
      PROVE  Arrives([what |-> "mouse", button |-> b, action |-> a, col |-> c, row |-> r,
                      mods |-> mods, mode |-> mode])
  <2> DEFINE i == [what |-> "mouse", button |-> b, action |-> a, col |-> c, row |-> r,
                   mods |-> mods, mode |-> mode]
  <2>1. c \in ReportCells /\ r \in ReportCells
    BY DEF ReportCells
  <2>2. MouseReach(b, a, c, r, mods, mode)
    <3> HIDE DEF ReportCells
    <3> QED
      BY <1>0, <2>1
  <2>3. /\ i.what = "mouse" /\ i.button = b /\ i.action = a /\ i.col = c /\ i.row = r
        /\ i.mods = mods /\ i.mode = mode
    OBVIOUS
  <2>4. "mouse" # "named" /\ "mouse" # "press" /\ "mouse" # "paste"
    OBVIOUS
  <2> HIDE DEF i
  <2>5. Arrives(i)
    BY <2>2, <2>3, <2>4, Zenon DEF Arrives
  <2> QED
    BY <2>5 DEF i
<1> DEFINE B == DOMAIN ButtonCode
           A == {"press", "release", "drag"}
           C == {0, 9, 222, 223, 600}
           R == {0, 98, 222, 300}
           M == SUBSET {"shift", "alt", "ctrl"}
           F == {{}, {"mouseReport"}, {"mouseReport", "sgr"}, {"mouseDrag", "sgr"}}
<1>2. MouseInputs =
  {[what |-> "mouse", button |-> b, action |-> a, col |-> c, row |-> r, mods |-> mods,
    mode |-> Mode(f)] : b \in B, a \in A, c \in C, r \in R, mods \in M, f \in F}
  BY DEF MouseInputs
<1>3. \A b \in B : \A a : \A c \in C : \A r \in R : \A mods, mode :
        Arrives([what |-> "mouse", button |-> b, action |-> a, col |-> c, row |-> r,
                 mods |-> mods, mode |-> mode])
  BY <1>1
<1> HIDE DEF A, B, C, R, M, F
<1> QED
  BY <1>2, <1>3

LEMMA WheelInputsArrive == \A i \in WheelInputs : Arrives(i)
<1> DEFINE W == {-125, -14, -3, 0, 6, 20, 333}
           F == {{}, {"mouseReport"}, {"altScreen", "alternateScroll"}, {"altScreen"}}
<1>1. ASSUME NEW t \in UpTo(W, 3), NEW f \in F
      PROVE  Arrives([what |-> "wheel", turns |-> t, mode |-> Mode(f)])
  <2> DEFINE i == [what |-> "wheel", turns |-> t, mode |-> Mode(f)]
  <2>1. t \in Seq(Int)
    <3>1. W \subseteq Int
      OBVIOUS
    <3>2. t \in Seq(W)
      <4> HIDE DEF W
      <4> QED
        BY UpToSeq
    <3>3. \A S, T : S \subseteq T => Seq(S) \subseteq Seq(T)
      OBVIOUS
    <3> HIDE DEF W
    <3> QED
      BY <3>1, <3>2, <3>3
  <2>2. Mode(f).sgr = FALSE
    <3>1. "sgr" \notin f
      OBVIOUS
    <3>2. Mode(f).sgr = ("sgr" \in f)
      BY DEF Mode
    <3>3. ("sgr" \in f) = FALSE
      BY <3>1
    <3> QED
      BY <3>2, <3>3
  <2>3. WheelReach(t, Mode(f))
    BY <2>1, <2>2, WheelArrives
  <2>4. i.what = "wheel" /\ i.turns = t /\ i.mode = Mode(f)
    BY Zenon
  <2>5. "wheel" # "named" /\ "wheel" # "press" /\ "wheel" # "paste" /\ "wheel" # "mouse"
    OBVIOUS
  <2> HIDE DEF i
  <2>6. Arrives(i)
    BY <2>3, <2>4, <2>5, Zenon DEF Arrives
  <2> QED
    BY <2>6 DEF i
<1>2. WheelInputs = {[what |-> "wheel", turns |-> t, mode |-> Mode(f)] : t \in UpTo(W, 3), f \in F}
  BY DEF WheelInputs
<1> HIDE DEF W, F
<1> QED
  BY <1>1, <1>2

(* The inputs of the other parts send nothing.                             *)
LEMMA OtherInputsArrive ==
  \A i : i.what \in {"keys", "layers", "nothing"} => Arrives(i)
  BY Zenon DEF Arrives

LEMMA KeyInputsAre == \A i \in KeyInputs : i.what = "keys"
<1>1. \A o, mac : KeyInput(o, mac).what = "keys"
  BY DEF KeyInput
<1> DEFINE A == {KeyInput(<<>>, mac) : mac \in BOOLEAN}
           L == Single({"new_tab", "copy", "scroll_page_up", "reset_layout", "sound", "nonsense"},
                       SingleTexts)
           P == {Override(a, InfoOf(a).context, t) : a \in {"copy", "zoom", "reset_layout"}, t \in PairTexts}
           Q == Single({"copy", "zoom"}, {<<"none">>, <<"alt", "q">>})
           One(o, mac) == KeyInput(<<o>>, mac)
           Two(o, p) == KeyInput(<<o, p>>, FALSE)
           OnMac(o, p) == KeyInput(<<o, p>>, TRUE)
           B == {One(o, mac) : o \in L, mac \in BOOLEAN}
           C == {Two(o, p) : o, p \in P}
           D == {OnMac(o, p) : o, p \in Q}
<1>2. KeyInputs = A \cup B \cup C \cup D
  BY DEF KeyInputs
<1> HIDE DEF L, P, Q
<1>3. \A o, mac : One(o, mac).what = "keys"
  BY <1>1, Zenon
<1>4. \A o, p : Two(o, p).what = "keys" /\ OnMac(o, p).what = "keys"
  BY <1>1, Zenon
<1> HIDE DEF One, Two, OnMac
<1>5. /\ \A i \in A : i.what = "keys"
      /\ \A i \in B : i.what = "keys"
  BY <1>1, <1>3
<1>6. /\ \A i \in C : i.what = "keys"
      /\ \A i \in D : i.what = "keys"
  BY <1>4
<1> HIDE DEF A, B, C, D
<1> QED
  BY <1>2, <1>5, <1>6

LEMMA LayerInputsAre == \A i \in LayerInputs : i.what = "layers"
<1> DEFINE C == DOMAIN Rows
           F == UNION {DOMAIN Rows[k] : k \in DOMAIN Rows}
           X == {"missing", "whole", "older", "newer", "unreadable"}
           M == {"offered", "reset"}
<1>1. LayerInputs =
  {[what |-> "layers", field |-> f, category |-> c, file |-> file, mode |-> mode] :
     c \in C, f \in F, file \in X, mode \in M}
  BY DEF LayerInputs
<1> HIDE DEF C, F, X, M
<1> QED
  BY <1>1

LEMMA InputsArrive == \A i \in Inputs \cup {NoInput} : Arrives(i)
<1>1. NoInput.what = "nothing"
  BY DEF NoInput
<1>2. \A i \in KeyInputs \cup LayerInputs \cup {NoInput} : i.what \in {"keys", "layers", "nothing"}
  BY <1>1, KeyInputsAre, LayerInputsAre
<1>3. Inputs \subseteq KeyInputs \cup NamedInputs \cup PressInputs \cup PasteInputs \cup MouseInputs
                       \cup WheelInputs \cup LayerInputs
  BY DEF Inputs
<1> QED
  BY <1>2, <1>3, OtherInputsArrive, NamedInputsArrive, PressInputsArrive, PasteInputsArrive,
     MouseInputsArrive, WheelInputsArrive, SMT

(***************************************************************************)
(* In every scene                                                          *)
(***************************************************************************)
KeysInv == OskInv /\ PointerInv /\ Arrives(input)

LEMMA KeysInvReach == KeysInv => KeysReach
<1> HAVE KeysInv
<1>1. OskReach /\ PointerFollowed
  BY OskArrives, PointerFollows DEF KeysInv
<1> QED
  BY <1>1, Zenon DEF KeysReach, KeysInv, Arrives

LEMMA KeysStart == Init => KeysInv
<1> HAVE Init
<1>1. input \in Inputs \cup {NoInput}
  BY DEF Init
<1> QED
  BY <1>1, InputsArrive, OskInitInv, PointerStarts DEF Init, KeysInv

LEMMA KeysKept == KeysInv /\ [Next]_vars => KeysInv'
<1> SUFFICES ASSUME KeysInv, [Next]_vars PROVE KeysInv'
  OBVIOUS
<1>1. UNCHANGED input
  BY DEF Next, vars
<1>2. OskInv'
  BY OskNextInv DEF KeysInv, Next, vars
<1>3. PointerInv'
  BY MouseKept, TouchKept, PointerRests DEF KeysInv, Next, vars
<1>4. Arrives(input)'
  BY <1>1, Zenon DEF KeysInv, Arrives
<1> QED
  BY <1>2, <1>3, <1>4 DEF KeysInv

(* At all times, of every input there is: named keys, pastes, mouse        *)
(* reports and turns of the wheel can be read back out of what is sent;    *)
(* a text key sends what was composed, or under Alt Escape and the key by  *)
(* itself; a key of the on-screen keyboard sends its label, or under Ctrl  *)
(* and Alt its code or its lower-case base (terminal-core input.rs,        *)
(* ui/input.rs, events.rs, osk/state.rs).                                  *)
THEOREM InputArrives == Spec => []KeysReach
<1>1. Spec => []KeysInv
  BY KeysStart, KeysKept, PTL DEF Spec
<1> QED
  BY <1>1, KeysInvReach, PTL

(***************************************************************************)
(* The types                                                               *)
(***************************************************************************)
Whiches == {"missing", "unreadable", "torn", "whole"}
DialogType ==
  /\ phase \in {"down", "normal", "safe", "no_paths"} /\ steps \in 0..MaxSteps
  /\ DOMAIN look = Previewed
  /\ dialog.open \in BOOLEAN /\ DOMAIN dialog.edits = ActionIds
  /\ "font_size" \in Fields => dialog.draft.fields.font_size \in Nat
  /\ writing.at \in {"idle", "create", "write", "backup", "copy", "rename"}
ProfilesType ==
  /\ "default" \in DOMAIN cfg.profiles /\ "default" \in DOMAIN dialog.draft.profiles
  /\ "default" \in DOMAIN writing.config.profiles
FilesType ==
  /\ DOMAIN files = {"config", "overrides", "backup", "temp"}
  /\ \A name \in DOMAIN files : files[name].is \in Whiches
  /\ writing # Idle => writing.file.is \in Whiches
SettingsType == DialogType /\ ProfilesType /\ FilesType

LEMMA LookDomain == \A config : DOMAIN LookOf(config) = Previewed
  BY DEF LookOf

LEMMA LayeredDefault ==
  \A base, file : "default" \in DOMAIN base.profiles => "default" \in DOMAIN Layered(base, file).profiles
<1> TAKE base, file
<1> HAVE "default" \in DOMAIN base.profiles
<1>1. "default" \in DOMAIN MergeTables(base, file).profiles
  BY DEF MergeTables, MergeProfiles
<1> QED
  BY <1>1, Zenon DEF Layered

LEMMA DefaultProfile == "default" \in DOMAIN DefaultConfig.profiles
  BY DEF DefaultConfig

LEMMA EffectiveDefault ==
  \A texts, safe : "default" \in DOMAIN LoadEffective(DefaultConfig, texts, safe).profiles
<1> TAKE texts, safe
<1>1. "default" \in DOMAIN Layered(DefaultConfig, texts.config).profiles
  BY LayeredDefault, DefaultProfile
<1>2. "default" \in DOMAIN Layered(Layered(DefaultConfig, texts.config), texts.overrides).profiles
  BY <1>1, LayeredDefault
<1> QED
  BY <1>1, <1>2, Zenon DEF LoadEffective

LEMMA UsableFont ==
  ASSUME NEW config, Usable(config), "font_size" \in Fields
  PROVE  config.fields.font_size \in Nat
<1>1. config.fields.font_size \in 8..48
  BY FontSizes DEF Usable, Valid, WellFormed
<1> QED
  BY <1>1

LEMMA FontRow ==
  ASSUME NEW category \in DOMAIN Rows, "font_size" \in DOMAIN Rows[category],
         NEW v \in Rows[category]["font_size"]
  PROVE  v \in Nat
<1>1. DOMAIN Rows = {"appearance", "terminal", "panels", "input_sound"}
  BY DEF Rows
<1>2. "font_size" \notin DOMAIN TerminalRows
  BY DEF TerminalRows
<1>3. "font_size" \notin DOMAIN PanelRows
  BY DEF PanelRows
<1>4. "font_size" \notin DOMAIN InputSoundRows
  BY DEF InputSoundRows
<1>5. /\ Rows["appearance"] = AppearanceRows /\ Rows["terminal"] = TerminalRows
      /\ Rows["panels"] = PanelRows /\ Rows["input_sound"] = InputSoundRows
  BY DEF Rows
<1>6. AppearanceRows["font_size"] = 8..48
  BY DEF AppearanceRows
<1>7. category = "appearance"
  BY <1>1, <1>2, <1>3, <1>4, <1>5, Zenon
<1>8. v \in 8..48
  BY <1>5, <1>6, <1>7, Zenon
<1> QED
  BY <1>8

LEMMA TypeStarts == SettingsInit => SettingsType
<1> SUFFICES ASSUME SettingsInit PROVE SettingsType
  OBVIOUS
<1>1. /\ phase = "down" /\ cfg = DefaultConfig /\ look = LookOf(DefaultConfig)
      /\ dialog = Closed /\ writing = Idle /\ steps = 0
      /\ files \in [config : TriedConfigs, overrides : TriedOverrides, backup : {Missing}, temp : {Missing}]
  BY DEF SettingsInit
<1>2. Idle.at = "idle" /\ Idle.config = DefaultConfig /\ Missing.is = "missing"
  BY DEF Idle, Missing
<1>3. Closed.open = FALSE /\ Closed.draft = DefaultConfig /\ DOMAIN Closed.edits = ActionIds
  BY DEF Closed
<1>4. DialogType
  <2>1. "font_size" \in Fields => dialog.draft.fields.font_size \in Nat
    BY <1>1, <1>3, UsableFont, DefaultUsable
  <2>2. steps \in 0..MaxSteps
    BY <1>1, StepsAssumption
  <2>3. DOMAIN look = Previewed
    BY <1>1, LookDomain
  <2> QED
    BY <1>1, <1>2, <1>3, <2>1, <2>2, <2>3 DEF DialogType
<1>5. ProfilesType
  BY <1>1, <1>2, <1>3, DefaultProfile DEF ProfilesType
<1>6. FilesType
  <2>1. files.config \in TriedConfigs /\ files.overrides \in TriedOverrides
        /\ files.backup = Missing /\ files.temp = Missing
        /\ DOMAIN files = {"config", "overrides", "backup", "temp"}
    BY <1>1
  <2>2. files.config.is \in Whiches /\ files.overrides.is \in Whiches
    BY <2>1, FilesAssumption DEF Whiches
  <2> QED
    BY <1>1, <1>2, <2>1, <2>2 DEF FilesType, Whiches
<1> QED
  BY <1>4, <1>5, <1>6 DEF SettingsType

(* What a handler that does not save changes.                              *)
LEMMA HandlerType ==
  ASSUME Inv, ConfigInv, SettingsType, Handles, writing' = writing,
         look' = look \/ \E config : look' = LookOf(config),
         dialog'.open \in BOOLEAN, DOMAIN dialog'.edits = ActionIds,
         "font_size" \in Fields => dialog'.draft.fields.font_size \in Nat,
         "default" \in DOMAIN cfg'.profiles, "default" \in DOMAIN dialog'.draft.profiles
  PROVE  SettingsType'
<1>1. /\ steps' = steps + 1 /\ steps < MaxSteps /\ phase' = phase /\ files' = files
  BY DEF Handles
<1>2. steps' \in 0..MaxSteps
  BY <1>1, StepsAssumption DEF SettingsType, DialogType
<1>3. DOMAIN look' = Previewed
  BY LookDomain DEF SettingsType, DialogType
<1>4. DialogType'
  BY <1>1, <1>2, <1>3 DEF SettingsType, DialogType
<1>5. ProfilesType'
  BY DEF SettingsType, ProfilesType
<1>6. FilesType'
  BY <1>1 DEF SettingsType, FilesType
<1> QED
  BY <1>4, <1>5, <1>6 DEF SettingsType

LEMMA EditsDomain == \A keymap, mac : DOMAIN Edits(keymap, mac) = ActionIds
  BY DEF Edits

LEMMA DialogKept ==
  ASSUME Inv, ConfigInv, SettingsType
  PROVE  /\ UseDialog => SettingsType'
         /\ \A delta : AdjustFont(delta) => SettingsType'
         /\ \A id : PickTheme(id) => SettingsType'
         /\ ToggleSound => SettingsType'
<1>0. /\ Usable(cfg) /\ WellFormed(cfg) /\ WellFormed(dialog.draft) /\ DialogShape
      /\ WritingShape
  BY DEF ConfigInv, Configured, Usable, Inv, Shapes
<1>1. ASSUME NEW delta, AdjustFont(delta) PROVE SettingsType'
  <2>1. cfg'.profiles = cfg.profiles
    BY <1>0, <1>1 DEF AdjustFont, ApplyConfig, WellFormed
  <2> QED
    BY <1>1, <2>1, HandlerType DEF AdjustFont, ApplyConfig, SettingsType, DialogType, ProfilesType
<1>2. ASSUME NEW id, PickTheme(id) PROVE SettingsType'
  <2>1. cfg'.profiles = cfg.profiles
    BY <1>0, <1>2 DEF PickTheme, ApplyConfig, WellFormed
  <2> QED
    BY <1>2, <2>1, HandlerType DEF PickTheme, ApplyConfig, SettingsType, DialogType, ProfilesType
<1>3. ASSUME ToggleSound PROVE SettingsType'
  <2>1. cfg'.profiles = cfg.profiles
    BY <1>0, <1>3 DEF ToggleSound, ApplyConfig, WellFormed
  <2> QED
    BY <1>3, <2>1, HandlerType DEF ToggleSound, ApplyConfig, SettingsType, DialogType, ProfilesType
<1>4. ASSUME Open PROVE SettingsType'
  <2>1. dialog'.open = TRUE /\ dialog'.draft = cfg /\ dialog'.edits = Edits(Build(cfg.keys, Mac), Mac)
    BY <1>4 DEF Open
  <2>2. "font_size" \in Fields => dialog'.draft.fields.font_size \in Nat
    BY <1>0, <2>1, UsableFont
  <2>3. DOMAIN dialog'.edits = ActionIds
    BY <2>1, EditsDomain
  <2> QED
    BY <1>4, <2>1, <2>2, <2>3, HandlerType DEF Open, SettingsType, ProfilesType
<1>5. ASSUME ResetAll PROVE SettingsType'
  <2>1. dialog'.open = dialog.open /\ dialog'.draft = DefaultConfig /\ dialog'.edits = ResetKeysToDefaults
    BY <1>0, <1>5 DEF ResetAll, DialogShape
  <2>2. "font_size" \in Fields => dialog'.draft.fields.font_size \in Nat
    BY <2>1, DefaultUsable, UsableFont
  <2>3. DOMAIN dialog'.edits = ActionIds
    BY <2>1, EditsDomain DEF ResetKeysToDefaults
  <2> QED
    BY <1>5, <2>1, <2>2, <2>3, HandlerType, DefaultProfile
    DEF ResetAll, SettingsType, DialogType, ProfilesType
<1>6. Closed.open = FALSE /\ Closed.draft = DefaultConfig /\ DOMAIN Closed.edits = ActionIds
  BY DEF Closed
<1>7. ASSUME dialog' = Closed
      PROVE  /\ dialog'.open \in BOOLEAN /\ DOMAIN dialog'.edits = ActionIds
             /\ "font_size" \in Fields => dialog'.draft.fields.font_size \in Nat
             /\ "default" \in DOMAIN dialog'.draft.profiles
  BY <1>6, <1>7, DefaultUsable, UsableFont, DefaultProfile
<1>8. ASSUME Cancel PROVE SettingsType'
  <2>1. dialog' = Closed /\ look' = LookOf(cfg) /\ cfg' = cfg /\ writing' = writing /\ Handles
    BY <1>8 DEF Cancel, AfterCancel
  <2> QED
    BY <1>7, <2>1, HandlerType DEF SettingsType, ProfilesType
<1>9. ASSUME Apply PROVE SettingsType'
  <2> DEFINE candidate == Candidate
  <2>1. Handles /\ dialog.open /\ Submit(candidate)
    BY <1>9 DEF Apply
  <2>2. candidate.profiles = dialog.draft.profiles
    BY <1>0 DEF Candidate, WellFormed
  <2> HIDE DEF candidate
  <2>3. CASE ~Acceptable(candidate)
    <3>1. dialog' = [dialog EXCEPT !.errors = TRUE] /\ cfg' = cfg /\ look' = look /\ writing' = writing
      BY <2>1, <2>3 DEF Submit
    <3>2. dialog'.open = dialog.open /\ dialog'.draft = dialog.draft /\ dialog'.edits = dialog.edits
      BY <1>0, <3>1 DEF DialogShape
    <3> QED
      BY <2>1, <3>1, <3>2, HandlerType DEF SettingsType, DialogType, ProfilesType
  <2>4. CASE Acceptable(candidate) /\ phase # "normal"
    <3>1. dialog' = Closed /\ cfg' = candidate /\ look' = LookOf(candidate) /\ writing' = writing
      BY <2>1, <2>4 DEF Submit, Save, ApplyConfig
    <3>2. "default" \in DOMAIN cfg'.profiles
      BY <2>2, <3>1 DEF SettingsType, ProfilesType
    <3> QED
      BY <1>7, <2>1, <3>1, <3>2, HandlerType
  <2>5. CASE Acceptable(candidate) /\ phase = "normal"
    <3>1. /\ dialog' = Closed /\ cfg' = cfg /\ look' = look
          /\ writing' = [at |-> "create", file |-> OverridesToml(SaveBase, candidate),
                         config |-> candidate, disturbed |-> FALSE]
      BY <2>1, <2>5 DEF Submit, Save
    <3>2. steps' = steps + 1 /\ steps < MaxSteps /\ phase' = phase /\ files' = files
      BY <2>1 DEF Handles
    <3>3. writing'.at = "create" /\ writing'.config = candidate
          /\ writing'.file = OverridesToml(SaveBase, candidate)
      BY <3>1
    <3>4. steps' \in 0..MaxSteps
      BY <3>2, StepsAssumption DEF SettingsType, DialogType
    <3>5. DialogType'
      BY <1>7, <3>1, <3>2, <3>3, <3>4 DEF SettingsType, DialogType
    <3>6. ProfilesType'
      BY <1>7, <2>2, <3>1, <3>3 DEF SettingsType, ProfilesType
    <3>7. FilesType'
      BY <3>2, <3>3, SavedIsWhole DEF SettingsType, FilesType, Whiches
    <3> QED
      BY <3>5, <3>6, <3>7 DEF SettingsType
  <2> QED
    BY <2>3, <2>4, <2>5
<1>10. ASSUME NEW category \in DOMAIN Rows, NEW f \in DOMAIN Rows[category] \cap Fields,
              NEW v \in Rows[category][f], SetField(f, v)
       PROVE  SettingsType'
  <2> DEFINE draft == [dialog.draft EXCEPT !.fields = [@ EXCEPT ![f] = v]]
  <2>1. dialog' = [dialog EXCEPT !.draft = draft]
    BY <1>0, <1>10 DEF SetField
  <2>2. draft.profiles = dialog.draft.profiles /\ draft.fields = [dialog.draft.fields EXCEPT ![f] = v]
    BY <1>0 DEF WellFormed
  <2> HIDE DEF draft
  <2>3. dialog'.draft = draft /\ dialog'.open = dialog.open /\ dialog'.edits = dialog.edits
    BY <1>0, <2>1 DEF DialogShape
  <2>4. "font_size" \in Fields => dialog'.draft.fields.font_size \in Nat
    <3>1. CASE f = "font_size"
      <4>1. v \in Nat
        BY <3>1, FontRow
      <4>2. DOMAIN dialog.draft.fields = Fields
        BY <1>0 DEF WellFormed
      <4>3. dialog'.draft.fields["font_size"] = v
        BY <2>2, <2>3, <3>1, <4>2
      <4> QED
        BY <4>1, <4>3
    <3>2. CASE f # "font_size"
      <4>1. DOMAIN dialog.draft.fields = Fields
        BY <1>0 DEF WellFormed
      <4>2. "font_size" \in Fields => dialog'.draft.fields["font_size"] = dialog.draft.fields["font_size"]
        BY <2>2, <2>3, <3>2, <4>1
      <4> QED
        BY <4>2 DEF SettingsType, DialogType
    <3> QED
      BY <3>1, <3>2
  <2>5. Handles /\ cfg' = cfg /\ writing' = writing /\ (look' = look \/ look' = LookOf(dialog'.draft))
    BY <1>10 DEF SetField
  <2> QED
    BY <2>2, <2>3, <2>4, <2>5, HandlerType DEF SettingsType, DialogType, ProfilesType
<1>11. ASSUME NEW id, NEW keys, SetKey(id, keys) PROVE SettingsType'
  <2>1. /\ dialog'.draft = dialog.draft /\ dialog'.open = dialog.open
        /\ dialog'.edits = [dialog.edits EXCEPT ![id] = keys]
    BY <1>0, <1>11 DEF SetKey, DialogShape
  <2>2. DOMAIN dialog'.edits = ActionIds
    BY <2>1 DEF SettingsType, DialogType
  <2> QED
    BY <1>11, <2>1, <2>2, HandlerType DEF SetKey, SettingsType, DialogType, ProfilesType
<1>12. ASSUME NEW category, ResetSection(category) PROVE SettingsType'
  <2> DEFINE default == Restrict(Defaults, ResetBy[category] \cap Fields)
             fields == Over(default, dialog.draft.fields)
             draft == [dialog.draft EXCEPT !.fields = fields]
  <2>1. draft.profiles = dialog.draft.profiles /\ draft.fields = fields
    BY <1>0 DEF WellFormed
  <2>2. \/ dialog' = [dialog EXCEPT !.edits = ResetKeysToDefaults]
        \/ dialog' = [dialog EXCEPT !.draft = draft]
    BY <1>12 DEF ResetSection
  <2>3. "font_size" \in Fields => fields["font_size"] \in Nat
    <3>1. SUFFICES ASSUME "font_size" \in Fields PROVE fields["font_size"] \in Nat
      OBVIOUS
    <3>2. DOMAIN dialog.draft.fields = Fields
      BY <1>0 DEF WellFormed
    <3>3. fields["font_size"] \in {default["font_size"], dialog.draft.fields["font_size"]}
      BY <3>1, <3>2 DEF Over
    <3>4. "font_size" \in DOMAIN default => default["font_size"] = Defaults["font_size"]
      BY DEF Restrict
    <3>5. fields["font_size"] = IF "font_size" \in DOMAIN default THEN default["font_size"]
                                ELSE dialog.draft.fields["font_size"]
      BY <3>1, <3>2 DEF Over
    <3>6. Defaults["font_size"] \in Nat
      <4>1. DefaultConfig.fields["font_size"] \in Nat
        BY <3>1, DefaultUsable, UsableFont
      <4>2. DefaultConfig.fields["font_size"] = Defaults["font_size"]
        BY <3>1 DEF DefaultConfig, Restrict
      <4> QED
        BY <4>1, <4>2
    <3>7. dialog.draft.fields["font_size"] \in Nat
      BY <3>1 DEF SettingsType, DialogType
    <3> HIDE DEF fields, default
    <3> QED
      BY <3>4, <3>5, <3>6, <3>7
  <2> HIDE DEF fields, draft
  <2>4. /\ dialog'.open = dialog.open /\ dialog'.edits \in {dialog.edits, ResetKeysToDefaults}
        /\ dialog'.draft \in {dialog.draft, draft}
    BY <1>0, <2>2 DEF DialogShape
  <2>5. DOMAIN dialog'.edits = ActionIds
    BY <2>4, EditsDomain DEF SettingsType, DialogType, ResetKeysToDefaults
  <2>6. "font_size" \in Fields => dialog'.draft.fields.font_size \in Nat
    BY <2>1, <2>3, <2>4 DEF SettingsType, DialogType
  <2>7. Handles /\ cfg' = cfg /\ writing' = writing /\ look' = look
    BY <1>12 DEF ResetSection
  <2> QED
    BY <2>1, <2>4, <2>5, <2>6, <2>7, HandlerType DEF SettingsType, DialogType, ProfilesType
<1>13. UseDialog => SettingsType'
  BY <1>4, <1>5, <1>8, <1>9, <1>10, <1>11, <1>12 DEF UseDialog
<1> QED
  BY <1>1, <1>2, <1>3, <1>13

LEMMA BootType == ASSUME Inv, ConfigInv, SettingsType, Boot PROVE SettingsType'
<1>1. /\ steps' = steps + 1 /\ steps < MaxSteps /\ phase' \in {"normal", "safe", "no_paths"}
      /\ dialog' = dialog /\ writing' = writing /\ look' = LookOf(cfg')
      /\ files' = [files EXCEPT !.temp = Missing]
  BY DEF Boot, ApplyConfig
<1>2. "default" \in DOMAIN cfg'.profiles
  BY DefaultProfile, EffectiveDefault DEF Boot, ApplyConfig
<1>3. steps' \in 0..MaxSteps
  BY <1>1, StepsAssumption DEF SettingsType, DialogType
<1>4. DialogType'
  BY <1>1, <1>3, LookDomain DEF SettingsType, DialogType
<1>5. ProfilesType'
  BY <1>1, <1>2 DEF SettingsType, ProfilesType
<1>6. FilesType'
  <2>1. Missing.is \in Whiches
    BY DEF Missing, Whiches
  <2> QED
    BY <1>1, <2>1 DEF SettingsType, FilesType
<1> QED
  BY <1>4, <1>5, <1>6 DEF SettingsType

LEMMA StopType == ASSUME Inv, ConfigInv, SettingsType, Stop PROVE SettingsType'
<1>1. /\ steps' = steps + 1 /\ steps < MaxSteps /\ phase' = "down"
      /\ dialog' = Closed /\ writing' = Idle /\ look' = LookOf(DefaultConfig)
      /\ cfg' = DefaultConfig /\ files' = files
  BY DEF Stop
<1>2. Closed.open = FALSE /\ Closed.draft = DefaultConfig /\ DOMAIN Closed.edits = ActionIds
  BY DEF Closed
<1>3. Idle.at = "idle" /\ Idle.config = DefaultConfig
  BY DEF Idle
<1>4. steps' \in 0..MaxSteps
  BY <1>1, StepsAssumption DEF SettingsType, DialogType
<1>5. "font_size" \in Fields => DefaultConfig.fields.font_size \in Nat
  BY UsableFont, DefaultUsable
<1>6. DOMAIN look' = Previewed
  BY <1>1, LookDomain
<1>7. DialogType'
  BY <1>1, <1>2, <1>3, <1>4, <1>5, <1>6 DEF DialogType
<1>8. ProfilesType'
  BY <1>1, <1>2, <1>3, DefaultProfile DEF ProfilesType
<1>9. FilesType'
  BY <1>1 DEF SettingsType, FilesType
<1> QED
  BY <1>7, <1>8, <1>9 DEF SettingsType

LEMMA OutsideType == ASSUME Inv, ConfigInv, SettingsType, EditOutside PROVE SettingsType'
<1>1. /\ steps' = steps + 1 /\ steps < MaxSteps /\ UNCHANGED <<phase, cfg, look, dialog>>
      /\ writing' = IF writing = Idle THEN Idle ELSE [writing EXCEPT !.disturbed = TRUE]
  BY DEF EditOutside
<1>2. /\ writing'.at = writing.at /\ writing'.config = writing.config
      /\ writing' # Idle => writing # Idle /\ writing'.file = writing.file
  BY <1>1 DEF Inv, Shapes, WritingShape
<1>3. steps' \in 0..MaxSteps
  BY <1>1, StepsAssumption DEF SettingsType, DialogType
<1>4. DialogType'
  BY <1>1, <1>2, <1>3 DEF SettingsType, DialogType
<1>5. ProfilesType'
  BY <1>1, <1>2 DEF SettingsType, ProfilesType
<1>6. FilesType'
  <2>1. PICK file \in TriedConfigs \cup TriedOverrides :
          \/ files' = [files EXCEPT !.config = file]
          \/ files' = [files EXCEPT !.overrides = file]
    BY DEF EditOutside
  <2>2. file.is \in Whiches
    BY FilesAssumption DEF Whiches
  <2>3. DOMAIN files' = DOMAIN files /\ \A name \in DOMAIN files : files'[name] \in {files[name], file}
    BY <2>1
  <2> QED
    BY <1>2, <2>2, <2>3 DEF SettingsType, FilesType
<1> QED
  BY <1>4, <1>5, <1>6 DEF SettingsType

LEMMA WriteType == ASSUME Inv, ConfigInv, SettingsType, WriteAtomic PROVE SettingsType'
<1>0. Torn.is \in Whiches /\ Missing.is \in Whiches
  BY IdleAt DEF Whiches
<1>1. ASSUME NEW from, NEW to \in {"write", "backup", "copy", "rename"}, Step(from, to),
             from # "idle", NEW name, NEW content,
             files' = files \/ files' = [files EXCEPT ![name] = content],
             content.is \in Whiches
      PROVE  SettingsType'
  <2>1. writing' = [writing EXCEPT !.at = to] /\ writing.at = from /\ UNCHANGED <<phase, cfg, look, dialog, saved, steps>>
    BY <1>1 DEF Step
  <2>2. writing'.at = to /\ writing'.config = writing.config /\ writing'.file = writing.file
    BY <2>1 DEF Inv, Shapes, WritingShape
  <2>3. writing # Idle
    BY <1>1, <2>1, IdleAt
  <2>4. DialogType'
    BY <2>1, <2>2 DEF SettingsType, DialogType
  <2>5. ProfilesType'
    BY <2>1, <2>2 DEF SettingsType, ProfilesType
  <2>6. FilesType'
    <3>1. DOMAIN files' = DOMAIN files /\ \A n \in DOMAIN files : files'[n] \in {files[n], content}
      BY <1>1
    <3> QED
      BY <1>1, <2>2, <2>3, <3>1 DEF SettingsType, FilesType
  <2> QED
    BY <2>4, <2>5, <2>6 DEF SettingsType
<1>2. ASSUME EndWrite,
             DOMAIN files' = DOMAIN files,
             \A n \in DOMAIN files : files'[n].is \in Whiches
      PROVE  SettingsType'
  <2>1. /\ writing' = Idle /\ cfg' = writing.config /\ look' = LookOf(writing.config)
        /\ UNCHANGED <<phase, dialog, steps>>
    BY <1>2 DEF EndWrite, ApplyConfig
  <2>2. Idle.at = "idle" /\ Idle.config = DefaultConfig
    BY DEF Idle
  <2>3. DialogType'
    BY <2>1, <2>2, LookDomain DEF SettingsType, DialogType
  <2>4. ProfilesType'
    BY <2>1, <2>2, DefaultProfile DEF SettingsType, ProfilesType
  <2>5. FilesType'
    BY <1>2, <2>1 DEF SettingsType, FilesType
  <2> QED
    BY <2>3, <2>4, <2>5 DEF SettingsType
<1>3. /\ DOMAIN files = {"config", "overrides", "backup", "temp"}
      /\ \A n \in DOMAIN files : files[n].is \in Whiches
  BY DEF SettingsType, FilesType
<1>4. CreateTemp => SettingsType'
  BY <1>0, <1>1 DEF CreateTemp, TornAside
<1>5. WriteTemp => SettingsType'
  <2> HAVE WriteTemp
  <2>1. writing.at = "write" /\ Step("write", "backup") /\ files' = [files EXCEPT !["temp"] = writing.file]
    BY DEF WriteTemp, Step
  <2>2. writing.file.is \in Whiches
    BY <2>1, IdleAt DEF SettingsType, FilesType
  <2> QED
    BY <1>1, <2>1, <2>2
<1>6. NothingToKeep => SettingsType'
  BY <1>0, <1>1 DEF NothingToKeep
<1>7. StartCopy => SettingsType'
  BY <1>0, <1>1 DEF StartCopy
<1>8. EndCopy => SettingsType'
  BY <1>1, <1>3 DEF EndCopy
<1>9. RenameTemp => SettingsType'
  <2> HAVE RenameTemp
  <2>1. EndWrite /\ files' = [files EXCEPT !.overrides = files.temp, !.temp = Missing]
    BY DEF RenameTemp
  <2>2. DOMAIN files' = DOMAIN files /\ \A n \in DOMAIN files : files'[n] \in {files[n], files["temp"], Missing}
    BY <2>1
  <2> QED
    BY <1>0, <1>2, <1>3, <2>1, <2>2
<1>10. WriteFails => SettingsType'
  <2> HAVE WriteFails
  <2>1. EndWrite /\ files' = [files EXCEPT !.temp = Missing]
    BY DEF WriteFails
  <2>2. DOMAIN files' = DOMAIN files /\ \A n \in DOMAIN files : files'[n] \in {files[n], Missing}
    BY <2>1
  <2> QED
    BY <1>0, <1>2, <1>3, <2>1, <2>2
<1> QED
  BY <1>4, <1>5, <1>6, <1>7, <1>8, <1>9, <1>10 DEF WriteAtomic

LEMMA TypeKept ==
  Inv /\ ConfigInv /\ SettingsType /\ [SettingsNext]_settingsVars => SettingsType'
<1> SUFFICES ASSUME Inv, ConfigInv, SettingsType, [SettingsNext]_settingsVars PROVE SettingsType'
  OBVIOUS
<1>1. CASE UNCHANGED settingsVars
  BY <1>1 DEF settingsVars, SettingsType, DialogType, ProfilesType, FilesType
<1> QED
  BY <1>1, BootType, DialogKept, WriteType, StopType, OutsideType DEF SettingsNext

(***************************************************************************)
(* The player and the keyboard                                             *)
(***************************************************************************)
PlayerType ==
  /\ output.is \in {"idle", "opening", "ready", "unavailable"} /\ output.thread \in 0..openings
  /\ output = [is |-> output.is, thread |-> output.thread]
  /\ openings \in 0..MaxOpenings /\ recent \subseteq Cues

LEMMA PlayerStarts == SoundInit => PlayerType
  BY SoundAssumption DEF SoundInit, PlayerType, NoOutput

LEMMA PlayerKept == PlayerType /\ [SoundNext]_soundVars => PlayerType'
<1> SUFFICES ASSUME PlayerType, [SoundNext]_soundVars PROVE PlayerType'
  OBVIOUS
<1>0. openings \in Nat /\ MaxOpenings \in Nat
  BY SoundAssumption DEF PlayerType
<1>1. CASE SwitchOn
  <2>1. openings' = openings + 1 /\ openings < MaxOpenings /\ recent' = recent
    BY <1>1 DEF SwitchOn
  <2>2. \/ output' = [is |-> "opening", thread |-> openings']
        \/ output' = [is |-> "unavailable", thread |-> 0]
        \/ output' = output
    BY <1>1 DEF SwitchOn
  <2>3. output.thread \in 0..openings'
    BY <1>0, <2>1 DEF PlayerType
  <2>4. openings' \in 0..MaxOpenings /\ openings' \in 0..openings' /\ 0 \in 0..openings'
    BY <1>0, <2>1
  <2> QED
    BY <2>1, <2>2, <2>3, <2>4 DEF PlayerType
<1>2. CASE SwitchOff
  BY <1>0, <1>2 DEF SwitchOff, Dropped, NoOutput, PlayerType
<1>3. ASSUME NEW cue \in Cues, Play(cue) PROVE PlayerType'
  <2>1. output' = Polled /\ openings' = openings /\ recent' \in {recent, recent \cup {cue}}
    BY <1>3 DEF Play
  <2>2. \/ Polled = output \/ Polled = [output EXCEPT !.is = "ready"]
        \/ Polled = [is |-> "unavailable", thread |-> 0]
    BY Zenon DEF Polled
  <2>3. /\ output'.is \in {"idle", "opening", "ready", "unavailable"}
        /\ output'.thread \in {output.thread, 0}
        /\ output' = [is |-> output'.is, thread |-> output'.thread]
    BY <2>1, <2>2 DEF PlayerType
  <2> QED
    BY <1>0, <2>1, <2>3 DEF PlayerType
<1>4. ASSUME NEW cue \in Cues, IntervalPasses(cue) PROVE PlayerType'
  BY <1>4 DEF IntervalPasses, PlayerType
<1>5. CASE SetKeypress
  BY <1>5 DEF SetKeypress, PlayerType
<1>6. ASSUME NEW t, Opens(t) \/ LetsGo(t) \/ CueEnds(t) PROVE PlayerType'
  BY <1>6 DEF Opens, LetsGo, CueEnds, PlayerType
<1>7. CASE UNCHANGED soundVars
  BY <1>7 DEF soundVars, PlayerType
<1> QED
  BY <1>1, <1>2, <1>3, <1>4, <1>5, <1>6, <1>7 DEF SoundNext, OutputThread

Shown == layout \in Keyboards \cup {"hidden"}
LEMMA ShownStarts == OskInit => Shown
  BY DEF OskInit, Shown
LEMMA ShownKept == Shown /\ [OskNext]_oskVars => Shown'
<1> SUFFICES ASSUME Shown, [OskNext]_oskVars PROVE Shown'
  OBVIOUS
<1>1. ASSUME NEW key \in Keys, Press(key) PROVE Shown'
  BY <1>1 DEF Press, Shown
<1> QED
  BY <1>1 DEF OskNext, ShowKeyboard, oskVars, Shown

(***************************************************************************)
(* In every scene                                                          *)
(***************************************************************************)
SceneInv ==
  /\ Inv /\ ConfigInv /\ SettingsType
  /\ SoundInv /\ PlayerType
  /\ OskInv /\ Shown

LEMMA SceneStarts == Init => SceneInv
<1> HAVE Init
<1>1. SettingsInit /\ OskInit /\ SoundInit
  BY DEF Init
<1> QED
  BY <1>1, InitInv, InitConfig, TypeStarts, SoundInitInv, PlayerStarts, OskInitInv, ShownStarts
  DEF SceneInv

LEMMA SceneSteps ==
  [Next]_vars => [SettingsNext]_settingsVars /\ [SoundNext]_soundVars /\ [OskNext]_oskVars
  BY DEF Next, vars

LEMMA SceneKept == SceneInv /\ [Next]_vars => SceneInv'
<1> SUFFICES ASSUME SceneInv, [Next]_vars PROVE SceneInv'
  OBVIOUS
<1>1. [SettingsNext]_settingsVars /\ [SoundNext]_soundVars /\ [OskNext]_oskVars
  BY SceneSteps
<1>2. Inv' /\ ConfigInv' /\ SettingsType'
  BY <1>1, NextInv, NextConfig, TypeKept DEF SceneInv
<1>3. SoundInv' /\ PlayerType'
  BY <1>1, SoundNextInv, PlayerKept DEF SceneInv
<1>4. OskInv' /\ Shown'
  BY <1>1, OskNextInv, ShownKept DEF SceneInv
<1> QED
  BY <1>2, <1>3, <1>4 DEF SceneInv

LEMMA SceneType == SceneInv => TypeOK
<1> SUFFICES ASSUME SceneInv PROVE TypeOK
  OBVIOUS
<1>1. /\ Usable(cfg) /\ WellFormed(dialog.draft) /\ (writing # Idle => Usable(writing.config))
      /\ Saving
  BY DEF SceneInv, Inv, ConfigInv, Configured
<1>2. Usable(writing.config)
  <2>1. Idle.config = DefaultConfig
    BY DEF Idle
  <2> QED
    BY <1>1, <2>1, DefaultUsable
<1>3. ASSUME NEW c, Usable(c), "default" \in DOMAIN c.profiles PROVE ConfigOk(c) /\ Valid(c)
  <2>1. DOMAIN c.fields = Fields /\ Valid(c)
    BY <1>3 DEF Usable, WellFormed
  <2>2. "font_size" \in Fields => c.fields.font_size \in Nat
    BY <1>3, UsableFont
  <2> QED
    BY <1>3, <2>1, <2>2 DEF ConfigOk
<1>4. ConfigOk(cfg) /\ Valid(cfg) /\ ConfigOk(writing.config) /\ Valid(writing.config)
  BY <1>1, <1>2, <1>3 DEF SceneInv, SettingsType, ProfilesType
<1>5. ConfigOk(dialog.draft)
  <2>1. DOMAIN dialog.draft.fields = Fields
    BY <1>1 DEF WellFormed
  <2> QED
    BY <2>1 DEF ConfigOk, SceneInv, SettingsType, ProfilesType, DialogType
<1>6. LoadLayer(Whole(NoFields, NoProfiles, <<>>))
  <2> DEFINE w == Whole(NoFields, NoProfiles, <<>>)
  <2>1. w.is = "whole" /\ w.version = SCHEMA_VERSION /\ w.fields = NoFields /\ w.profiles = NoProfiles /\ w.keys = <<>>
    BY DEF Whole
  <2>2. DOMAIN NoFields = {} /\ DOMAIN <<>> = {}
    BY DEF NoFields
  <2> HIDE DEF w
  <2>3. Valid(w)
    <3>1. DOMAIN NoProfiles = {}
      BY NoProfilesAre
    <3> QED
      BY <2>1, <2>2, <3>1, Zenon DEF Valid
  <2>4. LoadLayer(w)
    BY <2>1, <2>3 DEF LoadLayer
  <2> QED
    BY <2>4 DEF w
<1>7. /\ phase \in {"down", "normal", "safe", "no_paths"} /\ steps \in 0..MaxSteps
      /\ DOMAIN look = Previewed /\ dialog.open \in BOOLEAN /\ DOMAIN dialog.edits = ActionIds
      /\ writing.at \in {"idle", "create", "write", "backup", "copy", "rename"}
  BY DEF SceneInv, SettingsType, DialogType
<1>8. (dialog.open \/ writing # Idle => Running) /\ ~(dialog.open /\ writing # Idle)
  BY <1>1 DEF Saving
<1>9. \A name \in DOMAIN files : files[name].is \in {"missing", "unreadable", "torn", "whole"}
  BY DEF SceneInv, SettingsType, FilesType, Whiches
<1>10. held \subseteq {"shift", "ctrl", "alt"} /\ caps \in BOOLEAN /\ layout \in Keyboards \cup {"hidden"}
  BY DEF SceneInv, OskInv, Shown
<1>11. /\ output.is \in {"idle", "opening", "ready", "unavailable"} /\ output.thread \in 0..openings
       /\ recent \subseteq Cues /\ active \in Nat
  BY DEF SceneInv, PlayerType, SoundInv
<1> QED
  BY <1>4, <1>5, <1>6, <1>7, <1>8, <1>9, <1>10, <1>11 DEF TypeOK

(* Settings, the on-screen keyboard and the sound player keep their types; *)
(* whatever is loaded or saved is a valid configuration with the default   *)
(* profile (config/load.rs, ui/settings.rs, osk/state.rs, player.rs).      *)
THEOREM SettingsTypes == Spec => []TypeOK
<1>1. Spec => []SceneInv
  BY SceneStarts, SceneKept, PTL DEF Spec
<1> QED
  BY <1>1, SceneType, PTL

(***************************************************************************)
(* What the dialog shows and offers                                        *)
(***************************************************************************)
LEMMA SaysMissing == \A f : SaysOf(Missing, f) /\ SaysOf([Missing EXCEPT !.is = "unreadable"], f)
<1>1. Missing.is # "whole" /\ [Missing EXCEPT !.is = "unreadable"].is # "whole"
  BY SMT DEF Missing
<1> QED
  BY <1>1 DEF SaysOf, LoadLayer

LEMMA SaysOther ==
  \A f, v : LET file == Whole(OnlyField(f, v), NoProfiles, <<>>)
            IN  /\ SaysOf(file, f) /\ SaysOf([file EXCEPT !.version = 0], f)
                /\ SaysOf([file EXCEPT !.version = 2], f)
<1> TAKE f, v
<1> DEFINE file == Whole(OnlyField(f, v), NoProfiles, <<>>)
<1>1. SaysOf(file, f)
  BY DEF SaysOf
<1>2. [file EXCEPT !.version = 0].version = 0 /\ [file EXCEPT !.version = 2].version = 2
  BY DEF Whole
<1>3. ~LoadLayer([file EXCEPT !.version = 0]) /\ ~LoadLayer([file EXCEPT !.version = 2])
  <2> HIDE DEF file
  <2> QED
    BY <1>2 DEF LoadLayer, SCHEMA_VERSION
<1> QED
  BY <1>1, <1>3 DEF SaysOf

FieldFile(which, f, v) ==
  CASE which = "missing" -> Missing
    [] which = "unreadable" -> [Missing EXCEPT !.is = "unreadable"]
    [] which = "older" -> [Whole(OnlyField(f, v), NoProfiles, <<>>) EXCEPT !.version = 0]
    [] which = "newer" -> [Whole(OnlyField(f, v), NoProfiles, <<>>) EXCEPT !.version = 2]
    [] OTHER -> Whole(OnlyField(f, v), NoProfiles, <<>>)

LEMMA FileSays == \A which, f, v : SaysOf(FieldFile(which, f, v), f)
<1> TAKE which, f, v
<1> DEFINE whole == Whole(OnlyField(f, v), NoProfiles, <<>>)
           older == [whole EXCEPT !.version = 0]
           newer == [whole EXCEPT !.version = 2]
           unreadable == [Missing EXCEPT !.is = "unreadable"]
<1>1. /\ SaysOf(whole, f) /\ SaysOf(older, f) /\ SaysOf(newer, f)
      /\ SaysOf(Missing, f) /\ SaysOf(unreadable, f)
  BY SaysMissing, SaysOther
<1>2. FieldFile(which, f, v) =
        CASE which = "missing" -> Missing [] which = "unreadable" -> unreadable
          [] which = "older" -> older [] which = "newer" -> newer [] OTHER -> whole
  BY DEF FieldFile
<1> HIDE DEF whole, older, newer, unreadable
<1> QED
  BY <1>1, <1>2

(* The field is read back as it was set.                                   *)
Back(which, f, byHand, set) ==
  LET files0 == [config |-> FieldFile(which, f, byHand), overrides |-> Missing]
      base == LoadEffective(OneField(f, Defaults[f]), files0, TRUE)
      next == [files0 EXCEPT !.overrides = OverridesToml(base, OneField(f, set))]
  IN LoadEffective(OneField(f, Defaults[f]), next, FALSE) = OneField(f, set)

LEMMA FieldBack ==
  ASSUME NEW which, NEW f \in DOMAIN Defaults, NEW byHand, NEW set, ValidField(f, set)
  PROVE  Back(which, f, byHand, set)
<1>1. ValidField(f, Defaults[f])
  BY DefaultsValid DEF FieldsValid
<1>2. SaysOf(FieldFile(which, f, byHand), f)
  BY FileSays
<1> QED
  BY <1>1, <1>2, FieldReadsBack DEF Back

(* What the dialog does with one field of its table.                       *)
FieldBehaves(which, f, c, mode) ==
  LET offered == Rows[c][f]
  IN /\ ValidField(f, Defaults[f])
     /\ IF mode = "reset"
          THEN /\ f \in ResetBy[c]
               /\ \A other \in DOMAIN ResetBy \ {c} : f \notin ResetBy[other]
               /\ \A byHand \in offered : Back(which, f, byHand, Defaults[f])
          ELSE /\ f \notin Typed => \A v \in offered : ValidField(f, v)
               /\ \A set \in {v \in offered : ValidField(f, v)} :
                    Back(which, f, CHOOSE v \in offered : TRUE, set)

LEMMA FieldReloadsIs ==
  FieldReloads = FieldBehaves(input.file, input.field, input.category, input.mode)
  BY DEF FieldReloads, FieldBehaves, Back, FieldFile, OneField, OnlyField

(* validate, panels and reset_section: a field of the table is reset by    *)
(* its own section, and every valid value offered for it is read back.     *)
LEMMA RowsBehave ==
  \A c \in DOMAIN Rows : \A f \in DOMAIN Rows[c] : \A which, mode : FieldBehaves(which, f, c, mode)
<1> TAKE c \in DOMAIN Rows
<1> TAKE f \in DOMAIN Rows[c]
<1> TAKE which, mode
<1>1. f \in ResetBy[c] /\ f \in DOMAIN Defaults /\ c \in DOMAIN ResetBy
  BY CategoriesAre, RowsReset, SectionsDefault
<1>2. \A other \in DOMAIN ResetBy \ {c} : f \notin ResetBy[other]
  BY <1>1, CategoriesAre, SectionsApart
<1>3. ValidField(f, Defaults[f])
  BY <1>1, DefaultsValid DEF FieldsValid
<1>4. \A byHand, set : ValidField(f, set) => Back(which, f, byHand, set)
  BY <1>1, FieldBack
<1>5. f \notin Typed => \A v \in Rows[c][f] : ValidField(f, v)
  BY CategoriesAre, OfferedValid
<1>6. \A byHand \in Rows[c][f] : Back(which, f, byHand, Defaults[f])
  BY <1>3, <1>4
<1>7. \A set \in {v \in Rows[c][f] : ValidField(f, v)} :
        Back(which, f, CHOOSE v \in Rows[c][f] : TRUE, set)
  BY <1>4
<1> QED
  BY <1>1, <1>2, <1>3, <1>5, <1>6, <1>7, Zenon DEF FieldBehaves

(* The texts that are tried are lists, and valid.                          *)
LEMMA ShortLists ==
  \A a, b, c, d, e : /\ ListOf(<<a>>) /\ ListOf(<<a, b>>) /\ ListOf(<<a, b, c>>)
                     /\ ListOf(<<a, b, c, d, e>>)
<1>1. \A T : \A s \in Seq(T) : s \in Seq(Range(s))
  BY DEF Range
<1> TAKE a, b, c, d, e
<1>2. /\ <<a>> \in Seq({a}) /\ <<a, b>> \in Seq({a, b}) /\ <<a, b, c>> \in Seq({a, b, c})
      /\ <<a, b, c, d, e>> \in Seq({a, b, c, d, e})
  OBVIOUS
<1> QED
  BY <1>1, <1>2, Zenon DEF ListOf

TextAllowed(text) == KeysValid(text) /\ ListOf(text)

LEMMA SingleTextsAllowed == \A text \in SingleTexts : TextAllowed(text)
<1>1. \A text \in SingleTexts : KeysValid(text)
  BY DEF SingleTexts
<1>2. \A key : ListOf(CS(key)) /\ ListOf(Cmd(key))
  BY ShortLists, Zenon DEF CS, Cmd
<1>3. ASSUME NEW text \in SingleTexts PROVE ListOf(text)
  <2>1. \/ \E key : text = CS(key) \/ text = Cmd(key)
        \/ \E a : text = <<a>>
        \/ \E a, b : text = <<a, b>>
        \/ \E a, b, c : text = <<a, b, c>>
        \/ \E a, b, c, d, e : text = <<a, b, c, d, e>>
    BY Zenon DEF SingleTexts
  <2> QED
    BY <1>2, <2>1, ShortLists, Zenon
<1> QED
  BY <1>1, <1>3 DEF TextAllowed

LEMMA ShortValid ==
  /\ \A a : a \notin {"", "+"} => KeysValid(<<a>>)
  /\ \A a, b : a \notin {"", "+"} /\ b \notin {"", "+"} => KeysValid(<<a, b>>)
  /\ \A a, b, c : a \notin {"", "+"} /\ b \notin {"", "+"} /\ c \notin {"", "+"} =>
                 KeysValid(<<a, b, c>>)
<1>1. \A a : Range(<<a>>) = {a} /\ <<a>> # <<>>
  BY DEF Range
<1>2. \A a, b : Range(<<a, b>>) = {a, b} /\ <<a, b>> # <<>>
  BY DEF Range
<1>3. \A a, b, c : Range(<<a, b, c>>) = {a, b, c} /\ <<a, b, c>> # <<>>
  BY DEF Range
<1> DEFINE bad == {"", "+"}
<1>4. \A text : KeysValid(text) <=> text # <<>> /\ Range(text) \cap bad = {}
  BY DEF KeysValid
<1> HIDE DEF bad
<1>5. \A a : a \notin bad => KeysValid(<<a>>)
  <2> TAKE a
  <2> HAVE a \notin bad
  <2>1. {a} \cap bad = {}
    OBVIOUS
  <2>2. <<a>> # <<>> /\ Range(<<a>>) = {a}
    BY <1>1
  <2> QED
    BY <1>4, <2>1, <2>2, Zenon
<1>6. \A a, b : a \notin bad /\ b \notin bad => KeysValid(<<a, b>>)
  BY <1>2, <1>4
<1>7. \A a, b, c : a \notin bad /\ b \notin bad /\ c \notin bad => KeysValid(<<a, b, c>>)
  BY <1>3, <1>4
<1> QED
  BY <1>5, <1>6, <1>7, Zenon DEF bad

LEMMA PairTextsAllowed ==
  /\ \A text \in PairTexts : TextAllowed(text)
  /\ \A text \in {<<"none">>, <<"alt", "q">>} : TextAllowed(text)
<1>1. /\ "none" \notin {"", "+"} /\ "ctrl" \notin {"", "+"} /\ "shift" \notin {"", "+"}
      /\ "c" \notin {"", "+"} /\ "pagedown" \notin {"", "+"} /\ "alt" \notin {"", "+"}
      /\ "q" \notin {"", "+"}
  BY Zenon
<1>2. /\ TextAllowed(<<"none">>) /\ TextAllowed(<<"ctrl", "shift", "c">>)
      /\ TextAllowed(<<"shift", "pagedown">>) /\ TextAllowed(<<"alt", "q">>)
  BY <1>1, ShortValid, ShortLists, Zenon DEF TextAllowed
<1> QED
  BY <1>2, Zenon DEF PairTexts, CS

(* Keymap::build and the dialog, for such a list of overrides.             *)
LEMMA ListHonest ==
  ASSUME NEW T, NEW overrides \in Seq(T), \A o \in Range(overrides) : TextAllowed(o.keys),
         NEW mac \in BOOLEAN
  PROVE  HonestAndReopens(overrides, mac, Build(overrides, mac))
<1> DEFINE keymap == Build(overrides, mac)
           again == KeybindingOverrides(Edits(keymap, mac), Build(<<>>, mac))
<1>1. TextsAllowed(overrides)
  BY DEF TextsAllowed, TextAllowed
<1>2. again = WrittenAgain(overrides, mac)
  BY DEF WrittenAgain
<1>3. Unambiguous(Chosen(overrides, mac), keymap)
  BY KeymapUnambiguous
<1>4. /\ \A id : \A chord \in ShortcutFor(keymap, id) :
           ParseChord(Display(chord, mac)) = {chord}
      /\ overrides = <<>> => keymap.refused = {} /\ again = <<>>
      /\ (\A o \in Range(overrides) : InOwnContext(o)) =>
           KeyErrors(again, mac) = {} /\ Build(again, mac).bindings = keymap.bindings
  BY <1>1, <1>2, KeysReopen
<1> HIDE DEF keymap, again
<1>5. ShowsAsTyped(mac, keymap)
  BY <1>4 DEF ShowsAsTyped
<1>6. \A o : OwnContext(o) <=> InOwnContext(o)
  BY DEF OwnContext, InOwnContext
<1>7. Reopens(overrides, mac, keymap, again)
  BY <1>4, <1>6, Zenon DEF Reopens
<1>8. HonestAndReopens(overrides, mac, keymap) <=>
        /\ Unambiguous(Chosen(overrides, mac), keymap) /\ ShowsAsTyped(mac, keymap)
        /\ Reopens(overrides, mac, keymap, again)
  BY Zenon DEF HonestAndReopens, again
<1>9. HonestAndReopens(overrides, mac, keymap)
  BY <1>3, <1>5, <1>7, <1>8
<1> QED
  BY <1>9 DEF keymap

KeysHonest(i) ==
  i.what = "keys" /\ HonestAndReopens(i.overrides, i.mac, Build(i.overrides, i.mac))

LEMMA ListInput ==
  ASSUME NEW T, NEW overrides \in Seq(T), \A o \in Range(overrides) : TextAllowed(o.keys),
         NEW mac \in BOOLEAN
  PROVE  KeysHonest(KeyInput(overrides, mac))
<1> DEFINE i == KeyInput(overrides, mac)
<1>1. i.what = "keys" /\ i.overrides = overrides /\ i.mac = mac
  BY DEF KeyInput
<1>2. HonestAndReopens(overrides, mac, Build(overrides, mac))
  BY ListHonest
<1> HIDE DEF i
<1>3. KeysHonest(i)
  BY <1>1, <1>2 DEF KeysHonest
<1> QED
  BY <1>3 DEF i

LEMMA NoneOrFew ==
  /\ \A mac \in BOOLEAN : KeysHonest(KeyInput(<<>>, mac))
  /\ \A o : TextAllowed(o.keys) => \A mac \in BOOLEAN : KeysHonest(KeyInput(<<o>>, mac))
  /\ \A o, p : TextAllowed(o.keys) /\ TextAllowed(p.keys) =>
       \A mac \in BOOLEAN : KeysHonest(KeyInput(<<o, p>>, mac))
<1>1. ASSUME NEW mac \in BOOLEAN PROVE KeysHonest(KeyInput(<<>>, mac))
  <2>1. <<>> \in Seq({}) /\ Range(<<>>) = {}
    BY DEF Range
  <2> QED
    BY <2>1, ListInput
<1>2. ASSUME NEW o, TextAllowed(o.keys), NEW mac \in BOOLEAN PROVE KeysHonest(KeyInput(<<o>>, mac))
  <2>1. <<o>> \in Seq({o}) /\ Range(<<o>>) = {o}
    BY DEF Range
  <2> QED
    BY <1>2, <2>1, ListInput
<1>3. ASSUME NEW o, NEW p, TextAllowed(o.keys), TextAllowed(p.keys), NEW mac \in BOOLEAN
      PROVE  KeysHonest(KeyInput(<<o, p>>, mac))
  <2>1. <<o, p>> \in Seq({o, p}) /\ Range(<<o, p>>) = {o, p}
    BY DEF Range
  <2> QED
    BY <1>3, <2>1, ListInput
<1> QED
  BY <1>1, <1>2, <1>3

LEMMA SingleAllowed ==
  ASSUME NEW actions, NEW texts, \A text \in texts : TextAllowed(text)
  PROVE  \A o \in Single(actions, texts) : TextAllowed(o.keys)
<1>1. \A a, c, t : Override(a, c, t).keys = t
  BY DEF Override
<1> QED
  BY <1>1 DEF Single

LEMMA KeyInputsHonest == \A i \in KeyInputs : KeysHonest(i)
<1> DEFINE A == {KeyInput(<<>>, mac) : mac \in BOOLEAN}
           L == Single({"new_tab", "copy", "scroll_page_up", "reset_layout", "sound", "nonsense"},
                       SingleTexts)
           P == {Override(a, InfoOf(a).context, t) :
                   a \in {"copy", "zoom", "reset_layout"}, t \in PairTexts}
           Q == Single({"copy", "zoom"}, {<<"none">>, <<"alt", "q">>})
           One(o, mac) == KeyInput(<<o>>, mac)
           Two(o, p) == KeyInput(<<o, p>>, FALSE)
           OnMac(o, p) == KeyInput(<<o, p>>, TRUE)
           B == {One(o, mac) : o \in L, mac \in BOOLEAN}
           C == {Two(o, p) : o, p \in P}
           D == {OnMac(o, p) : o, p \in Q}
<1>1. KeyInputs = A \cup B \cup C \cup D
  BY DEF KeyInputs
<1>2. \A o \in L : TextAllowed(o.keys)
  BY SingleTextsAllowed, SingleAllowed
<1>3. \A o \in Q : TextAllowed(o.keys)
  BY PairTextsAllowed, SingleAllowed
<1>4. \A o \in P : TextAllowed(o.keys)
  <2>1. \A a, c, t : Override(a, c, t).keys = t
    BY DEF Override
  <2> QED
    BY <2>1, PairTextsAllowed
<1> HIDE DEF L, P, Q
<1>5. \A o \in L : \A mac \in BOOLEAN : KeysHonest(One(o, mac))
  BY <1>2, NoneOrFew, Zenon
<1>6. \A o, p \in P : KeysHonest(Two(o, p))
  BY <1>4, NoneOrFew, Zenon
<1>7. \A o, p \in Q : KeysHonest(OnMac(o, p))
  BY <1>3, NoneOrFew, Zenon
<1>8. \A i \in A : KeysHonest(i)
  BY NoneOrFew, Zenon
<1> HIDE DEF One, Two, OnMac
<1>9. \A i \in B : KeysHonest(i)
  BY <1>5
<1>10. (\A i \in C : KeysHonest(i)) /\ (\A i \in D : KeysHonest(i))
  BY <1>6, <1>7
<1> HIDE DEF A, B, C, D
<1> QED
  BY <1>1, <1>8, <1>9, <1>10

(* The inputs of the other parts show nothing in the dialog.               *)
LEMMA OtherKinds ==
  /\ NoInput.what = "nothing"
  /\ \A i \in NamedInputs : i.what = "named"
  /\ \A i \in PressInputs : i.what = "press"
  /\ \A i \in PasteInputs : i.what = "paste"
  /\ \A i \in MouseInputs : i.what = "mouse"
  /\ \A i \in WheelInputs : i.what = "wheel"
<1>1. NoInput.what = "nothing"
  BY DEF NoInput
<1>2. \A i \in NamedInputs : i.what = "named"
  BY DEF NamedInputs
<1>3. \A i \in PressInputs : i.what = "press"
  BY DEF PressInputs
<1>4. \A i \in PasteInputs : i.what = "paste"
  BY DEF PasteInputs
<1>5. \A i \in MouseInputs : i.what = "mouse"
  BY DEF MouseInputs
<1>6. \A i \in WheelInputs : i.what = "wheel"
  BY DEF WheelInputs
<1> QED
  BY <1>1, <1>2, <1>3, <1>4, <1>5, <1>6

InputInv == input \in Inputs \cup {NoInput}

LEMMA HonestInputs == InputInv => DialogHonest
<1> HAVE InputInv
<1>1. CASE input \in KeyInputs
  <2>1. KeysHonest(input)
    BY <1>1, KeyInputsHonest
  <2> QED
    BY <2>1, Zenon DEF KeysHonest, DialogHonest
<1>2. CASE input \in LayerInputs /\ input.field \in DOMAIN Rows[input.category]
  <2>1. input.what = "layers" /\ input.category \in DOMAIN Rows
    <3>1. \A i \in LayerInputs : i.category \in DOMAIN Rows
      <4> DEFINE K == DOMAIN Rows
                 F == UNION {DOMAIN Rows[k] : k \in DOMAIN Rows}
                 X == {"missing", "whole", "older", "newer", "unreadable"}
                 M == {"offered", "reset"}
      <4>1. LayerInputs =
              {[what |-> "layers", field |-> f, category |-> c, file |-> file, mode |-> mode] :
                 c \in K, f \in F, file \in X, mode \in M}
        BY DEF LayerInputs
      <4>2. K = DOMAIN Rows
        OBVIOUS
      <4> HIDE DEF K, F, X, M
      <4>3. \A i \in LayerInputs : i.category \in K
        BY <4>1
      <4> QED
        BY <4>2, <4>3
    <3> QED
      BY <1>2, <3>1, LayerInputsAre
  <2>2. FieldReloads
    BY <1>2, <2>1, RowsBehave, FieldReloadsIs
  <2>3. "layers" # "keys"
    OBVIOUS
  <2> QED
    BY <2>1, <2>2, <2>3, Zenon DEF DialogHonest
<1>3. CASE input.what \in {"nothing", "named", "press", "paste", "mouse", "wheel"}
  <2>1. input.what # "keys" /\ input.what # "layers"
    BY <1>3
  <2> QED
    BY <2>1, Zenon DEF DialogHonest
<1>4. \/ input \in KeyInputs
      \/ input \in LayerInputs /\ input.field \in DOMAIN Rows[input.category]
      \/ input \in NamedInputs \cup PressInputs \cup PasteInputs \cup MouseInputs \cup WheelInputs
      \/ input = NoInput
  BY Zenon DEF InputInv, Inputs
<1> QED
  BY <1>1, <1>2, <1>3, <1>4, OtherKinds, SMT

LEMMA InputStays == InputInv /\ [Next]_vars => InputInv'
<1> SUFFICES ASSUME InputInv, [Next]_vars PROVE InputInv'
  OBVIOUS
<1>1. UNCHANGED input
  BY DEF Next, vars
<1> QED
  BY <1>1, Zenon DEF InputInv

(* What the settings dialog shows and offers works: its shortcuts run and  *)
(* are read as they are shown, typing is never taken, what it writes binds *)
(* the same keys again, and every field of its table is saved, read back   *)
(* and reset (Keymap::build, keybinding_overrides, panels, reset_section,  *)
(* validate).                                                              *)
THEOREM DialogIsHonest == Spec => []DialogHonest
<1>1. Init => InputInv
  BY DEF Init, InputInv
<1>2. Spec => []InputInv
  BY <1>1, InputStays, PTL DEF Spec
<1> QED
  BY <1>2, HonestInputs, PTL
=============================================================================
