----------------------- MODULE ProviderStreamsProofs -----------------------
(***************************************************************************)
(* Calls run as they were sent, and requests pair them with their answers, *)
(* for any number of rounds, calls and pieces and any set of response ids. *)
(*                                                                         *)
(* The argument is about what is Pending: the whole lines in the buffer    *)
(* and those on the wire, in order.  A chunk moves lines from the one to   *)
(* the other and leaves Pending alone, wherever it cuts.  While the chat   *)
(* parser gathers, what has come of a call (Seen) and what is pending of   *)
(* it make up, piece after piece, all that was said of it (Chat); so at    *)
(* finish_reason, the last line there is, what is gathered is whole.  The  *)
(* responses parser's items follow each other in the order of their        *)
(* indexes, after response.created (ItemsOK, NamedFirst).  A broken        *)
(* connection takes away the last lines only, with the one that ends.      *)
(*                                                                         *)
(* What a request holds is computed by recursive functions over outputs;   *)
(* Induction carries what one step keeps (GroupedOK, ConcatPaired) to all  *)
(* of them (OutputGroupsOK, FlattenPaired), and the turn keeps outputs in  *)
(* the order of their rounds, each as its round told it (OutputsOK).       *)
(***************************************************************************)
EXTENDS ProviderStreams, SequenceTheorems, FiniteSetTheorems, WellFoundedInduction, TLAPS

-----------------------------------------------------------------------------
(***************************************************************************)
(* Induction over numbers, which the recursive functions need              *)
(***************************************************************************)
\* A set of numbers has a smallest.
LEMMA SmallestNumber ==
    ASSUME NEW T, T \subseteq Nat, T # {}
    PROVE  \E x \in T : \A y \in T : x <= y
<1> DEFINE R == {ss \in Nat \X Nat : ss[1] < ss[2]}
<1>1. OpToRel(<, Nat) = R
  BY Zenon DEF OpToRel
<1>2. IsWellFoundedOn(R, Nat)
  BY <1>1, NatLessThanWellFounded
<1>3. PICK x \in T : \A y \in T : <<y, x>> \notin R
  <2> HIDE DEF R
  <2> QED
    BY <1>2, WFMin
<1>4. \A y \in T : ~(y < x)
  BY <1>3
<1> HIDE DEF R
<1> QED
  BY <1>4

\* A set that has 0, and the next of every number it has, has all numbers.
LEMMA Induction ==
    ASSUME NEW S, 0 \in S, \A n \in Nat : n \in S => n + 1 \in S
    PROVE  \A n \in Nat : n \in S
<1> DEFINE T == Nat \ S
<1>1. CASE T # {}
  <2>1. PICK x \in T : \A y \in T : x <= y
    <3> HIDE DEF T
    <3>1. T \subseteq Nat
      BY DEF T
    <3> QED
      BY <1>1, <3>1, SmallestNumber
  <2>2. x - 1 \in Nat /\ x - 1 \notin T
    BY <2>1
  <2> QED
    BY <2>1, <2>2
<1>2. CASE T = {}
  BY <1>2
<1> QED
  BY <1>1, <1>2

\* The function that OutputGroups chooses exists, and is what its definition says.
LEMMA GroupingDef ==
    ASSUME NEW all, Len(all) \in Nat
    PROVE  \E h : /\ h = [n \in 0 .. Len(all) |-> IF n = 0 THEN <<>> ELSE Grouped(h[n - 1], all[n])]
                  /\ OutputGroups(all) = h[Len(all)]
<1> DEFINE Eq(h, m) == h = [n \in 0 .. m |-> IF n = 0 THEN <<>> ELSE Grouped(h[n - 1], all[n])]
           S == {m \in Nat : \E h : Eq(h, m)}
<1>1. 0 \in S
  <2>1. Eq([n \in 0 .. 0 |-> <<>>], 0)
    OBVIOUS
  <2> QED
    BY <2>1
<1>2. ASSUME NEW m \in Nat, m \in S PROVE m + 1 \in S
  <2>1. PICK h : Eq(h, m)
    BY <1>2
  <2> DEFINE g == [n \in 0 .. m + 1 |-> IF n = m + 1 THEN Grouped(h[m], all[m + 1]) ELSE h[n]]
  <2>2. Eq(g, m + 1)
    <3>1. \A n \in 0 .. m + 1 : g[n] = IF n = 0 THEN <<>> ELSE Grouped(g[n - 1], all[n])
      BY <2>1
    <3> QED
      BY <3>1
  <2>3. \E k : Eq(k, m + 1)
    <3> HIDE DEF g, Eq
    <3> QED
      BY <2>2
  <2> QED
    BY <2>3
<1>3. Len(all) \in S
  <2> HIDE DEF S
  <2> QED
    BY <1>1, <1>2, Induction
<1>4. \E h : Eq(h, Len(all))
  BY <1>3
<1> DEFINE c == CHOOSE h : Eq(h, Len(all))
<1>5. Eq(c, Len(all))
  BY <1>4
<1>6. OutputGroups(all) = c[Len(all)]
  BY DEF OutputGroups
<1> QED
  BY <1>5, <1>6

-----------------------------------------------------------------------------
(***************************************************************************)
(* Sequences of messages                                                   *)
(***************************************************************************)
\* So is the one that FlattenSeq chooses.
LEMMA FlattenDef ==
    ASSUME NEW seqs, Len(seqs) \in Nat \ {0}
    PROVE  \E h : /\ h = [i \in 1 .. Len(seqs) |-> IF i = 1 THEN seqs[i] ELSE h[i - 1] \o seqs[i]]
                  /\ FlattenSeq(seqs) = h[Len(seqs)]
<1> DEFINE Eq(h, m) == h = [i \in 1 .. m |-> IF i = 1 THEN seqs[i] ELSE h[i - 1] \o seqs[i]]
           S == {m \in Nat : \E h : Eq(h, m)}
<1>1. 0 \in S
  <2>1. Eq([i \in 1 .. 0 |-> seqs[i]], 0)
    OBVIOUS
  <2> QED
    BY <2>1
<1>2. ASSUME NEW m \in Nat, m \in S PROVE m + 1 \in S
  <2>1. PICK h : Eq(h, m)
    BY <1>2
  <2> DEFINE g == [i \in 1 .. m + 1 |-> IF i = 1 THEN seqs[i]
                                        ELSE IF i = m + 1 THEN h[m] \o seqs[i] ELSE h[i]]
  <2>2. Eq(g, m + 1)
    <3>1. \A i \in 1 .. m : h[i] = IF i = 1 THEN seqs[i] ELSE h[i - 1] \o seqs[i]
      BY <2>1
    <3>2. \A i \in 1 .. m : g[i] = h[i]
      BY <3>1
    <3>3. g[m + 1] = IF m + 1 = 1 THEN seqs[m + 1] ELSE h[m] \o seqs[m + 1]
      OBVIOUS
    <3> HIDE DEF g
    <3>4. ASSUME NEW i \in 1 .. m + 1 PROVE g[i] = IF i = 1 THEN seqs[i] ELSE g[i - 1] \o seqs[i]
      <4>1. CASE i \in 1 .. m
        BY <3>1, <3>2, <4>1
      <4>2. CASE i = m + 1
        BY <3>2, <3>3, <4>2
      <4> QED
        BY <4>1, <4>2
    <3>5. DOMAIN g = 1 .. m + 1 /\ g = [i \in DOMAIN g |-> g[i]]
      BY DEF g
    <3> QED
      BY <3>4, <3>5
  <2>3. \E k : Eq(k, m + 1)
    <3> HIDE DEF g, Eq
    <3> QED
      BY <2>2
  <2> HIDE DEF Eq
  <2> QED
    BY <2>3
<1>3. Len(seqs) \in S
  <2> HIDE DEF S
  <2> QED
    BY <1>1, <1>2, Induction
<1>4. \E h : Eq(h, Len(seqs))
  BY <1>3
<1> DEFINE c == CHOOSE h : Eq(h, Len(seqs))
<1>5. Eq(c, Len(seqs))
  BY <1>4
<1>6. FlattenSeq(seqs) = c[Len(seqs)]
  BY DEF FlattenSeq
<1> QED
  BY <1>5, <1>6

CallIds == Nat \X Nat
Output  == [call : CallIds, text : BOOLEAN, response : Ids]
Message == [role : {"input"}] \cup [role : {"assistant"}, calls : Seq(CallIds), text : BOOLEAN]
           \cup [role : {"tool"}, call : CallIds]

Listing(m) == {i \in DOMAIN m : m[i].role = "assistant"}
Answers(m) == {i \in DOMAIN m : m[i].role = "tool"}
Called(m)  == {m[j].call : j \in Answers(m)}
Rounds(m)  == {c[1] : c \in Called(m)}

Paired(m) ==
    /\ \A i \in Listing(m) : \A k \in DOMAIN m[i].calls :
           i + k \in Answers(m) /\ m[i + k].call = m[i].calls[k]
    /\ \A j \in Answers(m) : \E i \in Listing(m) : j - i \in DOMAIN m[i].calls

\* What RoundsKeptApart asks of two messages that list calls c and d.
Together(i, j, first, c, d) ==
    /\ c[1] = d[1] => i = j
    /\ i = j => ids[c[1]] = ids[d[1]]
    /\ i = j /\ (\A e \in ToSet(first.calls) : e[1] = c[1]) => first.text = texts[c[1]]

Apart(m) ==
    \A i, j \in Listing(m) :
        \A c \in ToSet(m[i].calls), d \in ToSet(m[j].calls) : Together(i, j, m[i], c, d)

\* What a message is made of.
LEMMA MessageFields ==
    /\ Input.role = "input"
    /\ \A listed, text : /\ Assistant(listed, text).role = "assistant"
                         /\ Assistant(listed, text).calls = listed
                         /\ Assistant(listed, text).text = text
    /\ \A output : Tool(output).role = "tool" /\ Tool(output).call = output.call
BY DEF Input, Assistant, Tool

\* And what it can be read for.
LEMMA MessageTypes ==
    /\ Input \in Message
    /\ \A listed \in Seq(CallIds), text \in BOOLEAN : Assistant(listed, text) \in Message
    /\ \A output \in Output : Tool(output) \in Message
    /\ \A e \in Message : e.role = "assistant" => e.calls \in Seq(CallIds)
BY DEF Message, Input, Assistant, Tool, Output

\* A listed call is of a round the request answers.
LEMMA CalledAreAnswered ==
    ASSUME NEW m \in Seq(Message), Paired(m), NEW i \in Listing(m), NEW c \in ToSet(m[i].calls)
    PROVE  c[1] \in Rounds(m)
<1>1. PICK k \in DOMAIN m[i].calls : c = m[i].calls[k]
  BY DEF ToSet
<1>2. i + k \in Answers(m) /\ m[i + k].call = c
  BY <1>1 DEF Paired
<1> QED
  BY <1>2 DEF Rounds, Called

\* What a message of m1 \o m2 is.
LEMMA ConcatParts ==
    ASSUME NEW m1 \in Seq(Message), NEW m2 \in Seq(Message)
    PROVE  LET m == m1 \o m2
               n == Len(m1)
           IN  /\ n \in Nat /\ DOMAIN m1 = 1 .. n /\ DOMAIN m2 = 1 .. Len(m2) /\ Len(m2) \in Nat
               /\ m \in Seq(Message) /\ DOMAIN m = 1 .. n + Len(m2)
               /\ \A i \in DOMAIN m1 : i \in DOMAIN m /\ m[i] = m1[i]
               /\ \A i \in DOMAIN m2 : n + i \in DOMAIN m /\ m[n + i] = m2[i]
               /\ \A i \in DOMAIN m : i \in DOMAIN m1 \/ (i - n \in DOMAIN m2 /\ m[i] = m2[i - n])
               /\ Listing(m) = Listing(m1) \cup {n + i : i \in Listing(m2)}
               /\ Answers(m) = Answers(m1) \cup {n + i : i \in Answers(m2)}
<1> DEFINE m == m1 \o m2
           n == Len(m1)
<1>1. /\ n \in Nat /\ DOMAIN m1 = 1 .. n /\ DOMAIN m2 = 1 .. Len(m2) /\ Len(m2) \in Nat
      /\ m \in Seq(Message) /\ DOMAIN m = 1 .. n + Len(m2)
      /\ \A i \in 1 .. n + Len(m2) : m[i] = IF i <= n THEN m1[i] ELSE m2[i - n]
  BY LenProperties, ConcatProperties
<1> HIDE DEF m, n
<1>2. /\ \A i \in DOMAIN m1 : i \in DOMAIN m /\ m[i] = m1[i]
      /\ \A i \in DOMAIN m2 : n + i \in DOMAIN m /\ m[n + i] = m2[i]
      /\ \A i \in DOMAIN m : i \in DOMAIN m1 \/ (i - n \in DOMAIN m2 /\ m[i] = m2[i - n])
  BY <1>1
<1>3. \A i \in DOMAIN m : i \in DOMAIN m1 \/ \E k \in DOMAIN m2 : i = n + k
  <2>1. \A i \in DOMAIN m : i \in DOMAIN m1 \/ (i - n \in DOMAIN m2 /\ i = n + (i - n))
    BY <1>1
  <2> QED
    BY <2>1
<1>4. Listing(m) = Listing(m1) \cup {n + i : i \in Listing(m2)}
  BY <1>2, <1>3 DEF Listing
<1>5. Answers(m) = Answers(m1) \cup {n + i : i \in Answers(m2)}
  BY <1>2, <1>3 DEF Answers
<1> QED
  BY <1>1, <1>2, <1>4, <1>5 DEF m, n

\* Requests that pair calls and answers do so one after the other.
LEMMA ConcatPaired ==
    ASSUME NEW m1 \in Seq(Message), NEW m2 \in Seq(Message), Paired(m1), Paired(m2)
    PROVE  /\ m1 \o m2 \in Seq(Message)
           /\ Paired(m1 \o m2)
           /\ Called(m1 \o m2) = Called(m1) \cup Called(m2)
<1> DEFINE m == m1 \o m2
           n == Len(m1)
<1>1. /\ n \in Nat /\ DOMAIN m1 = 1 .. n /\ DOMAIN m2 = 1 .. Len(m2) /\ Len(m2) \in Nat
      /\ m \in Seq(Message) /\ DOMAIN m = 1 .. n + Len(m2)
      /\ \A i \in DOMAIN m1 : i \in DOMAIN m /\ m[i] = m1[i]
      /\ \A i \in DOMAIN m2 : n + i \in DOMAIN m /\ m[n + i] = m2[i]
      /\ Listing(m) = Listing(m1) \cup {n + i : i \in Listing(m2)}
      /\ Answers(m) = Answers(m1) \cup {n + i : i \in Answers(m2)}
  BY ConcatParts
<1>2. /\ Listing(m1) \subseteq DOMAIN m1 /\ Listing(m2) \subseteq DOMAIN m2
      /\ Answers(m1) \subseteq DOMAIN m1 /\ Answers(m2) \subseteq DOMAIN m2
  BY DEF Listing, Answers
<1>3. \A i \in Listing(m2) : DOMAIN m2[i].calls \subseteq Int
  <2> SUFFICES ASSUME NEW i \in Listing(m2) PROVE DOMAIN m2[i].calls \subseteq Int
    OBVIOUS
  <2>1. m2[i] \in Message /\ m2[i].role = "assistant"
    BY <1>1, ElementOfSeq DEF Listing
  <2>2. m2[i].calls \in Seq(CallIds)
    BY <2>1, MessageTypes
  <2> QED
    BY <2>2, LenProperties
<1> HIDE DEF m, n
<1>4. ASSUME NEW i \in Listing(m), NEW k \in DOMAIN m[i].calls
      PROVE  i + k \in Answers(m) /\ m[i + k].call = m[i].calls[k]
  <2>1. CASE i \in Listing(m1)
    <3>1. i + k \in Answers(m1) /\ m1[i + k].call = m1[i].calls[k]
      BY <1>1, <1>2, <1>4, <2>1 DEF Paired
    <3> QED
      BY <1>1, <1>2, <2>1, <3>1
  <2>2. ASSUME NEW j \in Listing(m2), i = n + j
        PROVE  i + k \in Answers(m) /\ m[i + k].call = m[i].calls[k]
    <3>1. m[i] = m2[j]
      BY <1>1, <1>2, <2>2
    <3>2. j + k \in Answers(m2) /\ m2[j + k].call = m2[j].calls[k]
      BY <1>4, <2>2, <3>1 DEF Paired
    <3>3. i + k = n + (j + k)
      BY <1>1, <1>2, <1>3, <1>4, <2>2, <3>1
    <3> QED
      BY <1>1, <1>2, <3>1, <3>2, <3>3
  <2> QED
    BY <1>1, <1>4, <2>1, <2>2
<1>5. ASSUME NEW j \in Answers(m)
      PROVE  \E i \in Listing(m) : j - i \in DOMAIN m[i].calls
  <2>1. CASE j \in Answers(m1)
    <3>1. PICK i \in Listing(m1) : j - i \in DOMAIN m1[i].calls
      BY <2>1 DEF Paired
    <3> QED
      BY <1>1, <1>2, <3>1
  <2>2. ASSUME NEW k \in Answers(m2), j = n + k
        PROVE  \E i \in Listing(m) : j - i \in DOMAIN m[i].calls
    <3>1. PICK i \in Listing(m2) : k - i \in DOMAIN m2[i].calls
      BY <2>2 DEF Paired
    <3>2. n + i \in Listing(m) /\ m[n + i] = m2[i] /\ j - (n + i) = k - i
      BY <1>1, <1>2, <2>2
    <3> QED
      BY <3>1, <3>2
  <2> QED
    BY <1>1, <1>5, <2>1, <2>2
<1>6. Called(m) = Called(m1) \cup Called(m2)
  BY <1>1, <1>2 DEF Called
<1> QED
  BY <1>1, <1>4, <1>5, <1>6 DEF Paired, m

\* So do requests that keep rounds apart, when no round is in both.
LEMMA ConcatApart ==
    ASSUME NEW m1 \in Seq(Message), NEW m2 \in Seq(Message), Paired(m1), Paired(m2),
           Apart(m1), Apart(m2), Rounds(m1) \cap Rounds(m2) = {}
    PROVE  Apart(m1 \o m2)
<1> DEFINE m == m1 \o m2
           n == Len(m1)
<1>1. /\ n \in Nat /\ DOMAIN m1 = 1 .. n /\ DOMAIN m2 = 1 .. Len(m2) /\ Len(m2) \in Nat
      /\ \A i \in DOMAIN m1 : m[i] = m1[i]
      /\ \A i \in DOMAIN m2 : m[n + i] = m2[i]
      /\ Listing(m) = Listing(m1) \cup {n + i : i \in Listing(m2)}
  BY ConcatParts
<1>2. Listing(m1) \subseteq DOMAIN m1 /\ Listing(m2) \subseteq DOMAIN m2
  BY DEF Listing
<1> HIDE DEF m, n
<1>3. ASSUME NEW i \in Listing(m), NEW j \in Listing(m),
             NEW c \in ToSet(m[i].calls), NEW d \in ToSet(m[j].calls)
      PROVE  Together(i, j, m[i], c, d)
  <2>1. CASE i \in Listing(m1) /\ j \in Listing(m1)
    BY <1>1, <1>2, <1>3, <2>1 DEF Apart
  <2>2. ASSUME NEW k \in Listing(m2), i = n + k, NEW l \in Listing(m2), j = n + l
        PROVE  Together(i, j, m[i], c, d)
    <3>1. m[i] = m2[k] /\ m[j] = m2[l] /\ (i = j <=> k = l)
      BY <1>1, <1>2, <2>2
    <3>2. Together(k, l, m2[k], c, d)
      BY <1>3, <3>1 DEF Apart
    <3> QED
      BY <3>1, <3>2 DEF Together
  <2>3. ASSUME NEW k \in Listing(m2), i = n + k, j \in Listing(m1)
        PROVE  Together(i, j, m[i], c, d)
    <3>1. m[i] = m2[k] /\ m[j] = m1[j] /\ i # j
      BY <1>1, <1>2, <2>3
    <3>2. c[1] \in Rounds(m2) /\ d[1] \in Rounds(m1)
      BY <1>3, <2>3, <3>1, CalledAreAnswered
    <3> QED
      BY <3>1, <3>2 DEF Together
  <2>4. ASSUME NEW l \in Listing(m2), j = n + l, i \in Listing(m1)
        PROVE  Together(i, j, m[i], c, d)
    <3>1. m[i] = m1[i] /\ m[j] = m2[l] /\ i # j
      BY <1>1, <1>2, <2>4
    <3>2. c[1] \in Rounds(m1) /\ d[1] \in Rounds(m2)
      BY <1>3, <2>4, <3>1, CalledAreAnswered
    <3> QED
      BY <3>1, <3>2 DEF Together
  <2> QED
    BY <1>1, <1>3, <2>1, <2>2, <2>3, <2>4
<1> QED
  BY <1>3 DEF Apart, m

\* No message is a request too.
LEMMA EmptyMessages ==
    /\ <<>> \in Seq(Message) /\ Paired(<<>>) /\ Apart(<<>>) /\ Called(<<>>) = {}
BY DEF Paired, Apart, Called, Listing, Answers

\* The calls in the first n of a sequence of message sequences.
CalledOf(seqs, n) == UNION {Called(seqs[k]) : k \in 1 .. n}

\* What two requests keep one after the other, any number of them keeps.
LEMMA FlattenPaired ==
    ASSUME NEW seqs, Len(seqs) \in Nat,
           \A g \in 1 .. Len(seqs) : seqs[g] \in Seq(Message) /\ Paired(seqs[g]),
           Len(seqs) = 0 => seqs = <<>>
    PROVE  /\ FlattenSeq(seqs) \in Seq(Message)
           /\ Paired(FlattenSeq(seqs))
           /\ Called(FlattenSeq(seqs)) = CalledOf(seqs, Len(seqs))
           /\ (\A g \in 1 .. Len(seqs) : Apart(seqs[g])
                  /\ \A k \in 1 .. g - 1 : Rounds(seqs[k]) \cap Rounds(seqs[g]) = {})
              => Apart(FlattenSeq(seqs))
<1> DEFINE Separate == \A g \in 1 .. Len(seqs) : Apart(seqs[g])
                           /\ \A k \in 1 .. g - 1 : Rounds(seqs[k]) \cap Rounds(seqs[g]) = {}
<1>1. CASE Len(seqs) = 0
  <2>1. FlattenSeq(seqs) = <<>>
    BY <1>1 DEF FlattenSeq
  <2>2. CalledOf(seqs, 0) = {}
    BY DEF CalledOf
  <2> QED
    BY <1>1, <2>1, <2>2, EmptyMessages
<1>2. CASE Len(seqs) # 0
  <2>1. PICK h : /\ h = [i \in 1 .. Len(seqs) |-> IF i = 1 THEN seqs[i] ELSE h[i - 1] \o seqs[i]]
                 /\ FlattenSeq(seqs) = h[Len(seqs)]
    BY <1>2, FlattenDef
  <2>2. \A i \in 1 .. Len(seqs) : h[i] = IF i = 1 THEN seqs[i] ELSE h[i - 1] \o seqs[i]
    BY <2>1
  <2> DEFINE Good(n) == /\ h[n] \in Seq(Message) /\ Paired(h[n]) /\ Called(h[n]) = CalledOf(seqs, n)
                        /\ Separate => Apart(h[n])
             S == {n \in Nat : n \in 1 .. Len(seqs) => Good(n)}
  <2>3. Good(1)
    <3>1. CalledOf(seqs, 1) = Called(seqs[1])
      BY DEF CalledOf
    <3>2. h[1] = seqs[1] /\ 1 \in 1 .. Len(seqs)
      BY <1>2, <2>2
    <3> QED
      BY <3>1, <3>2
  <2>4. ASSUME NEW n \in Nat, n \in 1 .. Len(seqs), n + 1 \in 1 .. Len(seqs), Good(n) PROVE Good(n + 1)
    <3>0. n + 1 # 1 /\ (n + 1) - 1 = n /\ n + 1 \in 1 .. Len(seqs)
      BY <2>4
    <3>1. h[n + 1] = h[n] \o seqs[n + 1]
      BY <2>2, <3>0
    <3>2. CalledOf(seqs, n + 1) = CalledOf(seqs, n) \cup Called(seqs[n + 1])
      <4>1. 1 .. n + 1 = (1 .. n) \cup {n + 1}
        OBVIOUS
      <4> QED
        BY <4>1 DEF CalledOf
    <3>3. /\ h[n + 1] \in Seq(Message) /\ Paired(h[n + 1])
          /\ Called(h[n + 1]) = CalledOf(seqs, n + 1)
      BY <2>4, <3>1, <3>2, ConcatPaired
    <3>4. ASSUME Separate PROVE Apart(h[n + 1])
      <4>1. Rounds(h[n]) \cap Rounds(seqs[n + 1]) = {}
        <5>1. \A k \in 1 .. n : Rounds(seqs[k]) \cap Rounds(seqs[n + 1]) = {}
          BY <3>0, <3>4
        <5>2. \A x \in Rounds(h[n]) : \E k \in 1 .. n : x \in Rounds(seqs[k])
          <6>1. Called(h[n]) = CalledOf(seqs, n)
            BY <2>4
          <6> QED
            BY <6>1 DEF CalledOf, Rounds
        <5> QED
          BY <5>1, <5>2
      <4> QED
        BY <2>4, <3>1, <3>4, <4>1, ConcatApart
    <3> QED
      BY <3>3, <3>4
  <2>5. 0 \in S
    OBVIOUS
  <2>6. ASSUME NEW n \in Nat, n \in S PROVE n + 1 \in S
    <3> HIDE DEF Good
    <3>1. CASE n = 0
      BY <2>3, <3>1
    <3>2. CASE n # 0
      BY <2>4, <2>6, <3>2
    <3> QED
      BY <3>1, <3>2
  <2>7. Len(seqs) \in S
    <3> HIDE DEF S
    <3> QED
      BY <2>5, <2>6, Induction
  <2>8. Good(Len(seqs))
    <3> HIDE DEF Good
    <3> QED
      BY <1>2, <2>7
  <2> QED
    BY <2>1, <2>8
<1> QED
  BY <1>1, <1>2

-----------------------------------------------------------------------------
(***************************************************************************)
(* Groups of outputs, and the requests made of them                        *)
(***************************************************************************)
Group == [response : Ids, outputs : Seq(Output), text : BOOLEAN]

\* An output of round r says what r said.
Told(output) == LET r == output.call[1] IN output.response = ids[r] /\ output.text = texts[r]

CalledIn(group) == {group.outputs[i].call : i \in DOMAIN group.outputs}
RoundsIn(group) == {group.outputs[i].call[1] : i \in DOMAIN group.outputs}

GroupOK(group) ==
    /\ group \in Group
    /\ group.outputs # <<>>
    /\ \A i \in DOMAIN group.outputs : Told(group.outputs[i]) /\ group.outputs[i].response = group.response
    /\ group.text <=> \E i \in DOMAIN group.outputs : group.outputs[i].text

\* A group's messages list its calls and answer them.
LEMMA GroupMessagesOK ==
    ASSUME NEW group, GroupOK(group)
    PROVE  LET m == GroupMessages(group)
           IN  /\ m \in Seq(Message) /\ Paired(m) /\ Apart(m)
               /\ Called(m) = CalledIn(group) /\ Rounds(m) = RoundsIn(group)
<1> DEFINE all == group.outputs
           n == Len(all)
           listed == [i \in DOMAIN all |-> all[i].call]
           m == GroupMessages(group)
<1>1. all \in Seq(Output) /\ n \in Nat /\ DOMAIN all = 1 .. n /\ group.text \in BOOLEAN
  BY LenProperties DEF GroupOK, Group
<1>2. \A i \in 1 .. n : all[i] \in Output /\ all[i].call \in CallIds
  <2>1. \A i \in 1 .. n : all[i] \in Output
    BY <1>1, ElementOfSeq
  <2> QED
    BY <2>1 DEF Output
<1>3. listed \in Seq(CallIds) /\ DOMAIN listed = 1 .. n
  BY <1>1, <1>2
<1>4. Assistant(listed, group.text) \in Message
  BY <1>1, <1>3, MessageTypes
<1> DEFINE first == <<Assistant(listed, group.text)>>
           rest == [i \in DOMAIN all |-> Tool(all[i])]
<1>5. /\ first \in Seq(Message) /\ Len(first) = 1 /\ first[1] = Assistant(listed, group.text)
  <2> HIDE DEF listed
  <2> QED
    BY <1>4
<1>6. rest \in Seq(Message) /\ Len(rest) = n
  BY <1>1, <1>2, MessageTypes
<1>7. m = first \o rest
  BY DEF GroupMessages
<1>8. /\ m \in Seq(Message) /\ DOMAIN m = 1 .. n + 1
      /\ m[1] = Assistant(listed, group.text)
      /\ \A i \in 1 .. n : m[i + 1] = Tool(all[i])
  <2>1. /\ Len(m) = 1 + n /\ m \in Seq(Message)
        /\ \A i \in 1 .. 1 + n : m[i] = IF i <= 1 THEN first[i] ELSE rest[i - 1]
    <3> HIDE DEF first, rest, m, listed
    <3> QED
      BY <1>1, <1>5, <1>6, <1>7, ConcatProperties
  <2>2. \A i \in 1 .. n : i + 1 \in 1 .. 1 + n /\ ~(i + 1 <= 1) /\ (i + 1) - 1 = i /\ rest[i] = Tool(all[i])
    BY <1>1
  <2> HIDE DEF m, listed, first, rest
  <2>3. m[1] = first[1] /\ 1 + n = n + 1
    BY <1>1, <2>1
  <2>4. \A i \in 1 .. n : m[i + 1] = Tool(all[i])
    BY <2>1, <2>2
  <2> QED
    BY <1>5, <2>1, <2>3, <2>4, LenProperties
<1>9. /\ Listing(m) = {1} /\ Answers(m) = {i + 1 : i \in 1 .. n}
      /\ m[1].calls = listed /\ m[1].text = group.text
      /\ \A i \in 1 .. n : m[i + 1].call = all[i].call
  <2>1. \A i \in 1 .. n : m[i + 1].role = "tool" /\ m[i + 1].call = all[i].call
    <3> HIDE DEF m
    <3> QED
      BY <1>8, MessageFields
  <2>2. m[1].role = "assistant" /\ m[1].calls = listed /\ m[1].text = group.text
    <3> HIDE DEF m, listed
    <3> QED
      BY <1>8, MessageFields
  <2>3. \A i \in DOMAIN m : i = 1 \/ (i - 1 \in 1 .. n /\ i = (i - 1) + 1)
    <3> HIDE DEF m
    <3> QED
      BY <1>1, <1>8
  <2>4. \A i \in 1 .. n : i + 1 \in DOMAIN m
    <3> HIDE DEF m
    <3> QED
      BY <1>1, <1>8
  <2>5. 1 \in DOMAIN m
    <3> HIDE DEF m
    <3> QED
      BY <1>1, <1>8
  <2> HIDE DEF m, listed, all, n
  <2>6. Listing(m) = {1}
    BY <2>1, <2>2, <2>3, <2>5 DEF Listing
  <2>7. Answers(m) = {i + 1 : i \in 1 .. n}
    BY <2>1, <2>2, <2>3, <2>4 DEF Answers
  <2> QED
    BY <2>1, <2>2, <2>6, <2>7
<1>10. \A i \in 1 .. n : listed[i] = all[i].call
  BY <1>1
<1>11. Paired(m)
  <2> HIDE DEF m, listed, all
  <2>1. \A k \in 1 .. n : 1 + k \in Answers(m) /\ m[1 + k].call = listed[k]
    BY <1>1, <1>9, <1>10
  <2>2. \A j \in Answers(m) : j - 1 \in DOMAIN m[1].calls
    BY <1>1, <1>3, <1>9
  <2> QED
    BY <1>3, <1>9, <2>1, <2>2 DEF Paired
<1>12. Called(m) = CalledIn(group) /\ Rounds(m) = RoundsIn(group)
  <2> HIDE DEF m, listed
  <2>1. Called(m) = {m[j].call : j \in {i + 1 : i \in 1 .. n}}
    BY <1>9 DEF Called
  <2> HIDE DEF n
  <2>2. CalledIn(group) = {all[i].call : i \in 1 .. n} /\ RoundsIn(group) = {all[i].call[1] : i \in 1 .. n}
    BY <1>1 DEF RoundsIn, CalledIn
  <2> HIDE DEF all
  <2>3. Called(m) = CalledIn(group)
    BY <1>9, <2>1, <2>2
  <2>4. RoundsIn(group) = {c[1] : c \in CalledIn(group)}
    BY <2>2
  <2> QED
    BY <2>3, <2>4 DEF Rounds
<1>13. Apart(m)
  <2> SUFFICES ASSUME NEW c \in ToSet(listed), NEW d \in ToSet(listed) PROVE Together(1, 1, m[1], c, d)
    <3> HIDE DEF m, listed
    <3> QED
      BY <1>9 DEF Apart
  <2>1. PICK i \in 1 .. n : c = all[i].call
    <3> HIDE DEF all, listed
    <3> QED
      BY <1>3, <1>10 DEF ToSet
  <2>2. PICK j \in 1 .. n : d = all[j].call
    <3> HIDE DEF all, listed
    <3> QED
      BY <1>3, <1>10 DEF ToSet
  <2>3. ids[c[1]] = ids[d[1]]
    BY <1>1, <2>1, <2>2 DEF GroupOK, Told
  <2>4. ASSUME \A e \in ToSet(listed) : e[1] = c[1] PROVE group.text = texts[c[1]]
    <3>1. \A k \in 1 .. n : all[k].call[1] = c[1]
      <4>1. \A k \in 1 .. n : all[k].call \in ToSet(listed)
        <5> HIDE DEF all, listed
        <5> QED
          BY <1>3, <1>10 DEF ToSet
      <4> QED
        BY <2>4, <4>1
    <3>2. \A k \in 1 .. n : all[k].text = texts[c[1]] /\ all[k].text \in BOOLEAN
      BY <1>1, <1>2, <3>1 DEF GroupOK, Told, Output
    <3>3. group.text <=> \E k \in 1 .. n : all[k].text
      BY <1>1 DEF GroupOK
    <3> QED
      BY <1>1, <2>1, <3>2, <3>3
  <2> QED
    <3> HIDE DEF m, listed
    <3> QED
      BY <1>9, <2>3, <2>4 DEF Together
<1> QED
  BY <1>8, <1>11, <1>12, <1>13

\* The outputs of a turn: in the order of their rounds, each as its round told it.
OutputsOK(all) ==
    /\ all \in Seq(Output)
    /\ \A k \in DOMAIN all : Told(all[k])
    /\ \A j, k \in DOMAIN all : j < k => all[j].call[1] <= all[k].call[1]

\* The groups of the first n outputs.
GroupsOK(groups, all, n) ==
    /\ groups \in Seq(Group)
    /\ groups = <<>> <=> n = 0
    /\ \A g \in 1 .. Len(groups) : GroupOK(groups[g])
    /\ \A g, h \in 1 .. Len(groups) :
           g < h => \A r \in RoundsIn(groups[g]), q \in RoundsIn(groups[h]) : r < q
    /\ UNION {CalledIn(groups[g]) : g \in 1 .. Len(groups)} = {all[k].call : k \in 1 .. n}

\* One output is a group.
LEMMA NewGroupOK ==
    ASSUME NEW output \in Output, Told(output)
    PROVE  /\ GroupOK(NewGroup(output))
           /\ CalledIn(NewGroup(output)) = {output.call} /\ RoundsIn(NewGroup(output)) = {output.call[1]}
<1> DEFINE group == NewGroup(output)
<1>1. group.response = output.response /\ group.outputs = <<output>> /\ group.text = output.text
  BY DEF NewGroup
<1>2. group \in Group
  BY DEF NewGroup, Group, Output
<1>3. <<output>> # <<>> /\ DOMAIN <<output>> = {1} /\ <<output>>[1] = output
  OBVIOUS
<1> HIDE DEF group
<1>4. GroupOK(group)
  BY <1>1, <1>2, <1>3 DEF GroupOK
<1>5. CalledIn(group) = {output.call} /\ RoundsIn(group) = {output.call[1]}
  BY <1>1, <1>3 DEF CalledIn, RoundsIn
<1> QED
  BY <1>4, <1>5 DEF group

\* An output of the same response joins a group.
LEMMA JoinedGroupOK ==
    ASSUME NEW group, GroupOK(group), NEW output \in Output, Told(output), group.response = output.response
    PROVE  /\ GroupOK(Joined(group, output))
           /\ CalledIn(Joined(group, output)) = CalledIn(group) \cup {output.call}
           /\ RoundsIn(Joined(group, output)) = RoundsIn(group) \cup {output.call[1]}
<1> DEFINE joined == Joined(group, output)
           n == Len(group.outputs)
<1>1. /\ group \in Group /\ group.outputs \in Seq(Output) /\ n \in Nat /\ DOMAIN group.outputs = 1 .. n
      /\ group.text \in BOOLEAN /\ output.text \in BOOLEAN
  BY LenProperties DEF GroupOK, Group, Output
<1>2. /\ joined \in Group
      /\ joined.outputs = Append(group.outputs, output)
      /\ joined.text = (group.text \/ output.text)
      /\ joined.response = group.response
  <2>1. Append(group.outputs, output) \in Seq(Output)
    BY <1>1
  <2>2. (group.text \/ output.text) \in BOOLEAN
    BY <1>1
  <2> QED
    BY <1>1, <2>1, <2>2 DEF Group, Joined
<1>3. /\ DOMAIN joined.outputs = 1 .. n + 1 /\ joined.outputs # <<>>
      /\ \A i \in 1 .. n : joined.outputs[i] = group.outputs[i]
      /\ joined.outputs[n + 1] = output
  <2> HIDE DEF joined
  <2>1. Len(Append(group.outputs, output)) = n + 1
    BY <1>1, AppendProperties
  <2> QED
    BY <1>1, <1>2, <2>1, AppendProperties, LenProperties
<1> HIDE DEF joined
<1>4. 1 .. n + 1 = (1 .. n) \cup {n + 1}
  BY <1>1
<1>5. \A i \in DOMAIN joined.outputs :
          Told(joined.outputs[i]) /\ joined.outputs[i].response = joined.response
  BY <1>1, <1>2, <1>3, <1>4 DEF GroupOK
<1>6. joined.text <=> \E i \in DOMAIN joined.outputs : joined.outputs[i].text
  <2>1. group.text <=> \E i \in 1 .. n : group.outputs[i].text
    BY <1>1 DEF GroupOK
  <2>2. (\E i \in DOMAIN joined.outputs : joined.outputs[i].text)
            <=> (\E i \in 1 .. n : group.outputs[i].text) \/ output.text
    BY <1>3, <1>4
  <2> QED
    BY <1>2, <2>1, <2>2
<1>7. /\ CalledIn(joined) = CalledIn(group) \cup {output.call}
      /\ RoundsIn(joined) = RoundsIn(group) \cup {output.call[1]}
  BY <1>1, <1>3, <1>4 DEF RoundsIn, CalledIn
<1>8. GroupOK(joined)
  BY <1>2, <1>3, <1>5, <1>6 DEF GroupOK
<1> QED
  BY <1>7, <1>8 DEF joined

\* One more output keeps the groups' order: it joins the last or comes after it.
LEMMA GroupedOK ==
    ASSUME NEW all, OutputsOK(all), NEW n \in Nat, n + 1 \in DOMAIN all,
           NEW groups, GroupsOK(groups, all, n)
    PROVE  GroupsOK(Grouped(groups, all[n + 1]), all, n + 1)
<1> DEFINE output == all[n + 1]
           r == output.call[1]
           new == Grouped(groups, output)
           last == Len(groups)
<1>1. /\ DOMAIN all = 1 .. Len(all) /\ Len(all) \in Nat /\ output \in Output /\ Told(output)
      /\ \A k \in 1 .. n : k \in DOMAIN all /\ k < n + 1
      /\ \A k \in DOMAIN all : all[k] \in Output
  BY LenProperties, ElementOfSeq DEF OutputsOK
<1>2. /\ groups \in Seq(Group) /\ last \in Nat /\ DOMAIN groups = 1 .. last
      /\ \A g \in 1 .. last : GroupOK(groups[g])
      /\ groups # <<>> => last \in 1 .. last
  BY LenProperties, EmptySeq DEF GroupsOK
<1>0. last \in Nat /\ (groups # <<>> => last # 0)
  BY <1>2
<1>3. /\ r \in Nat
      /\ \A k \in DOMAIN all : all[k].call[1] \in Nat
  BY <1>1 DEF Output, CallIds
<1>4. \A g \in 1 .. last : \A q \in RoundsIn(groups[g]) : q \in Nat /\ q <= r
  <2>1. ASSUME NEW g \in 1 .. last, NEW q \in RoundsIn(groups[g])
        PROVE  q \in Nat /\ q <= r
    <3>0. PICK c \in CalledIn(groups[g]) : q = c[1]
      BY DEF CalledIn, RoundsIn
    <3>1. PICK k \in 1 .. n : q = all[k].call[1]
      BY <3>0 DEF GroupsOK
    <3> QED
      BY <1>1, <1>3, <3>1 DEF OutputsOK
  <2> QED
    BY <2>1
<1>5. {all[k].call : k \in 1 .. n + 1} = {all[k].call : k \in 1 .. n} \cup {output.call}
  <2>1. 1 .. n + 1 = (1 .. n) \cup {n + 1}
    OBVIOUS
  <2> QED
    BY <2>1
<1>6. CASE groups # <<>> /\ Last(groups).response = output.response
  <2> DEFINE joined == Joined(groups[last], output)
  <2>1. /\ GroupOK(joined) /\ RoundsIn(joined) = RoundsIn(groups[last]) \cup {r}
        /\ CalledIn(joined) = CalledIn(groups[last]) \cup {output.call}
    BY <1>1, <1>2, <1>6, JoinedGroupOK DEF Last
  <2>2. new = [groups EXCEPT ![last] = joined]
    BY <1>6 DEF Grouped
  <2>3. joined \in Group
    BY <2>1 DEF GroupOK
  <2> HIDE DEF joined
  <2>4. /\ new \in Seq(Group) /\ Len(new) = last
        /\ \A g \in 1 .. last : new[g] = IF g = last THEN joined ELSE groups[g]
    BY <1>2, <1>6, <2>2, <2>3, ExceptSeq
  <2> HIDE DEF new
  <2>5. \A g \in 1 .. last : GroupOK(new[g])
    BY <1>2, <2>1, <2>4
  <2>6. ASSUME NEW g \in 1 .. last, NEW h \in 1 .. last, g < h,
               NEW p \in RoundsIn(new[g]), NEW q \in RoundsIn(new[h])
        PROVE  p < q
    <3>1. new[g] = groups[g]
      <4>1. g # last
        BY <1>0, <2>6
      <4> QED
        BY <2>4, <4>1
    <3>2. CASE q \in RoundsIn(groups[h])
      BY <2>6, <3>1, <3>2 DEF GroupsOK
    <3>3. CASE h = last /\ q = r
      <4>1. last \in 1 .. last /\ groups[last].outputs # <<>> /\ groups[last].outputs \in Seq(Output)
        BY <1>2, <1>6 DEF GroupOK, Group
      <4>2. 1 \in DOMAIN groups[last].outputs
        BY <4>1, EmptySeq, LenProperties
      <4>3. PICK z : z \in RoundsIn(groups[last])
        BY <4>2 DEF RoundsIn
      <4>4. p < z /\ z <= r /\ p \in Nat /\ z \in Nat
        BY <1>4, <2>6, <3>1, <3>3, <4>1, <4>3 DEF GroupsOK
      <4> QED
        BY <1>3, <3>3, <4>4
    <3> QED
      BY <2>1, <2>4, <2>6, <3>2, <3>3
  <2>7. UNION {CalledIn(new[g]) : g \in 1 .. last} = (UNION {CalledIn(groups[g]) : g \in 1 .. last}) \cup {output.call}
    <3>1. \A g \in 1 .. last :
              CalledIn(new[g]) = IF g = last THEN CalledIn(groups[g]) \cup {output.call} ELSE CalledIn(groups[g])
      BY <2>1, <2>4
    <3> QED
      BY <1>2, <1>6, <3>1
  <2>8. new # <<>>
    <3>1. Len(new) # 0
      BY <1>0, <1>6, <2>4
    <3> QED
      BY <3>1
  <2>9. GroupsOK(new, all, n + 1)
    <3>1. \A g, h \in 1 .. last : g < h => \A p \in RoundsIn(new[g]), q \in RoundsIn(new[h]) : p < q
      BY <2>6
    <3>2. n + 1 # 0
      OBVIOUS
    <3>3. UNION {CalledIn(new[g]) : g \in 1 .. last} = {all[k].call : k \in 1 .. n + 1}
      BY <1>5, <2>7 DEF GroupsOK
    <3> QED
      BY <2>4, <2>5, <2>8, <3>1, <3>2, <3>3 DEF GroupsOK
  <2> QED
    BY <2>9 DEF new
<1>7. CASE ~(groups # <<>> /\ Last(groups).response = output.response)
  <2> DEFINE fresh == NewGroup(output)
  <2>1. GroupOK(fresh) /\ CalledIn(fresh) = {output.call} /\ RoundsIn(fresh) = {r} /\ fresh \in Group
    BY <1>1, NewGroupOK DEF GroupOK
  <2>2. new = Append(groups, fresh)
    BY <1>7 DEF Grouped
  <2> HIDE DEF fresh
  <2>3. /\ new \in Seq(Group) /\ Len(new) = last + 1 /\ new # <<>>
        /\ \A g \in 1 .. last : new[g] = groups[g]
        /\ new[last + 1] = fresh
    BY <1>2, <2>1, <2>2, AppendProperties
  <2> HIDE DEF new
  <2>4. 1 .. last + 1 = (1 .. last) \cup {last + 1}
    BY <1>2
  <2>5. \A g \in 1 .. last + 1 : GroupOK(new[g])
    BY <1>2, <2>1, <2>3, <2>4
  <2>6. \A q \in RoundsIn(groups[last]) : groups # <<>> => q < r
    <3> SUFFICES ASSUME NEW i \in DOMAIN groups[last].outputs, groups # <<>>
                 PROVE  groups[last].outputs[i].call[1] < r
      BY DEF RoundsIn
    <3> DEFINE q == groups[last].outputs[i].call[1]
    <3>1. q \in RoundsIn(groups[last]) /\ last \in 1 .. last
      BY <1>2 DEF RoundsIn
    <3>2. q <= r /\ q \in Nat
      BY <1>4, <3>1
    <3>3. ids[q] = groups[last].response
      BY <1>2 DEF GroupOK, Told
    <3>4. ids[r] = output.response /\ groups[last].response # output.response
      BY <1>1, <1>7 DEF Told, Last
    <3> QED
      BY <1>3, <3>2, <3>3, <3>4
  <2>7. ASSUME NEW g \in 1 .. last + 1, NEW h \in 1 .. last + 1, g < h,
               NEW p \in RoundsIn(new[g]), NEW q \in RoundsIn(new[h])
        PROVE  p < q
    <3>1. g \in 1 .. last /\ new[g] = groups[g]
      BY <1>2, <2>3, <2>7
    <3>2. CASE h \in 1 .. last
      BY <2>3, <2>7, <3>1, <3>2 DEF GroupsOK
    <3>3. CASE h = last + 1
      <4>1. q = r
        BY <2>1, <2>3, <2>7, <3>3
      <4>2. groups # <<>> /\ last \in 1 .. last /\ GroupOK(groups[last])
        BY <1>2, <3>1
      <4>3. CASE g = last
        BY <2>6, <2>7, <3>1, <4>1, <4>2, <4>3
      <4>4. CASE g < last
        <5>1. groups[last].outputs # <<>> /\ groups[last].outputs \in Seq(Output)
          BY <4>2 DEF GroupOK, Group
        <5>2. 1 \in DOMAIN groups[last].outputs
          BY <5>1, EmptySeq, LenProperties
        <5>3. PICK z : z \in RoundsIn(groups[last])
          BY <5>2 DEF RoundsIn
        <5>4. p < z /\ z <= r /\ p \in Nat /\ z \in Nat
          BY <1>4, <2>7, <3>1, <4>2, <4>4, <5>3 DEF GroupsOK
        <5> QED
          BY <1>3, <4>1, <5>4
      <4>5. g = last \/ g < last
        BY <1>0, <3>1
      <4> QED
        BY <4>3, <4>4, <4>5
    <3> QED
      BY <2>4, <2>7, <3>2, <3>3
  <2>8. UNION {CalledIn(new[g]) : g \in 1 .. last + 1}
            = (UNION {CalledIn(groups[g]) : g \in 1 .. last}) \cup {output.call}
    BY <2>1, <2>3, <2>4
  <2>9. GroupsOK(new, all, n + 1)
    <3>1. \A g, h \in 1 .. last + 1 : g < h => \A p \in RoundsIn(new[g]), q \in RoundsIn(new[h]) : p < q
      BY <2>7
    <3>2. n + 1 # 0
      OBVIOUS
    <3>3. UNION {CalledIn(new[g]) : g \in 1 .. last + 1} = {all[k].call : k \in 1 .. n + 1}
      BY <1>5, <2>8 DEF GroupsOK
    <3> QED
      BY <2>3, <2>5, <3>1, <3>2, <3>3 DEF GroupsOK
  <2> QED
    BY <2>9 DEF new
<1> QED
  BY <1>6, <1>7

\* All outputs of a turn are in the groups, each round in one.
LEMMA OutputGroupsOK ==
    ASSUME NEW all, OutputsOK(all)
    PROVE  GroupsOK(OutputGroups(all), all, Len(all))
<1>1. Len(all) \in Nat /\ DOMAIN all = 1 .. Len(all)
  BY LenProperties DEF OutputsOK
<1>2. PICK h : /\ h = [n \in 0 .. Len(all) |-> IF n = 0 THEN <<>> ELSE Grouped(h[n - 1], all[n])]
               /\ OutputGroups(all) = h[Len(all)]
  BY <1>1, GroupingDef
<1>3. \A n \in 0 .. Len(all) : h[n] = IF n = 0 THEN <<>> ELSE Grouped(h[n - 1], all[n])
  BY <1>2
<1> DEFINE S == {n \in Nat : n <= Len(all) => GroupsOK(h[n], all, n)}
<1>4. 0 \in S
  <2>1. h[0] = <<>>
    BY <1>1, <1>3
  <2>2. Len(<<>>) = 0 /\ <<>> \in Seq(Group)
    OBVIOUS
  <2>3. GroupsOK(<<>>, all, 0)
    BY <2>2 DEF GroupsOK
  <2> QED
    BY <2>1, <2>3
<1>5. ASSUME NEW n \in Nat, n \in S PROVE n + 1 \in S
  <2>1. ASSUME n + 1 <= Len(all) PROVE GroupsOK(h[n + 1], all, n + 1)
    <3>1. n + 1 \in 0 .. Len(all) /\ n + 1 # 0 /\ (n + 1) - 1 = n /\ n + 1 \in DOMAIN all /\ n <= Len(all)
      BY <1>1, <2>1
    <3>2. h[n + 1] = Grouped(h[n], all[n + 1])
      BY <1>3, <3>1
    <3>3. GroupsOK(h[n], all, n)
      BY <1>5, <3>1
    <3> QED
      BY <3>1, <3>2, <3>3, GroupedOK
  <2> QED
    BY <2>1
<1>6. Len(all) \in S
  <2> HIDE DEF S
  <2> QED
    BY <1>1, <1>4, <1>5, Induction
<1> QED
  BY <1>1, <1>2, <1>6

RequestOK(m, called) == m \in Seq(Message) /\ Paired(m) /\ Called(m) = called

\* messages of the chat API pair calls and answers and keep rounds apart.
LEMMA MessagesOK ==
    ASSUME NEW all, OutputsOK(all)
    PROVE  RequestOK(Messages(all), {all[k].call : k \in 1 .. Len(all)}) /\ Apart(Messages(all))
<1> DEFINE groups == OutputGroups(all)
           seqs == [g \in DOMAIN groups |-> GroupMessages(groups[g])]
<1>1. GroupsOK(groups, all, Len(all))
  BY OutputGroupsOK
<1> HIDE DEF groups
<1>2. groups \in Seq(Group) /\ Len(groups) \in Nat /\ DOMAIN groups = 1 .. Len(groups)
  BY <1>1, LenProperties DEF GroupsOK
<1>3. /\ DOMAIN seqs = 1 .. Len(groups) /\ Len(seqs) = Len(groups)
      /\ \A g \in 1 .. Len(groups) : seqs[g] = GroupMessages(groups[g])
  BY <1>2
<1>4. Len(seqs) = 0 => seqs = <<>>
  BY <1>2
<1> HIDE DEF seqs
<1>5. \A g \in 1 .. Len(seqs) :
          /\ seqs[g] \in Seq(Message) /\ Paired(seqs[g]) /\ Apart(seqs[g])
          /\ Called(seqs[g]) = CalledIn(groups[g]) /\ Rounds(seqs[g]) = RoundsIn(groups[g])
  BY <1>1, <1>3, GroupMessagesOK DEF GroupsOK
<1>6. \A g \in 1 .. Len(seqs) : \A k \in 1 .. g - 1 : Rounds(seqs[k]) \cap Rounds(seqs[g]) = {}
  <2> SUFFICES ASSUME NEW g \in 1 .. Len(seqs), NEW k \in 1 .. g - 1,
                      NEW r \in RoundsIn(groups[k]), r \in RoundsIn(groups[g])
               PROVE  FALSE
    <3>1. \A g \in 1 .. Len(seqs) : \A k \in 1 .. g - 1 : k \in 1 .. Len(seqs)
      BY <1>2, <1>3
    <3> QED
      BY <1>5, <3>1
  <2>1. k \in 1 .. Len(groups) /\ g \in 1 .. Len(groups) /\ k < g
    BY <1>2, <1>3
  <2>2. r < r
    BY <1>1, <2>1 DEF GroupsOK
  <2>3. r \in Nat
    <3>1. PICK i \in DOMAIN groups[k].outputs : r = groups[k].outputs[i].call[1]
      BY DEF RoundsIn
    <3>2. groups[k].outputs \in Seq(Output)
      BY <1>1, <2>1 DEF GroupsOK, GroupOK, Group
    <3>3. groups[k].outputs[i] \in Output
      BY <3>1, <3>2, LenProperties, ElementOfSeq
    <3> QED
      BY <3>1, <3>3 DEF Output, CallIds
  <2> QED
    BY <2>2, <2>3
<1>7. ToolMessages(all) = FlattenSeq(seqs)
  BY DEF ToolMessages, seqs, groups
<1> DEFINE m == FlattenSeq(seqs)
<1>8. /\ m \in Seq(Message) /\ Paired(m) /\ Called(m) = CalledOf(seqs, Len(seqs))
      /\ Apart(m)
  <2> HIDE DEF m
  <2> QED
    BY <1>2, <1>3, <1>4, <1>5, <1>6, FlattenPaired DEF m
<1>9. CalledOf(seqs, Len(seqs)) = {all[k].call : k \in 1 .. Len(all)}
  <2>1. CalledOf(seqs, Len(seqs)) = UNION {CalledIn(groups[g]) : g \in 1 .. Len(groups)}
    BY <1>3, <1>5 DEF CalledOf
  <2> QED
    BY <1>1, <2>1 DEF GroupsOK
<1> HIDE DEF m
<1> DEFINE input == <<Input>>
<1>10. /\ input \in Seq(Message) /\ Paired(input) /\ Apart(input) /\ Called(input) = {}
  <2>1. DOMAIN input = {1} /\ input[1].role = "input" /\ input \in Seq(Message)
    BY MessageFields, MessageTypes
  <2> HIDE DEF input
  <2>2. Listing(input) = {} /\ Answers(input) = {}
    BY <2>1 DEF Listing, Answers
  <2> QED
    BY <2>1, <2>2 DEF Paired, Apart, Called
<1>11. Messages(all) = input \o m
  BY <1>7 DEF Messages, m
<1> HIDE DEF input
<1>12. /\ input \o m \in Seq(Message) /\ Paired(input \o m) /\ Apart(input \o m)
       /\ Called(input \o m) = {all[k].call : k \in 1 .. Len(all)}
  <2>1. /\ input \o m \in Seq(Message) /\ Paired(input \o m)
        /\ Called(input \o m) = Called(input) \cup Called(m)
    BY <1>8, <1>10, ConcatPaired DEF m
  <2>2. Apart(input \o m)
    BY <1>8, <1>10, ConcatApart DEF m, Rounds
  <2> QED
    BY <1>8, <1>9, <1>10, <2>1, <2>2 DEF m
<1> QED
  BY <1>11, <1>12 DEF RequestOK

\* response_input of the responses API pairs calls and answers.
LEMMA ResponseInputOK ==
    ASSUME NEW all, OutputsOK(all)
    PROVE  RequestOK(ResponseInput(all), {all[k].call : k \in 1 .. Len(all)})
<1>1. /\ all \in Seq(Output) /\ Len(all) \in Nat /\ DOMAIN all = 1 .. Len(all)
      /\ all = <<>> <=> Len(all) = 0
  BY LenProperties, EmptySeq DEF OutputsOK
<1>2. CASE all = <<>>
  <2>1. DOMAIN <<Input>> = {1} /\ <<Input>>[1].role = "input" /\ <<Input>> \in Seq(Message)
    BY MessageFields, MessageTypes
  <2>2. Listing(<<Input>>) = {} /\ Answers(<<Input>>) = {}
    BY <2>1 DEF Listing, Answers
  <2>3. {all[k].call : k \in 1 .. Len(all)} = {}
    BY <1>1, <1>2
  <2> QED
    BY <1>2, <2>1, <2>2, <2>3 DEF ResponseInput, RequestOK, Paired, Called
<1>3. CASE all # <<>>
  <2> DEFINE pair(i) == <<Assistant(<<all[i].call>>, FALSE), Tool(all[i])>>
             seqs == [i \in DOMAIN all |-> pair(i)]
  <2>1. /\ Len(seqs) = Len(all) /\ Len(seqs) # 0
        /\ \A i \in 1 .. Len(all) : seqs[i] = pair(i)
    <3> HIDE DEF pair
    <3> QED
      BY <1>1, <1>3
  <2>2. ASSUME NEW i \in 1 .. Len(all)
        PROVE  /\ pair(i) \in Seq(Message) /\ Paired(pair(i)) /\ Called(pair(i)) = {all[i].call}
    <3>1. all[i] \in Output /\ all[i].call \in CallIds
      <4>1. all[i] \in Output
        BY <1>1, ElementOfSeq
      <4> QED
        BY <4>1 DEF Output
    <3>2. <<all[i].call>> \in Seq(CallIds) /\ DOMAIN <<all[i].call>> = {1} /\ <<all[i].call>>[1] = all[i].call
      BY <3>1
    <3> DEFINE p == pair(i)
               listed == <<all[i].call>>
    <3>3. Assistant(listed, FALSE) \in Message /\ Tool(all[i]) \in Message
      BY <3>1, <3>2, MessageTypes
    <3>4. /\ p \in Seq(Message) /\ DOMAIN p = {1, 2}
          /\ p[1] = Assistant(listed, FALSE) /\ p[2] = Tool(all[i])
      <4> DEFINE a == Assistant(listed, FALSE)
                 b == Tool(all[i])
      <4>1. a \in Message /\ b \in Message
        BY <3>3
      <4> HIDE DEF a, b
      <4>2. <<a, b>> \in Seq(Message) /\ DOMAIN <<a, b>> = {1, 2} /\ <<a, b>>[1] = a /\ <<a, b>>[2] = b
        BY <4>1
      <4> QED
        BY <4>2 DEF a, b
    <3>5. p[1].role = "assistant" /\ p[1].calls = listed /\ p[2].role = "tool" /\ p[2].call = all[i].call
      <4>1. /\ Assistant(listed, FALSE).role = "assistant" /\ Assistant(listed, FALSE).calls = listed
            /\ Tool(all[i]).role = "tool" /\ Tool(all[i]).call = all[i].call
        BY MessageFields
      <4> HIDE DEF p, listed
      <4> QED
        BY <3>4, <4>1
    <3> HIDE DEF p
    <3>6. Listing(p) = {1} /\ Answers(p) = {2}
      BY <3>4, <3>5 DEF Listing, Answers
    <3>7. Paired(p) /\ Called(p) = {all[i].call}
      BY <3>2, <3>5, <3>6 DEF Paired, Called
    <3> QED
      BY <3>4, <3>7 DEF p
  <2>3. ResponseInput(all) = FlattenSeq(seqs)
    BY <1>3 DEF ResponseInput
  <2> HIDE DEF pair, seqs
  <2>4. RequestOK(FlattenSeq(seqs), CalledOf(seqs, Len(seqs)))
    BY <1>1, <2>1, <2>2, FlattenPaired DEF RequestOK
  <2>5. CalledOf(seqs, Len(seqs)) = {all[k].call : k \in 1 .. Len(all)}
    <3>1. \A i \in 1 .. Len(all) : Called(seqs[i]) = {all[i].call}
      BY <2>1, <2>2
    <3>2. \A x : x \in CalledOf(seqs, Len(seqs)) <=> \E k \in 1 .. Len(all) : x \in Called(seqs[k])
      BY <2>1 DEF CalledOf
    <3> DEFINE said(k) == all[k].call
    <3> HIDE DEF said
    <3>4. \A k \in 1 .. Len(all) : \A x : x \in Called(seqs[k]) <=> x = said(k)
      BY <3>1 DEF said
    <3>3. \A x : x \in CalledOf(seqs, Len(seqs)) <=> \E k \in 1 .. Len(all) : x = said(k)
      BY <3>2, <3>4, Zenon
    <3> QED
      BY <3>3 DEF said
  <2> QED
    BY <2>3, <2>4, <2>5
<1> QED
  BY <1>2, <1>3

-----------------------------------------------------------------------------
(***************************************************************************)
(* The inductive invariant                                                 *)
(***************************************************************************)
\* The lines on their way, those in the buffer first.
Pending == buffer \o wire

Bare  == [kind : {"created", "text", "completed"}]
End   == [kind : {"stop", "tool_calls", "length"}, index : {0}]
Delta == [kind : {"call", "tool_calls"}, index : Indexes, id : CallIds \cup {NoId}, piece : Nat]
Item  == [kind : {"item"}, index : Indexes, id : CallIds]
Line  == Bare \cup End \cup Delta \cup Item

StreamTypeOK ==
    /\ api \in {"chat", "responses"}
    /\ meant \in [Indexes -> Nat]
    /\ ending \in {"", "stop", "tool_calls", "length", "completed", "broken"}
    /\ wire \in Seq(Line) /\ buffer \in Seq(Line)
    /\ response_id \in {NoId, CurrentId}

\* Pieces of call i that have arrived, in an accumulator and in this one.
SeenIn(acc, i) == IF i <= Len(acc) THEN Len(acc[i].pieces) ELSE 0

Seen(i) == SeenIn(gathered, i)

\* The k-th pending line carries piece p of call i.
Carries(k, i, p) ==
    /\ k \in 1 .. Len(Pending)
    /\ Pending[k] \in Delta
    /\ Pending[k].index = i /\ Pending[k].piece = p

Ends == {"stop", "tool_calls", "length", "completed"}

\* A line that ends the response is the last.
EndsLast ==
    \A k \in 1 .. Len(Pending) :
        Pending[k].kind \in Ends => k = Len(Pending) /\ ending = Pending[k].kind

Kinds(kinds) == \A k \in 1 .. Len(Pending) : Pending[k].kind \in kinds

ChatKinds      == {"text", "call", "stop", "tool_calls", "length"}
ResponsesKinds == {"created", "text", "item", "completed"}

\* What has come is kept in order, under the id of its call.
Accumulated(acc) ==
    /\ DOMAIN acc = 1 .. Len(acc) /\ Len(acc) \in 0 .. MaxCalls
    /\ Len(acc) # 0 => SeenIn(acc, Len(acc)) # 0
    /\ \A i \in 1 .. Len(acc) :
           /\ SeenIn(acc, i) \in 0 .. meant[i]
           /\ acc[i] = [id |-> IF SeenIn(acc, i) = 0 THEN NoId ELSE CallId(i),
                        pieces |-> [p \in 1 .. SeenIn(acc, i) |-> p]]

\* The pieces of a call are pending in order, none is missing before one that is there.
PiecesOK ==
    /\ \A k, i, p \in Nat : Carries(k, i, p) =>
           /\ i \in Indexes /\ Seen(i) < p /\ p <= meant[i]
           /\ Pending[k].id = IF p = 1 THEN CallId(i) ELSE NoId
           /\ \A q \in Seen(i) + 1 .. p - 1 : \E j \in 1 .. k - 1 : Carries(j, i, q)
    /\ \A j, k, i, p, q \in Nat : Carries(j, i, p) /\ Carries(k, i, q) /\ j < k => p < q

\* Unless the connection broke, all the provider said is seen or pending.
AllPending ==
    ending # "broken" =>
        \A i \in Indexes : \A p \in Seen(i) + 1 .. meant[i] : \E k \in 1 .. Len(Pending) : Carries(k, i, p)

Chat == Accumulated(gathered) /\ PiecesOK /\ AllPending

ChatOK ==
    /\ EndsLast
    /\ Kinds(ChatKinds)
    /\ ending = "tool_calls" => Begun # {} /\ Complete
    /\ calls = <<>> => Chat
    /\ calls # <<>> => Pending = <<>> /\ ending = "tool_calls" /\ Len(calls) = Cardinality(Begun)

\* responses
Brings(k, i) == k \in 1 .. Len(Pending) /\ Pending[k].kind = "item" /\ Pending[k].index = i

\* The response is named before it says anything else.
NamedFirst ==
    response_id = CurrentId \/ IF Pending = <<>> THEN ending = "broken" ELSE Pending[1].kind = "created"

\* Calls come in the order of their indexes, after those that are there.
ItemsOK ==
    /\ \A k, i \in Nat : Brings(k, i) =>
           /\ i \in Indexes /\ Len(calls) < i /\ meant[i] = 1 /\ Pending[k].id = CallId(i)
           /\ \A h \in Len(calls) + 1 .. i - 1 : \E j \in 1 .. k - 1 : Brings(j, h)
    /\ \A j, k, h, i \in Nat : Brings(j, h) /\ Brings(k, i) /\ j < k => h < i

CalledOK == \A i \in 1 .. Len(calls) : i \in Indexes /\ meant[i] = 1

AllItems ==
    ending = "" => \A i \in Begun : i > Len(calls) => \E k \in 1 .. Len(Pending) : Brings(k, i)

ResponsesOK ==
    /\ EndsLast
    /\ Kinds(ResponsesKinds)
    /\ NamedFirst
    /\ ItemsOK
    /\ CalledOK
    /\ AllItems

CallsOK ==
    /\ Len(calls) \in Nat /\ calls = Whole(Len(calls))
    /\ api = "chat" /\ calls # <<>> => ending = "tool_calls" /\ Len(calls) = Cardinality(Begun)

\* The calls that have outputs, and their rounds.
SaidCalls  == {outputs[k].call : k \in 1 .. Len(outputs)}
SaidRounds == {outputs[k].call[1] : k \in 1 .. Len(outputs)}

TurnOK ==
    /\ api \in {"chat", "responses"}
    /\ phase \in {"request", "stream", "completed", "failed"}
    /\ round \in Nat /\ ids \in Seq(Ids) /\ texts \in Seq(BOOLEAN) /\ round_text \in BOOLEAN
    /\ Len(ids) >= round - 1 /\ (phase # "failed" => Len(ids) = round)
    /\ phase = "request" => Len(texts) = round
    /\ phase = "stream" => round # 0 /\ Len(texts) = round - 1
    /\ phase \in {"request", "stream"} =>
           OutputsOK(outputs) /\ SaidRounds = 1 .. Len(texts) /\ ran = SaidCalls
    /\ RequestOK(request, {c \in ran : c[1] < round})
    /\ api = "chat" => Apart(request)

StreamOK ==
    phase = "stream" => StreamTypeOK /\ IF api = "chat" THEN ChatOK ELSE ResponsesOK

StreamsInv == TurnOK /\ CallsOK /\ StreamOK

-----------------------------------------------------------------------------
(***************************************************************************)
(* The lines on their way                                                  *)
(***************************************************************************)
LinesOK == wire \in Seq(Line) /\ buffer \in Seq(Line)

\* The lines on their way in the next state, by position.
LEMMA PendingNext ==
    ASSUME LinesOK'
    PROVE  /\ Pending' \in Seq(Line) /\ Len(Pending') = Len(buffer') + Len(wire')
           /\ \A k \in 1 .. Len(Pending') :
                  Pending'[k] = IF k <= Len(buffer') THEN buffer'[k] ELSE wire'[k - Len(buffer')]
<1>1. Pending' = buffer' \o wire' /\ buffer' \in Seq(Line) /\ wire' \in Seq(Line)
  BY DEF LinesOK, Pending
<1> QED
  BY <1>1, ConcatProperties

\* The lines on their way, by position.
LEMMA PendingLines ==
    ASSUME LinesOK
    PROVE  /\ Pending \in Seq(Line) /\ Len(Pending) \in Nat /\ Len(Pending) = Len(buffer) + Len(wire)
           /\ DOMAIN Pending = 1 .. Len(Pending)
           /\ \A k \in 1 .. Len(Pending) : Pending[k] \in Line
           /\ \A k \in 1 .. Len(Pending) :
                  Pending[k] = IF k <= Len(buffer) THEN buffer[k] ELSE wire[k - Len(buffer)]
           /\ (Pending = <<>> <=> Len(Pending) = 0)
           /\ buffer # <<>> => Len(Pending) # 0 /\ Pending[1] = Head(buffer)
<1>1. /\ Pending \in Seq(Line) /\ Len(Pending) = Len(buffer) + Len(wire)
      /\ \A k \in 1 .. Len(Pending) :
             Pending[k] = IF k <= Len(buffer) THEN buffer[k] ELSE wire[k - Len(buffer)]
  BY ConcatProperties DEF LinesOK, Pending
<1>2. Len(buffer) \in Nat /\ Len(wire) \in Nat
  BY LenProperties DEF LinesOK
<1>3. /\ DOMAIN Pending = 1 .. Len(Pending) /\ Len(Pending) \in Nat
      /\ \A k \in 1 .. Len(Pending) : Pending[k] \in Line
      /\ (Pending = <<>> <=> Len(Pending) = 0)
  BY <1>1, LenProperties, ElementOfSeq, EmptySeq
<1>4. ASSUME buffer # <<>> PROVE Len(Pending) # 0 /\ Pending[1] = Head(buffer)
  <2>1. Len(buffer) # 0 /\ Head(buffer) = buffer[1]
    BY <1>4, EmptySeq, HeadTailProperties DEF LinesOK
  <2>2. 1 \in 1 .. Len(Pending) /\ 1 <= Len(buffer)
    BY <1>1, <1>2, <2>1
  <2> QED
    BY <1>1, <2>1, <2>2
<1> QED
  BY <1>1, <1>3, <1>4

\* One more line.
LEMMA SayPending ==
    ASSUME LinesOK, NEW line \in Line, Say(line), buffer' = buffer
    PROVE  /\ LinesOK' /\ Len(Pending') = Len(Pending) + 1
           /\ \A k \in 1 .. Len(Pending) : Pending'[k] = Pending[k]
           /\ Pending'[Len(Pending) + 1] = line
<1>1. /\ wire' \in Seq(Line) /\ Len(wire') = Len(wire) + 1
      /\ \A k \in 1 .. Len(wire) : wire'[k] = wire[k]
      /\ wire'[Len(wire) + 1] = line
  BY AppendProperties DEF LinesOK, Say
<1>2. LinesOK'
  BY <1>1 DEF LinesOK
<1>3. Len(buffer) \in Nat /\ Len(wire) \in Nat
  BY LenProperties DEF LinesOK
<1>4. /\ Len(Pending) = Len(buffer) + Len(wire)
      /\ \A k \in 1 .. Len(Pending) :
             Pending[k] = IF k <= Len(buffer) THEN buffer[k] ELSE wire[k - Len(buffer)]
  BY PendingLines
<1>5. /\ Len(Pending') = Len(buffer) + Len(wire')
      /\ \A k \in 1 .. Len(Pending') :
             Pending'[k] = IF k <= Len(buffer) THEN buffer[k] ELSE wire'[k - Len(buffer)]
  <2>1. Pending' = buffer' \o wire' /\ buffer' \in Seq(Line) /\ wire' \in Seq(Line)
    BY <1>1 DEF LinesOK, Pending
  <2> QED
    BY <2>1, ConcatProperties
<1>6. ASSUME NEW k \in 1 .. Len(Pending) PROVE Pending'[k] = Pending[k]
  <2>1. k \in 1 .. Len(Pending') /\ (k <= Len(buffer) \/ k - Len(buffer) \in 1 .. Len(wire))
    BY <1>1, <1>3, <1>4, <1>5
  <2> QED
    BY <1>1, <1>4, <1>5, <2>1
<1>7. Pending'[Len(Pending) + 1] = line
  <2>1. /\ Len(Pending) + 1 \in 1 .. Len(Pending') /\ ~(Len(Pending) + 1 <= Len(buffer))
        /\ (Len(Pending) + 1) - Len(buffer) = Len(wire) + 1
    BY <1>1, <1>3, <1>4, <1>5
  <2> QED
    BY <1>1, <1>5, <2>1
<1> QED
  BY <1>1, <1>2, <1>3, <1>4, <1>5, <1>6, <1>7

\* The connection breaks off.
LEMMA BreakPending ==
    ASSUME LinesOK, NEW n \in 0 .. Len(wire), wire' = SubSeq(wire, 1, n), buffer' = buffer
    PROVE  /\ LinesOK' /\ Len(Pending') \in 0 .. Len(Pending)
           /\ \A k \in 1 .. Len(Pending') : k \in 1 .. Len(Pending) /\ Pending'[k] = Pending[k]
<1>1. Len(buffer) \in Nat /\ Len(wire) \in Nat
  BY LenProperties DEF LinesOK
<1>2. /\ wire' \in Seq(Line) /\ Len(wire') = n
      /\ \A k \in 1 .. n : wire'[k] = wire[k]
  <2>1. \A k \in 1 .. n : wire[k] \in Line
    BY <1>1, ElementOfSeq DEF LinesOK
  <2> QED
    BY <1>1, <2>1, SubSeqProperties DEF LinesOK
<1>3. LinesOK'
  BY <1>2 DEF LinesOK
<1>4. /\ Len(Pending) = Len(buffer) + Len(wire)
      /\ \A k \in 1 .. Len(Pending) :
             Pending[k] = IF k <= Len(buffer) THEN buffer[k] ELSE wire[k - Len(buffer)]
  BY PendingLines
<1>5. /\ Len(Pending') = Len(buffer) + Len(wire')
      /\ \A k \in 1 .. Len(Pending') :
             Pending'[k] = IF k <= Len(buffer) THEN buffer[k] ELSE wire'[k - Len(buffer)]
  BY <1>2, <1>3, ConcatProperties DEF LinesOK, Pending
<1>6. ASSUME NEW k \in 1 .. Len(Pending') PROVE k \in 1 .. Len(Pending) /\ Pending'[k] = Pending[k]
  <2>1. k \in 1 .. Len(Pending) /\ (k <= Len(buffer) \/ k - Len(buffer) \in 1 .. n)
    BY <1>1, <1>2, <1>4, <1>5
  <2> QED
    BY <1>2, <1>4, <1>5, <2>1
<1> QED
  BY <1>1, <1>2, <1>3, <1>4, <1>5, <1>6

\* Lines move into the buffer.
LEMMA ChunkPending ==
    ASSUME LinesOK, buffer = <<>>, NEW n \in 0 .. Len(wire),
           buffer' = SubSeq(wire, 1, n), wire' = SubSeq(wire, n + 1, Len(wire))
    PROVE  LinesOK' /\ Pending' = Pending
<1>1. Len(wire) \in Nat /\ \A k \in 1 .. Len(wire) : wire[k] \in Line
  BY LenProperties, ElementOfSeq DEF LinesOK
<1>2. /\ buffer' \in Seq(Line) /\ Len(buffer') = n
      /\ \A k \in 1 .. n : buffer'[k] = wire[k]
  BY <1>1, SubSeqProperties DEF LinesOK
<1>3. /\ wire' \in Seq(Line) /\ Len(wire') = Len(wire) - n
      /\ \A k \in 1 .. Len(wire) - n : wire'[k] = wire[n + k]
  BY <1>1, SubSeqProperties DEF LinesOK
<1>4. LinesOK'
  BY <1>2, <1>3 DEF LinesOK
<1>5. Pending = wire
  BY ConcatEmptySeq DEF LinesOK, Pending
<1>6. /\ Pending' \in Seq(Line) /\ Len(Pending') = Len(buffer') + Len(wire')
      /\ \A k \in 1 .. Len(Pending') :
             Pending'[k] = IF k <= Len(buffer') THEN buffer'[k] ELSE wire'[k - Len(buffer')]
  BY <1>4, PendingNext, Zenon
<1>7. Len(Pending') = Len(wire)
  BY <1>1, <1>2, <1>3, <1>6
<1>8. ASSUME NEW k \in 1 .. Len(wire) PROVE Pending'[k] = wire[k]
  <2>1. CASE k <= n
    <3>1. k \in 1 .. n
      BY <2>1
    <3> QED
      BY <1>2, <1>6, <1>7, <2>1, <3>1
  <2>2. CASE ~(k <= n)
    <3>1. k - n \in 1 .. Len(wire) - n /\ n + (k - n) = k
      BY <1>1, <2>2
    <3> QED
      BY <1>2, <1>3, <1>6, <1>7, <2>2, <3>1
  <2> QED
    BY <2>1, <2>2
<1>9. Pending' = wire
  BY <1>6, <1>7, <1>8, SeqEqual DEF LinesOK
<1> QED
  BY <1>4, <1>5, <1>9

\* The first line is parsed.
LEMMA ParsePending ==
    ASSUME LinesOK, buffer # <<>>, buffer' = Tail(buffer), wire' = wire
    PROVE  /\ LinesOK' /\ Len(Pending') = Len(Pending) - 1
           /\ \A k \in 1 .. Len(Pending') : k + 1 \in 1 .. Len(Pending) /\ Pending'[k] = Pending[k + 1]
<1>1. Len(buffer) \in Nat \ {0} /\ Len(wire) \in Nat
  BY LenProperties, EmptySeq DEF LinesOK
<1>2. /\ buffer' \in Seq(Line) /\ Len(buffer') = Len(buffer) - 1
      /\ \A k \in 1 .. Len(buffer') : buffer'[k] = buffer[k + 1]
  BY HeadTailProperties DEF LinesOK
<1>3. LinesOK'
  BY <1>2 DEF LinesOK
<1>4. /\ Len(Pending) = Len(buffer) + Len(wire)
      /\ \A k \in 1 .. Len(Pending) :
             Pending[k] = IF k <= Len(buffer) THEN buffer[k] ELSE wire[k - Len(buffer)]
  BY PendingLines
<1>5. /\ Len(Pending') = Len(buffer') + Len(wire)
      /\ \A k \in 1 .. Len(Pending') :
             Pending'[k] = IF k <= Len(buffer') THEN buffer'[k] ELSE wire[k - Len(buffer')]
  BY <1>2, <1>3, ConcatProperties DEF LinesOK, Pending
<1>6. ASSUME NEW k \in 1 .. Len(Pending') PROVE k + 1 \in 1 .. Len(Pending) /\ Pending'[k] = Pending[k + 1]
  <2>1. k + 1 \in 1 .. Len(Pending) /\ k \in 1 .. Len(Pending')
    BY <1>1, <1>2, <1>4, <1>5
  <2>2. CASE k <= Len(buffer')
    BY <1>1, <1>2, <1>4, <1>5, <2>1, <2>2
  <2>3. CASE ~(k <= Len(buffer'))
    <3>1. ~(k + 1 <= Len(buffer)) /\ (k + 1) - Len(buffer) = k - Len(buffer')
      BY <1>1, <1>2, <2>3
    <3> QED
      BY <1>4, <1>5, <2>1, <2>3, <3>1
  <2> QED
    BY <2>1, <2>2, <2>3
<1> QED
  BY <1>1, <1>2, <1>3, <1>4, <1>5, <1>6

\* What a line of each kind carries.
LEMMA LineKinds ==
    /\ \A line \in Bare : line.kind \in {"created", "text", "completed"} /\ line \notin Delta
    /\ \A line \in End : line.kind \in {"stop", "tool_calls", "length"} /\ line.index = 0 /\ line \notin Delta
    /\ \A line \in Delta : /\ line.kind \in {"call", "tool_calls"} /\ line.index \in Indexes /\ line.index \in Nat
                           /\ line.index # 0 /\ line.piece \in Nat /\ line.id \in CallIds \cup {NoId}
    /\ \A line \in Item : line.kind = "item" /\ line.index \in Indexes /\ line.id \in CallIds /\ line \notin Delta
<1>1. Indexes \subseteq Nat /\ 0 \notin Indexes
  BY ProviderAssumption DEF Indexes
<1>2. \A line \in Delta : /\ line.kind \in {"call", "tool_calls"} /\ line.index \in Indexes
                          /\ line.piece \in Nat /\ line.id \in CallIds \cup {NoId}
  BY DEF Delta
<1>3. \A line \in Bare : line.kind \in {"created", "text", "completed"}
  BY DEF Bare
<1>4. \A line \in End : line.kind \in {"stop", "tool_calls", "length"} /\ line.index = 0
  BY DEF End
<1>5. \A line \in Item : line.kind = "item" /\ line.index \in Indexes /\ line.id \in CallIds
  BY DEF Item
<1> QED
  BY <1>1, <1>2, <1>3, <1>4, <1>5

\* What is carried after a line was said, a parse, or a break.
LEMMA SayCarries ==
    ASSUME LinesOK, NEW line \in Line, Say(line), buffer' = buffer,
           NEW k \in Nat, NEW i \in Nat, NEW p \in Nat
    PROVE  Carries(k, i, p)' <=>
               \/ Carries(k, i, p)
               \/ k = Len(Pending) + 1 /\ line \in Delta /\ line.index = i /\ line.piece = p
<1>1. /\ Len(Pending) \in Nat /\ Len(Pending') = Len(Pending) + 1
      /\ \A j \in 1 .. Len(Pending) : Pending'[j] = Pending[j]
      /\ Pending'[Len(Pending) + 1] = line
  BY SayPending, PendingLines
<1>2. Delta' = Delta
  BY DEF Delta
<1>3. CASE k \in 1 .. Len(Pending)
  BY <1>1, <1>3 DEF Carries, Delta
<1>4. CASE k = Len(Pending) + 1
  BY <1>1, <1>4 DEF Carries, Delta
<1>5. CASE ~(k \in 1 .. Len(Pending) + 1)
  BY <1>1, <1>5 DEF Carries
<1> QED
  BY <1>1, <1>3, <1>4, <1>5

\* A connection that breaks keeps the first of them.
LEMMA BreakCarries ==
    ASSUME LinesOK, NEW n \in 0 .. Len(wire), wire' = SubSeq(wire, 1, n), buffer' = buffer,
           NEW k \in Nat, NEW i \in Nat, NEW p \in Nat
    PROVE  Carries(k, i, p)' <=> Carries(k, i, p) /\ k <= Len(Pending')
<1>1. /\ Len(Pending) \in Nat /\ Len(Pending') \in 0 .. Len(Pending)
      /\ \A j \in 1 .. Len(Pending') : j \in 1 .. Len(Pending) /\ Pending'[j] = Pending[j]
  BY BreakPending, PendingLines
<1> QED
  BY <1>1 DEF Carries, Delta

\* A parsed line moves the others up.
LEMMA ParseCarries ==
    ASSUME LinesOK, buffer # <<>>, buffer' = Tail(buffer), wire' = wire,
           NEW k \in Nat, NEW i \in Nat, NEW p \in Nat
    PROVE  Carries(k, i, p)' <=> k # 0 /\ Carries(k + 1, i, p)
<1>1. /\ Len(Pending) \in Nat /\ Len(Pending') = Len(Pending) - 1 /\ Len(Pending) # 0
      /\ \A j \in 1 .. Len(Pending') : Pending'[j] = Pending[j + 1]
  BY ParsePending, PendingLines
<1>2. CASE k \in 1 .. Len(Pending) - 1
  BY <1>1, <1>2 DEF Carries, Delta
<1>3. CASE ~(k \in 1 .. Len(Pending) - 1)
  BY <1>1, <1>3 DEF Carries
<1> QED
  BY <1>2, <1>3

-----------------------------------------------------------------------------
(***************************************************************************)
(* The chat parser: pieces, in any order of calls                          *)
(***************************************************************************)
\* No more is seen of a call than the provider said.
LEMMA SeenBound ==
    ASSUME NEW acc, Accumulated(acc), meant \in [Indexes -> Nat], NEW i \in Indexes
    PROVE  SeenIn(acc, i) \in Nat /\ SeenIn(acc, i) <= meant[i] /\ meant[i] \in Nat
<1>1. meant[i] \in Nat /\ i \in Nat /\ i >= 1 /\ Len(acc) \in Nat
  BY ProviderAssumption DEF Indexes, Accumulated
<1>2. CASE i <= Len(acc)
  <2>1. SeenIn(acc, i) \in 0 .. meant[i]
    BY <1>1, <1>2 DEF Accumulated
  <2> QED
    BY <1>1, <2>1
<1>3. CASE ~(i <= Len(acc))
  BY <1>1, <1>3 DEF SeenIn
<1> QED
  BY <1>2, <1>3

\* A line that carries no piece changes nothing of the pieces.
LEMMA OtherSaid ==
    ASSUME StreamTypeOK, Chat, ending # "broken", NEW line \in Line \ Delta, Say(line),
           UNCHANGED <<meant, buffer, gathered, round>>
    PROVE  Chat'
<1>1. LinesOK
  BY DEF StreamTypeOK, LinesOK
<1>2. /\ Len(Pending) \in Nat /\ Len(Pending') = Len(Pending) + 1
      /\ \A j \in 1 .. Len(Pending) : Pending'[j] = Pending[j]
  BY <1>1, SayPending, PendingLines
<1>3. \A k, i, p \in Nat : Carries(k, i, p)' <=> Carries(k, i, p)
  BY <1>1, SayCarries
<1>4. Accumulated(gathered)'
  BY DEF Chat, Accumulated, CallId
<1>5. \A i : Seen(i)' = Seen(i)
  BY DEF Seen
<1>6. \A k, i, p \in Nat : Carries(k, i, p) => Pending'[k] = Pending[k]
  BY <1>2 DEF Carries
<1>7. \A i : CallId(i)' = CallId(i)
  BY DEF CallId
<1>8. PiecesOK'
  <2>1. ASSUME NEW k \in Nat, NEW i \in Nat, NEW p \in Nat, Carries(k, i, p)'
        PROVE  /\ i \in Indexes /\ Seen(i)' < p /\ p <= meant'[i]
               /\ Pending'[k].id = IF p = 1 THEN CallId(i)' ELSE NoId
               /\ \A q \in Seen(i)' + 1 .. p - 1 : \E j \in 1 .. k - 1 : Carries(j, i, q)'
    <3>1. Carries(k, i, p)
      BY <1>3, <2>1
    <3>2. /\ i \in Indexes /\ Seen(i) < p /\ p <= meant[i]
          /\ Pending[k].id = IF p = 1 THEN CallId(i) ELSE NoId
          /\ \A q \in Seen(i) + 1 .. p - 1 : \E j \in 1 .. k - 1 : Carries(j, i, q)
      BY <3>1 DEF Chat, PiecesOK
    <3>3. Seen(i) \in Nat
      BY <3>2, SeenBound DEF Chat, Seen, StreamTypeOK
    <3>4. \A q \in Seen(i) + 1 .. p - 1 : \E j \in 1 .. k - 1 : Carries(j, i, q)'
      BY <1>3, <3>2, <3>3
    <3> QED
      BY <1>5, <1>6, <1>7, <3>1, <3>2, <3>4
  <2>2. \A j, k, i, p, q \in Nat : Carries(j, i, p)' /\ Carries(k, i, q)' /\ j < k => p < q
    BY <1>3 DEF Chat, PiecesOK
  <2> QED
    BY <2>1, <2>2 DEF PiecesOK
<1>9. AllPending'
  <2>1. ASSUME NEW i \in Indexes, NEW p \in Seen(i) + 1 .. meant[i]
        PROVE  \E k \in 1 .. Len(Pending') : Carries(k, i, p)'
    <3>1. PICK k \in 1 .. Len(Pending) : Carries(k, i, p)
      BY <2>1 DEF Chat, AllPending
    <3>2. i \in Nat /\ p \in Nat /\ k \in Nat /\ k \in 1 .. Len(Pending')
      <4>1. Seen(i) \in Nat /\ meant[i] \in Nat
        BY SeenBound DEF Chat, Seen, StreamTypeOK
      <4>2. i \in Nat
        BY ProviderAssumption DEF Indexes
      <4> QED
        BY <1>2, <4>1, <4>2
    <3> QED
      BY <1>3, <3>1, <3>2
  <2> QED
    BY <1>5, <2>1 DEF AllPending
<1> QED
  BY <1>4, <1>8, <1>9 DEF Chat

\* The next piece of a call comes after all others.
LEMMA DeltaSaid ==
    ASSUME StreamTypeOK, Chat, ending # "broken", NEW line \in Delta, Say(line),
           NEW d \in Indexes, line.index = d, line.piece = meant[d] + 1,
           line.id = IF line.piece = 1 THEN CallId(d) ELSE NoId,
           meant' = [meant EXCEPT ![d] = @ + 1],
           UNCHANGED <<buffer, gathered, round>>
    PROVE  Chat'
<1>1. LinesOK /\ line \in Line /\ d \in Nat
  <2>1. LinesOK
    BY DEF StreamTypeOK, LinesOK
  <2>2. line \in Line
    BY DEF Line
  <2>3. d \in Nat
    BY ProviderAssumption DEF Indexes
  <2> QED
    BY <2>1, <2>2, <2>3
<1>2. /\ Len(Pending) \in Nat /\ Len(Pending') = Len(Pending) + 1
      /\ \A j \in 1 .. Len(Pending) : Pending'[j] = Pending[j]
      /\ Pending'[Len(Pending) + 1] = line
  BY <1>1, SayPending, PendingLines
<1>3. \A k, i, p \in Nat : Carries(k, i, p)' <=>
          Carries(k, i, p) \/ (k = Len(Pending) + 1 /\ i = d /\ p = meant[d] + 1)
  BY <1>1, SayCarries
<1>m. \A i \in Indexes : meant'[i] = (IF i = d THEN meant[i] + 1 ELSE meant[i]) /\ meant[i] \in Nat
  BY DEF StreamTypeOK
<1>4. Accumulated(gathered)'
  <2>1. \A i \in 1 .. Len(gathered) : i \in Indexes
    BY ProviderAssumption DEF Chat, Accumulated, Indexes
  <2>2. \A i \in 1 .. Len(gathered) : SeenIn(gathered, i) \in 0 .. meant'[i]
    BY <1>m, <2>1 DEF Chat, Accumulated
  <2> QED
    BY <2>2 DEF Chat, Accumulated, CallId
<1>5. \A i : Seen(i)' = Seen(i)
  BY DEF Seen
<1>6. \A k, i, p \in Nat : Carries(k, i, p) => k <= Len(Pending) /\ Pending'[k] = Pending[k]
  BY <1>2 DEF Carries
<1>7. \A i : CallId(i)' = CallId(i)
  BY DEF CallId
<1>s. \A i \in Indexes : Seen(i) \in Nat /\ Seen(i) <= meant[i]
  BY SeenBound DEF Chat, Seen, StreamTypeOK
<1>8. PiecesOK'
  <2>1. ASSUME NEW k \in Nat, NEW i \in Nat, NEW p \in Nat, Carries(k, i, p)'
        PROVE  /\ i \in Indexes /\ Seen(i)' < p /\ p <= meant'[i]
               /\ Pending'[k].id = IF p = 1 THEN CallId(i)' ELSE NoId
               /\ \A q \in Seen(i)' + 1 .. p - 1 : \E j \in 1 .. k - 1 : Carries(j, i, q)'
    <3>1. CASE Carries(k, i, p)
      <4>2. /\ i \in Indexes /\ Seen(i) < p /\ p <= meant[i]
            /\ Pending[k].id = IF p = 1 THEN CallId(i) ELSE NoId
            /\ \A q \in Seen(i) + 1 .. p - 1 : \E j \in 1 .. k - 1 : Carries(j, i, q)
        BY <3>1 DEF Chat, PiecesOK
      <4>3. Seen(i) \in Nat /\ p <= meant'[i]
        BY <1>m, <1>s, <4>2
      <4>4. \A q \in Seen(i) + 1 .. p - 1 : \E j \in 1 .. k - 1 : Carries(j, i, q)'
        BY <1>3, <4>2, <4>3
      <4> QED
        BY <1>5, <1>6, <1>7, <3>1, <4>2, <4>3, <4>4
    <3>2. CASE k = Len(Pending) + 1 /\ i = d /\ p = meant[d] + 1
      <4>1. Seen(d) < p /\ p <= meant'[d] /\ Seen(d) \in Nat
        BY <1>m, <1>s, <3>2
      <4>2. Pending'[k].id = IF p = 1 THEN CallId(d) ELSE NoId
        BY <1>2, <3>2
      <4>3. ASSUME NEW q \in Seen(d) + 1 .. p - 1 PROVE \E j \in 1 .. k - 1 : Carries(j, d, q)'
        <5>1. q \in Seen(d) + 1 .. meant[d] /\ q \in Nat
          BY <1>m, <3>2, <4>1, <4>3
        <5>2. PICK j \in 1 .. Len(Pending) : Carries(j, d, q)
          BY <5>1 DEF Chat, AllPending
        <5>3. j \in 1 .. k - 1 /\ j \in Nat
          BY <1>2, <3>2
        <5> QED
          BY <1>1, <1>3, <5>1, <5>2, <5>3
      <4> QED
        BY <1>5, <1>7, <3>2, <4>1, <4>2, <4>3
    <3> QED
      BY <1>3, <2>1, <3>1, <3>2
  <2>2. ASSUME NEW j \in Nat, NEW k \in Nat, NEW i \in Nat, NEW p \in Nat, NEW q \in Nat,
               Carries(j, i, p)', Carries(k, i, q)', j < k
        PROVE  p < q
    <3>1. k \in 1 .. Len(Pending')
      BY <2>2 DEF Carries
    <3>2. Carries(j, i, p)
      BY <1>2, <1>3, <2>2, <3>1
    <3>3. CASE Carries(k, i, q)
      BY <2>2, <3>2, <3>3 DEF Chat, PiecesOK
    <3>4. CASE i = d /\ q = meant[d] + 1
      <4>1. p <= meant[d]
        BY <3>2, <3>4 DEF Chat, PiecesOK
      <4> QED
        BY <1>m, <3>4, <4>1
    <3> QED
      BY <1>3, <2>2, <3>3, <3>4
  <2> QED
    BY <2>1, <2>2 DEF PiecesOK
<1>9. AllPending'
  <2>1. ASSUME NEW i \in Indexes, NEW p \in Seen(i) + 1 .. meant'[i]
        PROVE  \E k \in 1 .. Len(Pending') : Carries(k, i, p)'
    <3>1. i \in Nat /\ p \in Nat
      BY <1>m, <1>s, ProviderAssumption DEF Indexes
    <3>2. CASE p \in Seen(i) + 1 .. meant[i]
      <4>1. PICK k \in 1 .. Len(Pending) : Carries(k, i, p)
        BY <3>2 DEF Chat, AllPending
      <4>2. k \in Nat /\ k \in 1 .. Len(Pending')
        BY <1>2
      <4> QED
        BY <1>3, <3>1, <4>1, <4>2
    <3>3. CASE i = d /\ p = meant[d] + 1
      <4>1. Len(Pending) + 1 \in Nat /\ Len(Pending) + 1 \in 1 .. Len(Pending')
        BY <1>2
      <4> QED
        BY <1>3, <3>1, <3>3, <4>1
    <3> QED
      BY <1>m, <1>s, <2>1, <3>2, <3>3
  <2> QED
    BY <1>5, <2>1 DEF AllPending
<1> QED
  BY <1>4, <1>8, <1>9 DEF Chat

Counted(n) == [p \in 1 .. n |-> p]

\* Pieces 1 to n and the next are pieces 1 to n + 1.
LEMMA CountedOn ==
    ASSUME NEW n \in Nat
    PROVE  Counted(n) \in Seq(Nat) /\ Len(Counted(n)) = n /\ Append(Counted(n), n + 1) = Counted(n + 1)
<1>1. Counted(n) \in Seq(Nat) /\ Len(Counted(n)) = n /\ Counted(n + 1) \in Seq(Nat) /\ Len(Counted(n + 1)) = n + 1
  BY DEF Counted
<1>2. /\ Append(Counted(n), n + 1) \in Seq(Nat)
      /\ Len(Append(Counted(n), n + 1)) = n + 1
      /\ \A p \in 1 .. n : Append(Counted(n), n + 1)[p] = Counted(n)[p]
      /\ Append(Counted(n), n + 1)[n + 1] = n + 1
  BY <1>1, AppendProperties
<1>3. \A p \in 1 .. n + 1 : Append(Counted(n), n + 1)[p] = Counted(n + 1)[p]
  <2>1. ASSUME NEW p \in 1 .. n + 1 PROVE Append(Counted(n), n + 1)[p] = Counted(n + 1)[p]
    <3>1. CASE p \in 1 .. n
      BY <1>2, <3>1 DEF Counted
    <3>2. CASE p = n + 1
      BY <1>2, <3>2 DEF Counted
    <3>3. p \in 1 .. n \/ p = n + 1
      OBVIOUS
    <3> QED
      BY <3>1, <3>2, <3>3
  <2> QED
    BY <2>1
<1> QED
  BY <1>1, <1>2, <1>3, SeqEqual

\* Accumulated, with the pieces by name.
LEMMA AccumulatedDef ==
    ASSUME NEW acc
    PROVE  Accumulated(acc) <=>
               /\ DOMAIN acc = 1 .. Len(acc) /\ Len(acc) \in 0 .. MaxCalls
               /\ Len(acc) # 0 => SeenIn(acc, Len(acc)) # 0
               /\ \A i \in 1 .. Len(acc) :
                      /\ SeenIn(acc, i) \in 0 .. meant[i]
                      /\ acc[i] = [id |-> IF SeenIn(acc, i) = 0 THEN NoId ELSE CallId(i),
                                   pieces |-> Counted(SeenIn(acc, i))]
BY DEF Accumulated, Counted

\* push puts the next piece of a call after those that came before.
LEMMA PushOK ==
    ASSUME meant \in [Indexes -> Nat], Accumulated(gathered), NEW line, NEW d \in Indexes, line.index = d,
           line.piece = Seen(d) + 1, line.piece <= meant[d],
           line.id = IF line.piece = 1 THEN CallId(d) ELSE NoId
    PROVE  /\ Accumulated(Push(line))
           /\ \A i \in Indexes : SeenIn(Push(line), i) = IF i = d THEN Seen(i) + 1 ELSE Seen(i)
<1> DEFINE n == Len(gathered)
           m == IF n < d THEN d ELSE n
           known == [i \in 1 .. m |-> IF i <= n THEN gathered[i] ELSE Blank]
           mine == [id |-> IF line.id = NoId THEN known[d].id ELSE line.id,
                    pieces |-> Append(known[d].pieces, line.piece)]
           acc == [known EXCEPT ![d] = mine]
<1>1. Push(line) = acc
  BY DEF Push
<1>2. /\ n \in 0 .. MaxCalls /\ d \in 1 .. MaxCalls /\ MaxCalls \in Nat /\ m \in 1 .. MaxCalls /\ d \in 1 .. m
      /\ n <= m /\ meant[d] \in Nat
  BY ProviderAssumption DEF Accumulated, Indexes
<1>3. Seen(d) \in Nat /\ \A i \in Indexes : Seen(i) \in Nat /\ Seen(i) <= meant[i]
  BY SeenBound DEF Seen
<1>4. /\ known[d].id = IF Seen(d) = 0 THEN NoId ELSE CallId(d)
      /\ known[d].pieces = Counted(Seen(d))
  <2>1. CASE d <= n
    <3>1. known[d] = gathered[d] /\ d \in 1 .. n
      BY <1>2, <2>1
    <3>2. gathered[d] = [id |-> IF Seen(d) = 0 THEN NoId ELSE CallId(d), pieces |-> Counted(Seen(d))]
      BY <3>1, AccumulatedDef DEF Seen
    <3> QED
      BY <3>1, <3>2
  <2>2. CASE ~(d <= n)
    <3>1. known[d] = Blank /\ Seen(d) = 0
      BY <1>2, <2>2 DEF Seen, SeenIn
    <3>2. Blank.id = NoId /\ Blank.pieces = Counted(0)
      BY DEF Blank, Counted
    <3> QED
      BY <3>1, <3>2
  <2> QED
    BY <2>1, <2>2
<1>5. mine = [id |-> CallId(d), pieces |-> Counted(Seen(d) + 1)]
  <2>1. (IF line.id = NoId THEN known[d].id ELSE line.id) = CallId(d)
    BY <1>3, <1>4
  <2>2. Append(known[d].pieces, line.piece) = Counted(Seen(d) + 1)
    <3> HIDE DEF known
    <3> QED
      BY <1>3, <1>4, CountedOn
  <2> HIDE DEF known
  <2> QED
    BY <2>1, <2>2
<1> HIDE DEF mine
<1>6. /\ DOMAIN acc = 1 .. m /\ Len(acc) = m /\ acc[d] = mine
      /\ \A i \in 1 .. m : i # d => acc[i] = IF i <= n THEN gathered[i] ELSE Blank
  BY <1>2
<1> HIDE DEF acc, known
<1>7. \A i \in Nat : i > n => Seen(i) = 0
  BY <1>2 DEF Seen, SeenIn
<1>8. Blank = [id |-> NoId, pieces |-> Counted(0)] /\ Len(Counted(0)) = 0
  BY CountedOn DEF Blank, Counted
<1>9. ASSUME NEW i \in 1 .. m
      PROVE  /\ i \in Indexes
             /\ SeenIn(acc, i) = IF i = d THEN Seen(i) + 1 ELSE Seen(i)
             /\ SeenIn(acc, i) \in 0 .. meant[i]
             /\ acc[i] = [id |-> IF SeenIn(acc, i) = 0 THEN NoId ELSE CallId(i),
                          pieces |-> Counted(SeenIn(acc, i))]
  <2>1. i \in Indexes /\ meant[i] \in Nat /\ i \in Nat
    BY <1>2 DEF Indexes
  <2>2. CASE i = d
    <3>1. SeenIn(acc, i) = Seen(d) + 1
      BY <1>2, <1>3, <1>5, <1>6, <2>2, CountedOn DEF SeenIn
    <3> QED
      BY <1>2, <1>3, <1>5, <1>6, <2>1, <2>2, <3>1
  <2>3. CASE i # d /\ i <= n
    <3>1. acc[i] = gathered[i] /\ SeenIn(acc, i) = Seen(i) /\ i \in 1 .. n
      BY <1>2, <1>6, <2>3 DEF SeenIn, Seen
    <3>2. Seen(i) \in 0 .. meant[i]
      BY <1>3, <2>1
    <3> QED
      BY <2>1, <2>3, <3>1, <3>2, AccumulatedDef DEF Seen
  <2>4. CASE i # d /\ ~(i <= n)
    <3>1. acc[i] = Blank /\ Seen(i) = 0
      BY <1>2, <1>6, <1>7, <2>4
    <3>2. SeenIn(acc, i) = 0
      BY <1>2, <1>6, <1>8, <3>1 DEF SeenIn
    <3> QED
      BY <1>8, <2>1, <2>4, <3>1, <3>2
  <2> QED
    BY <2>2, <2>3, <2>4
<1>10. SeenIn(acc, m) # 0
  <2>1. CASE m = d
    <3>1. m \in 1 .. m
      BY <1>2, <2>1
    <3>2. SeenIn(acc, m) = Seen(d) + 1
      BY <1>9, <2>1, <3>1
    <3> QED
      BY <1>3, <3>2
  <2>2. CASE m # d
    <3>1. m = n /\ n # 0 /\ m \in 1 .. m
      BY <1>2, <2>2
    <3>2. Seen(n) # 0
      BY <3>1, AccumulatedDef DEF Seen
    <3> QED
      BY <1>9, <2>2, <3>1, <3>2
  <2> QED
    BY <2>1, <2>2
<1>11. Accumulated(acc)
  <2>1. Len(acc) \in 0 .. MaxCalls
    BY <1>2, <1>6
  <2> HIDE DEF m
  <2> QED
    BY <1>6, <1>9, <1>10, <2>1, AccumulatedDef
<1>12. ASSUME NEW i \in Indexes PROVE SeenIn(acc, i) = IF i = d THEN Seen(i) + 1 ELSE Seen(i)
  <2>1. CASE i \in 1 .. m
    BY <1>9, <2>1
  <2>2. CASE ~(i \in 1 .. m)
    <3>1. i \in Nat /\ i > n /\ ~(i <= m) /\ i # d
      BY <1>2, <2>2 DEF Indexes
    <3> QED
      BY <1>6, <1>7, <3>1 DEF SeenIn
  <2> QED
    BY <2>1, <2>2
<1> QED
  BY <1>1, <1>11, <1>12

\* With all pieces there, and nothing else, finish gives the calls as sent.
LEMMA FinishWhole ==
    ASSUME meant \in [Indexes -> Nat], NEW acc, Accumulated(acc),
           \A i \in Indexes : SeenIn(acc, i) >= meant[i], Begun # {}, Complete
    PROVE  /\ Finish(acc, CurrentId) = Whole(Len(acc))
           /\ Len(acc) = Cardinality(Begun) /\ Len(acc) \in Nat \ {0}
           /\ Finish(acc, CurrentId) \in Seq([call : {CallId(i) : i \in Indexes}, response : {CurrentId}, pieces : Seq(Nat)])
<1>1. Cardinality(Begun) \in Nat
  <2>1. IsFiniteSet(Indexes) /\ Begun \subseteq Indexes
    BY FS_Interval, ProviderAssumption DEF Indexes, Begun
  <2> QED
    BY <2>1, FS_Subset, FS_CardinalityType
<1> DEFINE n == Cardinality(Begun)
<1>2. Begun = 1 .. n /\ n \in Nat /\ n # 0
  BY <1>1 DEF Complete
<1> HIDE DEF n
<1>3. Len(acc) \in 0 .. MaxCalls /\ MaxCalls \in Nat
  BY ProviderAssumption DEF Accumulated
<1>4. \A i \in Indexes : SeenIn(acc, i) = meant[i] /\ meant[i] \in Nat /\ i \in Nat
  BY SeenBound, <1>3 DEF Indexes
<1>5. Len(acc) = n
  <2>1. n \in Indexes /\ meant[n] > 0
    BY <1>2 DEF Begun
  <2>2. n <= Len(acc)
    <3>1. SeenIn(acc, n) # 0
      BY <1>4, <2>1
    <3> QED
      BY <3>1 DEF SeenIn
  <2>3. Len(acc) \in Indexes
    BY <1>2, <1>3, <2>1, <2>2 DEF Indexes
  <2>4. Len(acc) # 0
    BY <1>2, <1>3, <2>2
  <2>5. SeenIn(acc, Len(acc)) # 0
    BY <2>4 DEF Accumulated
  <2>6. Len(acc) \in Begun
    BY <1>4, <2>3, <2>5 DEF Begun
  <2> QED
    BY <1>2, <1>3, <2>2, <2>6
<1>6. ASSUME NEW i \in 1 .. n
      PROVE  acc[i] = [id |-> CallId(i), pieces |-> Counted(meant[i])] /\ i \in Indexes /\ Counted(meant[i]) \in Seq(Nat)
  <2>1. i \in Indexes /\ meant[i] > 0 /\ i \in 1 .. Len(acc)
    BY <1>2, <1>5 DEF Begun
  <2>2. SeenIn(acc, i) = meant[i] /\ meant[i] # 0 /\ meant[i] \in Nat
    BY <1>4, <2>1
  <2> QED
    BY <2>1, <2>2, AccumulatedDef, CountedOn
<1>7. DOMAIN acc = 1 .. n
  BY <1>5 DEF Accumulated
<1>8. Finish(acc, CurrentId) = Whole(n)
  BY <1>6, <1>7 DEF Finish, Whole, Counted
<1>9. Whole(n) \in Seq([call : {CallId(i) : i \in Indexes}, response : {CurrentId}, pieces : Seq(Nat)])
  <2> DEFINE call(i) == [call |-> CallId(i), response |-> CurrentId, pieces |-> Counted(meant[i])]
             S == [call : {CallId(i) : i \in Indexes}, response : {CurrentId}, pieces : Seq(Nat)]
  <2>1. \A i \in 1 .. n : call(i) \in S
    BY <1>6
  <2>2. Whole(n) = [i \in 1 .. n |-> call(i)]
    BY DEF Whole, Counted
  <2> HIDE DEF call, S
  <2>3. [i \in 1 .. n |-> call(i)] \in Seq(S)
    BY <1>2, <2>1, IsASeq
  <2> QED
    BY <2>2, <2>3 DEF S
<1> QED
  BY <1>2, <1>5, <1>8, <1>9 DEF n

\* The connection breaks off between two lines.
LEMMA ChatBroken ==
    ASSUME StreamTypeOK, Chat, NEW n \in 0 .. Len(wire), wire' = SubSeq(wire, 1, n), ending' = "broken",
           UNCHANGED <<meant, buffer, gathered, round>>
    PROVE  Chat'
<1>1. LinesOK
  BY DEF StreamTypeOK, LinesOK
<1>2. /\ Len(Pending) \in Nat /\ Len(Pending') \in 0 .. Len(Pending)
      /\ \A j \in 1 .. Len(Pending') : j \in 1 .. Len(Pending) /\ Pending'[j] = Pending[j]
  BY <1>1, BreakPending, PendingLines
<1>3. \A k, i, p \in Nat : Carries(k, i, p)' <=> Carries(k, i, p) /\ k <= Len(Pending')
  BY <1>1, BreakCarries
<1>4. Accumulated(gathered)'
  BY DEF Chat, Accumulated, CallId
<1>5. \A i : Seen(i)' = Seen(i) /\ CallId(i)' = CallId(i)
  BY DEF Seen, CallId
<1>6. ASSUME NEW k \in Nat, NEW i \in Nat, NEW p \in Nat, Carries(k, i, p)'
      PROVE  /\ i \in Indexes /\ Seen(i)' < p /\ p <= meant'[i]
             /\ Pending'[k].id = IF p = 1 THEN CallId(i)' ELSE NoId
             /\ \A q \in Seen(i)' + 1 .. p - 1 : \E j \in 1 .. k - 1 : Carries(j, i, q)'
  <2>1. Carries(k, i, p) /\ k \in 1 .. Len(Pending')
    BY <1>2, <1>3, <1>6 DEF Carries
  <2>2. /\ i \in Indexes /\ Seen(i) < p /\ p <= meant[i]
        /\ Pending[k].id = IF p = 1 THEN CallId(i) ELSE NoId
        /\ \A q \in Seen(i) + 1 .. p - 1 : \E j \in 1 .. k - 1 : Carries(j, i, q)
    BY <2>1 DEF Chat, PiecesOK
  <2>3. Seen(i) \in Nat
    BY <2>2, SeenBound DEF Chat, Seen, StreamTypeOK
  <2>4. ASSUME NEW q \in Seen(i) + 1 .. p - 1 PROVE \E j \in 1 .. k - 1 : Carries(j, i, q)'
    <3>1. PICK j \in 1 .. k - 1 : Carries(j, i, q)
      BY <2>2
    <3>2. j \in Nat /\ q \in Nat /\ j <= Len(Pending')
      BY <1>2, <2>1, <2>3
    <3> QED
      BY <1>3, <3>1, <3>2
  <2> QED
    BY <1>2, <1>5, <2>1, <2>2, <2>4
<1>7. PiecesOK'
  <2>1. \A j, k, i, p, q \in Nat : Carries(j, i, p)' /\ Carries(k, i, q)' /\ j < k => p < q
    BY <1>3 DEF Chat, PiecesOK
  <2> QED
    BY <1>6, <2>1 DEF PiecesOK
<1>8. AllPending'
  BY DEF AllPending
<1> QED
  BY <1>4, <1>7, <1>8 DEF Chat

\* A line that carries nothing is parsed.
LEMMA OtherParsed ==
    ASSUME StreamTypeOK, Chat, buffer # <<>>, buffer' = Tail(buffer), Head(buffer) \notin Delta,
           UNCHANGED <<meant, ending, wire, gathered, round>>
    PROVE  Chat'
<1>1. LinesOK
  BY DEF StreamTypeOK, LinesOK
<1>2. /\ Len(Pending) \in Nat \ {0} /\ Len(Pending') = Len(Pending) - 1
      /\ \A j \in 1 .. Len(Pending') : j + 1 \in 1 .. Len(Pending) /\ Pending'[j] = Pending[j + 1]
      /\ Pending[1] = Head(buffer)
  BY <1>1, ParsePending, PendingLines
<1>3. \A k, i, p \in Nat : Carries(k, i, p)' <=> k # 0 /\ Carries(k + 1, i, p)
  BY <1>1, ParseCarries
<1>4. Accumulated(gathered)'
  BY DEF Chat, Accumulated, CallId
<1>5. \A i : Seen(i)' = Seen(i) /\ CallId(i)' = CallId(i)
  BY DEF Seen, CallId
<1>f. \A i, p : ~Carries(1, i, p)
  BY <1>2 DEF Carries
<1>6. ASSUME NEW k \in Nat, NEW i \in Nat, NEW p \in Nat, Carries(k, i, p)'
      PROVE  /\ i \in Indexes /\ Seen(i)' < p /\ p <= meant'[i]
             /\ Pending'[k].id = IF p = 1 THEN CallId(i)' ELSE NoId
             /\ \A q \in Seen(i)' + 1 .. p - 1 : \E j \in 1 .. k - 1 : Carries(j, i, q)'
  <2>1. Carries(k + 1, i, p) /\ k \in 1 .. Len(Pending') /\ k + 1 \in Nat
    BY <1>2, <1>3, <1>6 DEF Carries
  <2>2. /\ i \in Indexes /\ Seen(i) < p /\ p <= meant[i]
        /\ Pending[k + 1].id = IF p = 1 THEN CallId(i) ELSE NoId
        /\ \A q \in Seen(i) + 1 .. p - 1 : \E j \in 1 .. (k + 1) - 1 : Carries(j, i, q)
    BY <2>1 DEF Chat, PiecesOK
  <2>3. Seen(i) \in Nat
    BY <2>2, SeenBound DEF Chat, Seen, StreamTypeOK
  <2>4. ASSUME NEW q \in Seen(i) + 1 .. p - 1 PROVE \E j \in 1 .. k - 1 : Carries(j, i, q)'
    <3>1. PICK j \in 1 .. (k + 1) - 1 : Carries(j, i, q)
      BY <2>2
    <3>2. j # 1
      BY <1>f, <3>1
    <3>3. j - 1 \in Nat /\ j - 1 # 0 /\ q \in Nat /\ (j - 1) + 1 = j /\ j - 1 \in 1 .. k - 1
      BY <2>3, <3>2
    <3>4. Carries(j - 1, i, q)'
      BY <1>3, <3>1, <3>3
    <3> QED
      BY <3>3, <3>4
  <2> QED
    BY <1>2, <1>5, <2>1, <2>2, <2>4
<1>7. PiecesOK'
  <2>1. ASSUME NEW j \in Nat, NEW k \in Nat, NEW i \in Nat, NEW p \in Nat, NEW q \in Nat,
               Carries(j, i, p)', Carries(k, i, q)', j < k
        PROVE  p < q
    <3>1. Carries(j + 1, i, p) /\ Carries(k + 1, i, q) /\ j + 1 \in Nat /\ k + 1 \in Nat /\ j + 1 < k + 1
      BY <1>3, <2>1
    <3> QED
      BY <3>1 DEF Chat, PiecesOK
  <2> QED
    BY <1>6, <2>1 DEF PiecesOK
<1>8. AllPending'
  <2>1. ASSUME NEW i \in Indexes, NEW p \in Seen(i) + 1 .. meant[i], ending # "broken"
        PROVE  \E k \in 1 .. Len(Pending') : Carries(k, i, p)'
    <3>1. PICK k \in 1 .. Len(Pending) : Carries(k, i, p)
      BY <2>1 DEF Chat, AllPending
    <3>2. k # 1
      BY <1>f, <3>1
    <3>3. Seen(i) \in Nat /\ meant[i] \in Nat
      BY SeenBound DEF Chat, Seen, StreamTypeOK
    <3>4. i \in Nat
      BY ProviderAssumption DEF Indexes
    <3>5. k - 1 \in Nat /\ k - 1 # 0 /\ (k - 1) + 1 = k /\ k - 1 \in 1 .. Len(Pending') /\ p \in Nat
      BY <1>2, <3>2, <3>3
    <3>6. Carries(k - 1, i, p)'
      BY <1>3, <3>1, <3>4, <3>5
    <3> QED
      BY <3>5, <3>6
  <2> QED
    BY <1>5, <2>1 DEF AllPending
<1> QED
  BY <1>4, <1>7, <1>8 DEF Chat

\* The first line carries the piece that is next.
LEMMA NextPiece ==
    ASSUME StreamTypeOK, Chat, buffer # <<>>, Head(buffer) \in Delta
    PROVE  LET line == Head(buffer)
               d    == line.index
           IN  /\ d \in Indexes /\ line.piece = Seen(d) + 1 /\ line.piece <= meant[d]
               /\ line.id = IF line.piece = 1 THEN CallId(d) ELSE NoId
               /\ Carries(1, d, line.piece)
<1> DEFINE line == Head(buffer)
           d == line.index
<1>1. LinesOK
  BY DEF StreamTypeOK, LinesOK
<1>2. Len(Pending) \in Nat \ {0} /\ Pending[1] = line
  BY <1>1, PendingLines
<1>3. d \in Nat /\ line.piece \in Nat
  BY LineKinds
<1>4. Carries(1, d, line.piece)
  BY <1>2 DEF Carries
<1> HIDE DEF line, d
<1>5. /\ d \in Indexes /\ Seen(d) < line.piece /\ line.piece <= meant[d]
      /\ line.id = IF line.piece = 1 THEN CallId(d) ELSE NoId
      /\ \A q \in Seen(d) + 1 .. line.piece - 1 : \E j \in 1 .. 1 - 1 : Carries(j, d, q)
  BY <1>2, <1>3, <1>4 DEF Chat, PiecesOK
<1>6. Seen(d) \in Nat
  BY <1>5, SeenBound DEF Chat, Seen, StreamTypeOK
<1>7. line.piece = Seen(d) + 1
  <2>1. CASE Seen(d) + 1 < line.piece
    <3>1. Seen(d) + 1 \in Seen(d) + 1 .. line.piece - 1
      BY <1>3, <1>6, <2>1
    <3>2. PICK j \in 1 .. 1 - 1 : TRUE
      BY <1>5, <3>1
    <3> QED
      BY <3>2
  <2> QED
    BY <1>3, <1>5, <1>6, <2>1
<1> QED
  BY <1>4, <1>5, <1>7 DEF d, line

\* A line that carries a piece is parsed.
LEMMA DeltaParsed ==
    ASSUME StreamTypeOK, Chat, buffer # <<>>, buffer' = Tail(buffer), Head(buffer) \in Delta,
           gathered' = Push(Head(buffer)), UNCHANGED <<meant, ending, wire, round>>
    PROVE  Chat'
<1> DEFINE line == Head(buffer)
           d == line.index
<1>1. LinesOK
  BY DEF StreamTypeOK, LinesOK
<1>2. /\ Len(Pending) \in Nat \ {0} /\ Len(Pending') = Len(Pending) - 1
      /\ \A j \in 1 .. Len(Pending') : j + 1 \in 1 .. Len(Pending) /\ Pending'[j] = Pending[j + 1]
      /\ Pending[1] = line
  BY <1>1, ParsePending, PendingLines
<1>3. \A k, i, p \in Nat : Carries(k, i, p)' <=> k # 0 /\ Carries(k + 1, i, p)
  BY <1>1, ParseCarries
<1>4. /\ d \in Indexes /\ line.piece = Seen(d) + 1 /\ line.piece <= meant[d]
      /\ line.id = IF line.piece = 1 THEN CallId(d) ELSE NoId
      /\ Carries(1, d, line.piece) /\ d \in Nat
  BY NextPiece, ProviderAssumption DEF Indexes
<1>5. /\ Accumulated(gathered')
      /\ \A i \in Indexes : SeenIn(gathered', i) = IF i = d THEN Seen(i) + 1 ELSE Seen(i)
  BY <1>4, PushOK DEF Chat, StreamTypeOK
<1>6. \A i : CallId(i)' = CallId(i)
  BY DEF CallId
<1>7. Accumulated(gathered)'
  BY <1>5, <1>6 DEF Accumulated
<1>8. \A i \in Indexes : /\ Seen(i)' = IF i = d THEN Seen(i) + 1 ELSE Seen(i)
                         /\ Seen(i) \in Nat /\ meant[i] \in Nat /\ i \in Nat
  <2>1. \A i \in Indexes : Seen(i) \in Nat /\ meant[i] \in Nat
    BY SeenBound DEF Chat, Seen, StreamTypeOK
  <2>2. \A i \in Indexes : i \in Nat
    BY ProviderAssumption DEF Indexes
  <2> QED
    BY <1>5, <2>1, <2>2 DEF Seen
<1>f. \A i, p : Carries(1, i, p) => i = d /\ p = line.piece
  BY <1>2 DEF Carries
<1> HIDE DEF d, line
<1>9. ASSUME NEW k \in Nat, NEW i \in Nat, NEW p \in Nat, Carries(k, i, p)'
      PROVE  /\ i \in Indexes /\ Seen(i)' < p /\ p <= meant'[i]
             /\ Pending'[k].id = IF p = 1 THEN CallId(i)' ELSE NoId
             /\ \A q \in Seen(i)' + 1 .. p - 1 : \E j \in 1 .. k - 1 : Carries(j, i, q)'
  <2>1. Carries(k + 1, i, p) /\ k \in 1 .. Len(Pending') /\ k + 1 \in Nat
    BY <1>2, <1>3, <1>9 DEF Carries
  <2>2. /\ i \in Indexes /\ Seen(i) < p /\ p <= meant[i]
        /\ Pending[k + 1].id = IF p = 1 THEN CallId(i) ELSE NoId
        /\ \A q \in Seen(i) + 1 .. p - 1 : \E j \in 1 .. (k + 1) - 1 : Carries(j, i, q)
    BY <2>1 DEF Chat, PiecesOK
  <2>3. Seen(i)' < p /\ Seen(i) \in Nat /\ Seen(i)' \in Nat
    <3>1. CASE i = d
      <4>0. Carries(1, i, line.piece) /\ line.piece \in Nat /\ 1 \in Nat /\ 1 < k + 1
        BY <1>2, <1>4, <1>8, <2>1, <3>1
      <4>1. line.piece < p
        BY <2>1, <4>0 DEF Chat, PiecesOK
      <4> QED
        BY <1>4, <1>8, <3>1, <4>1
    <3>2. CASE i # d
      BY <1>8, <2>2, <3>2
    <3> QED
      BY <3>1, <3>2
  <2>4. ASSUME NEW q \in Seen(i)' + 1 .. p - 1 PROVE \E j \in 1 .. k - 1 : Carries(j, i, q)'
    <3>0. q \in Seen(i) + 1 .. p - 1 /\ q \in Nat /\ q > Seen(i)'
      <4>1. Seen(i)' >= Seen(i)
        BY <1>8, <2>2
      <4> QED
        BY <2>3, <4>1
    <3>1. PICK j \in 1 .. (k + 1) - 1 : Carries(j, i, q)
      BY <2>2, <3>0
    <3>2. j # 1
      <4>1. CASE i = d
        <5>1. q # line.piece
          BY <1>4, <1>8, <3>0, <4>1
        <5> QED
          BY <1>f, <3>1, <5>1
      <4>2. CASE i # d
        BY <1>f, <3>1, <4>2
      <4> QED
        BY <4>1, <4>2
    <3>3. j - 1 \in Nat /\ j - 1 # 0 /\ q \in Nat /\ (j - 1) + 1 = j /\ j - 1 \in 1 .. k - 1
      BY <3>0, <3>2
    <3>4. Carries(j - 1, i, q)'
      BY <1>3, <3>1, <3>3
    <3> QED
      BY <3>3, <3>4
  <2> QED
    BY <1>2, <1>6, <2>1, <2>2, <2>3, <2>4
<1>10. PiecesOK'
  <2>1. ASSUME NEW j \in Nat, NEW k \in Nat, NEW i \in Nat, NEW p \in Nat, NEW q \in Nat,
               Carries(j, i, p)', Carries(k, i, q)', j < k
        PROVE  p < q
    <3>1. Carries(j + 1, i, p) /\ Carries(k + 1, i, q) /\ j + 1 \in Nat /\ k + 1 \in Nat /\ j + 1 < k + 1
      BY <1>3, <2>1
    <3> QED
      BY <3>1 DEF Chat, PiecesOK
  <2> QED
    BY <1>9, <2>1 DEF PiecesOK
<1>11. AllPending'
  <2>1. ASSUME NEW i \in Indexes, NEW p \in Seen(i)' + 1 .. meant[i], ending # "broken"
        PROVE  \E k \in 1 .. Len(Pending') : Carries(k, i, p)'
    <3>0. p \in Seen(i) + 1 .. meant[i] /\ p \in Nat /\ (i = d => p # line.piece)
      BY <1>4, <1>8
    <3>1. PICK k \in 1 .. Len(Pending) : Carries(k, i, p)
      BY <2>1, <3>0 DEF Chat, AllPending
    <3>2. k # 1
      BY <1>f, <3>0, <3>1
    <3>5. k - 1 \in Nat /\ k - 1 # 0 /\ (k - 1) + 1 = k /\ k - 1 \in 1 .. Len(Pending')
      BY <1>2, <3>2
    <3>6. Carries(k - 1, i, p)'
      BY <1>3, <1>8, <3>0, <3>1, <3>5
    <3> QED
      BY <3>5, <3>6
  <2> QED
    BY <2>1 DEF AllPending
<1> QED
  BY <1>7, <1>10, <1>11 DEF Chat

\* Numbers up to the next one.
LEMMA OneMore ==
    ASSUME NEW n \in Nat, NEW m, m = n + 1
    PROVE  /\ \A k \in 1 .. m : k \in 1 .. n \/ k = n + 1
           /\ \A k \in 1 .. n : k \in Nat /\ k \in 1 .. m
           /\ n # 0 => 1 \in 1 .. n
           /\ m \in Nat /\ m # 0 /\ m \in 1 .. m
OBVIOUS

\* Numbers between two others.
LEMMA Between ==
    /\ \A k \in Nat : \A j \in 1 .. k - 1 : j \in Nat /\ j < k
    /\ \A n, i \in Nat : \A h \in n + 1 .. i - 1 : h \in Nat /\ h > n /\ h \in 1 .. i - 1
OBVIOUS

\* Indexes are positive.
LEMMA IndexesAreNumbers == \A i \in Indexes : i \in Nat /\ i # 0
BY ProviderAssumption DEF Indexes

\* One more piece said of a call.
LEMMA MeantMore ==
    ASSUME meant \in [Indexes -> Nat], NEW d \in Indexes, meant' = [meant EXCEPT ![d] = @ + 1]
    PROVE  /\ meant' \in [Indexes -> Nat]
           /\ d \in Begun => Begun' = Begun
<1>1. /\ meant' \in [Indexes -> Nat]
      /\ \A i \in Indexes : meant'[i] = (IF i = d THEN meant[i] + 1 ELSE meant[i]) /\ meant[i] \in Nat
  OBVIOUS
<1> QED
  BY <1>1 DEF Begun

\* A line that is said comes last, and an end is the last.
LEMMA SayKinds ==
    ASSUME LinesOK, EndsLast, ending = "", NEW line \in Line, Say(line), buffer' = buffer,
           line.kind \in Ends => ending' = line.kind
    PROVE  EndsLast' /\ \A kinds : Kinds(kinds) /\ line.kind \in kinds => Kinds(kinds)'
<1>1. /\ Len(Pending) \in Nat /\ Len(Pending') = Len(Pending) + 1
      /\ \A j \in 1 .. Len(Pending) : Pending'[j] = Pending[j]
      /\ Pending'[Len(Pending) + 1] = line
  BY SayPending, PendingLines
<1>2. \A k \in 1 .. Len(Pending') : k \in 1 .. Len(Pending) \/ k = Len(Pending) + 1
  BY <1>1, OneMore
<1>3. \A k \in 1 .. Len(Pending) : Pending[k].kind \notin Ends
  BY DEF EndsLast, Ends
<1>4. EndsLast'
  BY <1>1, <1>2, <1>3 DEF EndsLast, Ends
<1>5. \A kinds : Kinds(kinds) /\ line.kind \in kinds => Kinds(kinds)'
  BY <1>1, <1>2 DEF Kinds
<1> QED
  BY <1>4, <1>5

\* Lines that are lost leave the others what they were.
LEMMA BreakKinds ==
    ASSUME LinesOK, EndsLast, ending = "", NEW n \in 0 .. Len(wire), wire' = SubSeq(wire, 1, n), buffer' = buffer
    PROVE  EndsLast' /\ \A kinds : Kinds(kinds) => Kinds(kinds)'
<1>1. \A j \in 1 .. Len(Pending') : j \in 1 .. Len(Pending) /\ Pending'[j] = Pending[j]
  BY BreakPending
<1>2. \A k \in 1 .. Len(Pending) : Pending[k].kind \notin Ends
  BY DEF EndsLast, Ends
<1>3. EndsLast'
  BY <1>1, <1>2 DEF EndsLast, Ends
<1>4. \A kinds : Kinds(kinds) => Kinds(kinds)'
  BY <1>1 DEF Kinds
<1> QED
  BY <1>3, <1>4

\* The first line is of a kind the provider says, and an end is alone.
LEMMA ParseKinds ==
    ASSUME LinesOK, EndsLast, buffer # <<>>, buffer' = Tail(buffer), wire' = wire, ending' = ending
    PROVE  /\ EndsLast' /\ \A kinds : Kinds(kinds) => Kinds(kinds)' /\ Head(buffer).kind \in kinds
           /\ Head(buffer) \in Line
           /\ Head(buffer).kind \in Ends => Head(buffer).kind = ending /\ Len(Pending) = 1 /\ Len(Pending') = 0 /\ Pending' = <<>>
<1>1. /\ Len(Pending) \in Nat \ {0} /\ Len(Pending') = Len(Pending) - 1
      /\ \A j \in 1 .. Len(Pending') : j + 1 \in 1 .. Len(Pending) /\ Pending'[j] = Pending[j + 1]
      /\ Pending[1] = Head(buffer)
      /\ \A k \in 1 .. Len(Pending) : Pending[k] \in Line
  BY ParsePending, PendingLines
<1>2. EndsLast'
  <2>1. ASSUME NEW k \in 1 .. Len(Pending'), Pending'[k].kind \in Ends
        PROVE  k = Len(Pending') /\ ending' = Pending'[k].kind
    <3>1. k + 1 = Len(Pending) /\ ending = Pending'[k].kind
      BY <1>1, <2>1 DEF EndsLast
    <3> QED
      BY <1>1, <3>1
  <2> QED
    BY <2>1 DEF EndsLast, Ends
<1>3. 1 \in 1 .. Len(Pending)
  BY <1>1
<1>4. \A kinds : Kinds(kinds) => Kinds(kinds)' /\ Head(buffer).kind \in kinds
  BY <1>1, <1>3 DEF Kinds
<1>5. ASSUME Head(buffer).kind \in Ends
      PROVE  Head(buffer).kind = ending /\ Len(Pending) = 1 /\ Len(Pending') = 0 /\ Pending' = <<>>
  <2>1. Head(buffer).kind = ending /\ Len(Pending) = 1
    BY <1>1, <1>3, <1>5 DEF EndsLast
  <2>2. LinesOK' /\ Pending' \in Seq(Line)
    BY ParsePending, PendingNext
  <2> QED
    BY <1>1, <2>1, <2>2, EmptySeq
<1> QED
  BY <1>1, <1>2, <1>3, <1>4, <1>5

\* No call is what the provider meant.
LEMMA EmptyCalls ==
    ASSUME calls = <<>>
    PROVE  CallsOK
BY DEF CallsOK, Whole

\* In the next state too.
LEMMA EmptyCallsNext ==
    ASSUME calls' = <<>>
    PROVE  CallsOK'
BY DEF CallsOK, Whole

-----------------------------------------------------------------------------
\* What a step of the chat stream starts with, and leaves.
ChatStream == StreamTypeOK /\ ChatOK /\ CallsOK

\* An id is a round and an index.
LEMMA CallIdTypes ==
    ASSUME round \in Nat, NEW i \in Indexes
    PROVE  CallId(i) \in CallIds
BY ProviderAssumption DEF CallId, CallIds, Indexes

\* A delta has the fields it is made with.
LEMMA MadeDelta ==
    ASSUME NEW kind \in {"call", "tool_calls"}, NEW d \in Indexes, NEW id \in CallIds \cup {NoId}, NEW p \in Nat
    PROVE  LET line == [kind |-> kind, index |-> d, id |-> id, piece |-> p]
           IN  line \in Delta /\ line.kind = kind /\ line.index = d /\ line.id = id /\ line.piece = p
BY DEF Delta

\* While the provider of the chat API speaks no call is given yet.
LEMMA SpeakingChat ==
    ASSUME ChatStream, ending = ""
    PROVE  calls = <<>> /\ Chat /\ LinesOK /\ EndsLast /\ Kinds(ChatKinds)
BY DEF ChatStream, ChatOK, StreamTypeOK, LinesOK

\* A piece is said, in a line of the stream or in the last one.
LEMMA PieceSaid ==
    ASSUME ChatStream, ending = "", NEW line \in Delta, Say(line),
           NEW d \in Indexes, line.index = d, line.piece = meant[d] + 1,
           line.id = IF line.piece = 1 THEN CallId(d) ELSE NoId,
           meant' = [meant EXCEPT ![d] = @ + 1],
           \/ line.kind = "call" /\ ending' = ending
           \/ line.kind = "tool_calls" /\ ending' = "tool_calls" /\ Complete /\ d \in Begun,
           UNCHANGED <<api, parserVars, turnVars>>
    PROVE  ChatStream'
<1>1. calls = <<>> /\ Chat /\ LinesOK /\ EndsLast /\ Kinds(ChatKinds)
  BY SpeakingChat
<1>2. meant \in [Indexes -> Nat]
  BY DEF ChatStream, StreamTypeOK
<1>m. meant' \in [Indexes -> Nat] /\ (d \in Begun => Begun' = Begun)
  BY <1>2, MeantMore
<1>5. line \in Line
  BY DEF Line
<1>6. Chat'
  BY <1>1, DeltaSaid DEF ChatStream, parserVars, turnVars
<1>7. EndsLast' /\ Kinds(ChatKinds)'
  BY <1>1, <1>5, SayKinds DEF parserVars, Ends, ChatKinds
<1>8. StreamTypeOK'
  <2>1. LinesOK'
    BY <1>1, <1>5, SayPending DEF parserVars
  <2> QED
    BY <1>m, <2>1 DEF ChatStream, StreamTypeOK, LinesOK, parserVars, turnVars, CurrentId
<1>9. ending' = "tool_calls" => Begun' # {} /\ Complete'
  <2>1. Begun' = Begun => (Complete' <=> Complete)
    BY DEF Complete
  <2> QED
    BY <1>m, <2>1
<1>10. calls' = <<>>
  BY <1>1 DEF turnVars
<1>11. ChatOK'
  BY <1>6, <1>7, <1>9, <1>10 DEF ChatOK
<1> QED
  BY <1>8, <1>10, <1>11, EmptyCallsNext DEF ChatStream

\* Text, or a last line that carries nothing, is said.
LEMMA PlainSaid ==
    ASSUME ChatStream, ending = "", NEW line \in Line \ Delta, Say(line), meant' = meant,
           \/ line.kind = "text" /\ ending' = ending
           \/ line.kind \in {"stop", "tool_calls", "length"} /\ ending' = line.kind,
           ending' = "tool_calls" => Complete /\ Begun # {},
           UNCHANGED <<api, parserVars, turnVars>>
    PROVE  ChatStream'
<1>1. calls = <<>> /\ Chat /\ LinesOK /\ EndsLast /\ Kinds(ChatKinds)
  BY SpeakingChat
<1>2. Chat'
  BY <1>1, OtherSaid DEF ChatStream, parserVars, turnVars
<1>3. EndsLast' /\ Kinds(ChatKinds)'
  BY <1>1, SayKinds DEF parserVars, Ends, ChatKinds
<1>4. StreamTypeOK'
  <2>1. LinesOK'
    BY <1>1, SayPending DEF parserVars
  <2> QED
    BY <2>1 DEF ChatStream, StreamTypeOK, LinesOK, parserVars, turnVars, CurrentId
<1>5. ending' = "tool_calls" => Begun' # {} /\ Complete'
  BY DEF Begun, Complete
<1>6. calls' = <<>>
  BY <1>1 DEF turnVars
<1>7. ChatOK'
  BY <1>2, <1>3, <1>5, <1>6 DEF ChatOK
<1> QED
  BY <1>4, <1>6, <1>7, EmptyCallsNext DEF ChatStream

\* The provider of the chat API keeps its protocol and the parser's state.
LEMMA ChatProvider ==
    ASSUME ChatStream, round \in Nat, api = "chat", Provider
    PROVE  ChatStream'
<1>1. ending = ""
  BY DEF Provider, BeginCall, ContinueCall, ItemDone, SayText, FinishResponse, BreakOff, Speaking
<1>2. \A i \in Indexes : meant[i] \in Nat
  BY DEF ChatStream, StreamTypeOK
<1>3. ASSUME NEW i \in Indexes, BeginCall(i) PROVE ChatStream'
  <2>1. meant[i] = 0
    BY <1>2, <1>3 DEF BeginCall, Begun
  <2>2. meant' = [meant EXCEPT ![i] = @ + 1]
    BY <1>3, <2>1 DEF BeginCall
  <2> DEFINE line == [kind |-> "call", index |-> i, id |-> CallId(i), piece |-> 1]
  <2>3. line \in Delta /\ line.kind = "call" /\ line.index = i /\ line.id = CallId(i) /\ line.piece = 1
    BY MadeDelta, CallIdTypes
  <2>4. Say(line) /\ ending' = ending /\ UNCHANGED <<api, parserVars, turnVars>>
    BY <1>3 DEF BeginCall
  <2> HIDE DEF line
  <2>5. line.piece = meant[i] + 1 /\ line.id = IF line.piece = 1 THEN CallId(i) ELSE NoId
    BY <2>1, <2>3
  <2> QED
    BY <1>1, <2>2, <2>3, <2>4, <2>5, PieceSaid
<1>4. ASSUME NEW i \in Indexes, ContinueCall(i) PROVE ChatStream'
  <2>1. meant[i] # 0 /\ meant[i] \in Nat
    BY <1>2, <1>4 DEF ContinueCall, Begun
  <2> DEFINE line == [kind |-> "call", index |-> i, id |-> NoId, piece |-> meant[i] + 1]
  <2>2. line \in Delta /\ line.kind = "call" /\ line.index = i /\ line.id = NoId /\ line.piece = meant[i] + 1
    BY <2>1, MadeDelta
  <2>3. /\ Say(line) /\ ending' = ending /\ UNCHANGED <<api, parserVars, turnVars>>
        /\ meant' = [meant EXCEPT ![i] = @ + 1]
    BY <1>4 DEF ContinueCall
  <2>4. line.piece # 1
    BY <2>1, <2>2
  <2> HIDE DEF line
  <2> QED
    BY <1>1, <2>2, <2>3, <2>4, PieceSaid
<1>5. ASSUME NEW i \in Indexes, ItemDone(i) PROVE ChatStream'
  BY <1>5 DEF ItemDone
<1>6. CASE SayText
  <2> DEFINE line == [kind |-> "text"]
  <2>1. line \in Line \ Delta /\ line.kind = "text"
    <3>1. line \in Bare
      BY DEF Bare
    <3> QED
      BY <3>1, LineKinds DEF Line
  <2> QED
    BY <1>1, <1>6, <2>1, PlainSaid DEF SayText
<1>7. CASE FinishResponse
  <2>1. ASSUME NEW kind \in {"stop", "tool_calls", "length"}, ending' = kind,
               Say([kind |-> kind, index |-> 0]), meant' = meant,
               kind = "tool_calls" => Complete /\ Begun # {}
        PROVE  ChatStream'
    <3> DEFINE line == [kind |-> kind, index |-> 0]
    <3>1. line \in Line \ Delta /\ line.kind = kind
      <4>1. line \in End
        BY DEF End
      <4> QED
        BY <4>1, LineKinds DEF Line
    <3>2. UNCHANGED <<api, parserVars, turnVars>>
      BY <1>7 DEF FinishResponse
    <3> HIDE DEF line
    <3> QED
      BY <1>1, <2>1, <3>1, <3>2, PlainSaid DEF line
  <2>2. ASSUME NEW i \in Begun, ending' = "tool_calls", Complete, meant' = [meant EXCEPT ![i] = @ + 1],
               Say([kind |-> "tool_calls", index |-> i, id |-> NoId, piece |-> meant[i] + 1])
        PROVE  ChatStream'
    <3>1. i \in Indexes /\ meant[i] # 0
      BY <1>2 DEF Begun
    <3>2. UNCHANGED <<api, parserVars, turnVars>>
      BY <1>7 DEF FinishResponse
    <3> DEFINE line == [kind |-> "tool_calls", index |-> i, id |-> NoId, piece |-> meant[i] + 1]
    <3>3. /\ line \in Delta /\ line.kind = "tool_calls" /\ line.index = i /\ line.id = NoId
          /\ line.piece = meant[i] + 1
      BY <1>2, <3>1, MadeDelta
    <3>4. line.piece # 1
      BY <1>2, <3>1, <3>3
    <3> HIDE DEF line
    <3> QED
      BY <1>1, <2>2, <3>1, <3>2, <3>3, <3>4, PieceSaid DEF line
  <2> QED
    BY <1>7, <2>1, <2>2 DEF FinishResponse
<1>8. CASE BreakOff
  <2>1. PICK n \in 0 .. Len(wire) : wire' = SubSeq(wire, 1, n)
    BY <1>8 DEF BreakOff
  <2>2. calls = <<>> /\ Chat /\ LinesOK /\ EndsLast /\ Kinds(ChatKinds)
    BY <1>1, SpeakingChat
  <2>3. UNCHANGED <<api, meant, buffer, response_id, gathered, round, calls, ids>> /\ ending' = "broken"
    BY <1>8 DEF BreakOff, turnVars
  <2>4. Chat'
    BY <2>1, <2>2, <2>3, ChatBroken DEF ChatStream
  <2>5. EndsLast' /\ Kinds(ChatKinds)'
    BY <1>1, <2>1, <2>2, <2>3, BreakKinds
  <2>6. LinesOK'
    BY <2>1, <2>2, <2>3, BreakPending
  <2>7. StreamTypeOK'
    BY <2>3, <2>6 DEF ChatStream, StreamTypeOK, LinesOK, CurrentId
  <2>8. ChatOK'
    BY <2>2, <2>3, <2>4, <2>5 DEF ChatOK
  <2> QED
    BY <2>2, <2>3, <2>7, <2>8, EmptyCallsNext DEF ChatStream
<1> QED
  BY <1>3, <1>4, <1>5, <1>6, <1>7, <1>8 DEF Provider

\* A chunk changes where lines are, not which.
LEMMA ChatChunk ==
    ASSUME ChatStream, Chunk
    PROVE  ChatStream'
<1>1. LinesOK' /\ Pending' = Pending
  BY ChunkPending DEF Chunk, ChatStream, StreamTypeOK, LinesOK
<1>2. UNCHANGED <<api, meant, ending, response_id, gathered, round, calls, ids>>
  BY DEF Chunk, turnVars
<1>3. \A k, i, p : Carries(k, i, p)' <=> Carries(k, i, p)
  BY <1>1 DEF Carries, Delta
<1>4. \A i : Seen(i)' = Seen(i) /\ CallId(i)' = CallId(i)
  BY <1>2 DEF Seen, CallId
<1>5. StreamTypeOK'
  BY <1>1, <1>2 DEF ChatStream, StreamTypeOK, LinesOK, CurrentId
<1>6. EndsLast' = EndsLast /\ Kinds(ChatKinds)' = Kinds(ChatKinds)
  BY <1>1, <1>2 DEF EndsLast, Kinds, Ends, ChatKinds
<1>7. Begun' = Begun /\ Complete' = Complete
  BY <1>2 DEF Begun, Complete
<1>8. Accumulated(gathered)' = Accumulated(gathered)
  BY <1>2, <1>4 DEF Accumulated
<1>9. PiecesOK' = PiecesOK
  BY <1>1, <1>2, <1>3, <1>4 DEF PiecesOK
<1>10. AllPending' = AllPending
  BY <1>1, <1>2, <1>3, <1>4 DEF AllPending
<1>11. ChatOK'
  BY <1>1, <1>2, <1>6, <1>7, <1>8, <1>9, <1>10 DEF ChatStream, ChatOK, Chat
<1>12. CallsOK'
  BY <1>2, <1>7 DEF ChatStream, CallsOK, Whole, CallId, CurrentId
<1> QED
  BY <1>5, <1>11, <1>12 DEF ChatStream

\* parse_event of chat_completions.rs gives calls that are whole, or none.
LEMMA ChatParse ==
    ASSUME ChatStream, round \in Nat, api = "chat", ParseLine
    PROVE  CallsOK' /\ (phase' = "stream" => ChatStream')
<1> DEFINE line == Head(buffer)
<1>1. /\ buffer # <<>> /\ buffer' = Tail(buffer) /\ ParseChat(line)
      /\ UNCHANGED <<api, meant, ending, wire, round, ids>>
  BY DEF ParseLine, providerVars
<1>2. LinesOK /\ EndsLast /\ Kinds(ChatKinds)
  BY DEF ChatStream, ChatOK, StreamTypeOK, LinesOK
<1>3. /\ EndsLast' /\ Kinds(ChatKinds)' /\ line.kind \in ChatKinds /\ line \in Line
      /\ line.kind \in Ends => line.kind = ending /\ Len(Pending) = 1 /\ Len(Pending') = 0 /\ Pending' = <<>>
  BY <1>1, <1>2, ParseKinds
<1>4. calls = <<>> /\ Chat
  <2>1. Pending # <<>>
    BY <1>1, <1>2, PendingLines
  <2> QED
    BY <2>1 DEF ChatStream, ChatOK
<1>5. LinesOK'
  BY <1>1, <1>2, ParsePending
<1> HIDE DEF line
<1>6. response_id' = CurrentId
  BY <1>1 DEF ParseChat, ChatStream, StreamTypeOK
<1>7. StreamTypeOK'
  BY <1>1, <1>5, <1>6 DEF ChatStream, StreamTypeOK, LinesOK, CurrentId
<1>8. Begun' = Begun /\ Complete' = Complete
  BY <1>1 DEF Begun, Complete
<1>9. ASSUME Chat', calls' = <<>> PROVE ChatStream'
  <2>1. ChatOK'
    BY <1>1, <1>3, <1>8, <1>9 DEF ChatStream, ChatOK
  <2> QED
    BY <1>7, <1>9, <2>1, EmptyCallsNext DEF ChatStream
<1>10. CASE line.kind = "text"
  <2>1. gathered' = gathered /\ calls' = calls
    BY <1>1, <1>10 DEF ParseChat
  <2>2. line \notin Delta
    BY <1>10, LineKinds
  <2>3. Chat'
    BY <1>1, <1>4, <2>1, <2>2, OtherParsed DEF ChatStream, line
  <2> QED
    BY <1>4, <1>9, <2>1, <2>3 DEF ChatStream
<1>11. CASE line.kind = "call"
  <2>1. gathered' = Push(line) /\ calls' = calls
    BY <1>1, <1>11 DEF ParseChat
  <2>2. line \in Delta
    BY <1>3, <1>11, LineKinds DEF Line
  <2>3. Chat'
    BY <1>1, <1>4, <2>1, <2>2, DeltaParsed DEF ChatStream, line
  <2> QED
    BY <1>4, <1>9, <2>1, <2>3 DEF ChatStream
<1>12. CASE line.kind = "tool_calls"
  <2>1. calls' = calls \o Finish(Pushed(line), CurrentId)
    BY <1>1, <1>6, <1>12 DEF ParseChat
  <2>2. ending = "tool_calls" /\ Len(Pending) = 1 /\ Pending' = <<>>
    BY <1>3, <1>12 DEF Ends
  <2>3. Begun # {} /\ Complete /\ meant \in [Indexes -> Nat]
    BY <2>2 DEF ChatStream, ChatOK, StreamTypeOK
  <2>4. \A i \in Indexes : Seen(i) \in Nat /\ Seen(i) <= meant[i] /\ meant[i] \in Nat /\ i \in Nat
    <3>1. \A i \in Indexes : Seen(i) \in Nat /\ Seen(i) <= meant[i] /\ meant[i] \in Nat
      BY <1>4, <2>3, SeenBound DEF Chat, Seen
    <3>2. \A i \in Indexes : i \in Nat
      BY ProviderAssumption DEF Indexes
    <3> QED
      BY <3>1, <3>2
  <2>5. Pending[1] = line
    BY <1>1, <1>2, PendingLines DEF line
  <2>6. \A i \in Indexes : \A p \in Seen(i) + 1 .. meant[i] : Carries(1, i, p)
    BY <1>4, <2>2 DEF Chat, AllPending
  <2>7. Accumulated(Pushed(line)) /\ \A i \in Indexes : SeenIn(Pushed(line), i) >= meant[i]
    <3>1. CASE line \in Delta
      <4> DEFINE d == line.index
      <4>1. /\ d \in Indexes /\ line.piece = Seen(d) + 1 /\ line.piece <= meant[d] /\ d # 0
            /\ line.id = IF line.piece = 1 THEN CallId(d) ELSE NoId
        BY <1>1, <1>4, <3>1, NextPiece, LineKinds DEF ChatStream, line
      <4>2. Pushed(line) = Push(line)
        BY <4>1 DEF Pushed
      <4>3. /\ Accumulated(Push(line))
            /\ \A i \in Indexes : SeenIn(Push(line), i) = IF i = d THEN Seen(i) + 1 ELSE Seen(i)
        BY <1>4, <2>3, <4>1, PushOK DEF Chat
      <4>4. ASSUME NEW i \in Indexes PROVE SeenIn(Push(line), i) >= meant[i]
        <5>1. \A p \in Seen(i) + 1 .. meant[i] : i = d /\ p = line.piece
          BY <2>5, <2>6 DEF Carries
        <5>2. CASE Seen(i) >= meant[i]
          BY <2>4, <4>3, <5>2
        <5>3. CASE Seen(i) < meant[i]
          <6>1. meant[i] \in Seen(i) + 1 .. meant[i]
            BY <2>4, <5>3
          <6>2. i = d /\ meant[i] = Seen(i) + 1
            BY <4>1, <5>1, <6>1
          <6>3. SeenIn(Push(line), i) = Seen(i) + 1
            BY <4>3, <6>2
          <6> QED
            BY <2>4, <6>2, <6>3
        <5> QED
          BY <2>4, <5>2, <5>3
      <4> QED
        BY <4>2, <4>3, <4>4
    <3>2. CASE line \notin Delta
      <4>1. line.index = 0
        BY <1>3, <1>12, <3>2, LineKinds DEF Line
      <4>2. Pushed(line) = gathered
        BY <4>1 DEF Pushed
      <4>3. ASSUME NEW i \in Indexes PROVE Seen(i) >= meant[i]
        <5>1. CASE Seen(i) < meant[i]
          <6>1. meant[i] \in Seen(i) + 1 .. meant[i]
            BY <2>4, <5>1
          <6> QED
            BY <2>5, <2>6, <3>2, <6>1 DEF Carries
        <5> QED
          BY <2>4, <5>1
      <4> QED
        BY <1>4, <4>2, <4>3 DEF Chat, Seen
    <3> QED
      BY <3>1, <3>2
  <2> DEFINE acc == Pushed(line)
             done == Finish(acc, CurrentId)
  <2>8. /\ done = Whole(Len(acc)) /\ Len(acc) = Cardinality(Begun) /\ Len(acc) \in Nat \ {0}
        /\ done \in Seq([call : {CallId(i) : i \in Indexes}, response : {CurrentId}, pieces : Seq(Nat)])
    BY <2>3, <2>7, FinishWhole
  <2> HIDE DEF acc, done
  <2>9. calls' = done
    BY <1>4, <2>1, <2>8, ConcatEmptySeq DEF done, acc
  <2>10. Len(done) = Len(acc)
    BY <2>8 DEF Whole
  <2>12. CallsOK'
    <3>1. \A n \in Nat : Whole(n)' = Whole(n)
      BY <1>1 DEF Whole, CallId, CurrentId
    <3>2. Len(calls') \in Nat /\ calls' = Whole(Len(calls')) /\ Len(calls') = Cardinality(Begun)
      BY <2>8, <2>9, <2>10
    <3> QED
      BY <1>1, <1>8, <2>2, <3>1, <3>2 DEF CallsOK
  <2>13. calls' # <<>>
    BY <2>8, <2>9, <2>10
  <2>14. ChatOK'
    BY <1>1, <1>3, <1>8, <2>2, <2>3, <2>8, <2>9, <2>10, <2>13 DEF ChatOK
  <2> QED
    BY <1>7, <2>12, <2>14 DEF ChatStream
<1>13. CASE line.kind \in {"stop", "length"}
  <2>1. calls' = calls /\ AfterLoop(calls, round_text)
    BY <1>1, <1>13 DEF ParseChat
  <2>2. phase' # "stream"
    BY <2>1 DEF AfterLoop
  <2> QED
    BY <1>4, <2>1, <2>2, EmptyCallsNext
<1> QED
  BY <1>3, <1>10, <1>11, <1>12, <1>13 DEF ChatKinds

-----------------------------------------------------------------------------
(***************************************************************************)
(* The responses parser: whole calls, in order                             *)
(***************************************************************************)
ResponsesStream == StreamTypeOK /\ ResponsesOK /\ CallsOK

\* An item that is said comes last.
LEMMA SayBrings ==
    ASSUME LinesOK, NEW line \in Line, Say(line), buffer' = buffer, NEW k \in Nat, NEW i \in Nat
    PROVE  Brings(k, i)' <=> Brings(k, i) \/ (k = Len(Pending) + 1 /\ line.kind = "item" /\ line.index = i)
<1>1. /\ Len(Pending) \in Nat /\ Len(Pending') = Len(Pending) + 1
      /\ \A j \in 1 .. Len(Pending) : Pending'[j] = Pending[j]
      /\ Pending'[Len(Pending) + 1] = line
  BY SayPending, PendingLines
<1>2. CASE k \in 1 .. Len(Pending)
  BY <1>1, <1>2 DEF Brings
<1>3. CASE k = Len(Pending) + 1
  BY <1>1, <1>3 DEF Brings
<1>4. CASE ~(k \in 1 .. Len(Pending) + 1)
  BY <1>1, <1>4 DEF Brings
<1> QED
  BY <1>1, <1>2, <1>3, <1>4

\* A connection that breaks keeps the first of them.
LEMMA BreakBrings ==
    ASSUME LinesOK, NEW n \in 0 .. Len(wire), wire' = SubSeq(wire, 1, n), buffer' = buffer,
           NEW k \in Nat, NEW i \in Nat
    PROVE  Brings(k, i)' <=> Brings(k, i) /\ k <= Len(Pending')
<1>1. /\ Len(Pending) \in Nat /\ Len(Pending') \in 0 .. Len(Pending)
      /\ \A j \in 1 .. Len(Pending') : j \in 1 .. Len(Pending) /\ Pending'[j] = Pending[j]
  BY BreakPending, PendingLines
<1> QED
  BY <1>1 DEF Brings

\* A parsed line moves the others up.
LEMMA ParseBrings ==
    ASSUME LinesOK, buffer # <<>>, buffer' = Tail(buffer), wire' = wire, NEW k \in Nat, NEW i \in Nat
    PROVE  Brings(k, i)' <=> k # 0 /\ Brings(k + 1, i)
<1>1. /\ Len(Pending) \in Nat /\ Len(Pending') = Len(Pending) - 1 /\ Len(Pending) # 0
      /\ \A j \in 1 .. Len(Pending') : Pending'[j] = Pending[j + 1]
  BY ParsePending, PendingLines
<1>2. CASE k \in 1 .. Len(Pending) - 1
  BY <1>1, <1>2 DEF Brings
<1>3. CASE ~(k \in 1 .. Len(Pending) - 1)
  BY <1>1, <1>3 DEF Brings
<1> QED
  BY <1>2, <1>3

\* Nothing is appended to what the response is named by.
LEMMA StillNamed ==
    ASSUME LinesOK, NamedFirst, ending = "", UNCHANGED <<response_id, round, ids>>,
           Len(Pending') = Len(Pending) + 1, \A j \in 1 .. Len(Pending) : Pending'[j] = Pending[j], LinesOK'
    PROVE  NamedFirst'
<1>1. Len(Pending) \in Nat /\ (Pending = <<>> <=> Len(Pending) = 0)
  BY PendingLines
<1>2. CurrentId' = CurrentId
  BY DEF CurrentId
<1>3. CASE response_id = CurrentId
  BY <1>2, <1>3 DEF NamedFirst
<1>4. CASE Pending # <<>> /\ Pending[1].kind = "created"
  <2>1. 1 \in 1 .. Len(Pending) /\ Len(Pending') # 0
    BY <1>1, <1>4, OneMore
  <2>2. Pending'[1].kind = "created"
    BY <1>4, <2>1
  <2>3. Pending' # <<>>
    <3>1. Len(<<>>) = 0
      OBVIOUS
    <3> QED
      BY <2>1, <3>1
  <2> QED
    BY <2>2, <2>3 DEF NamedFirst
<1> QED
  BY <1>3, <1>4 DEF NamedFirst

\* A line that brings no call is said.
LEMMA NoItemSaid ==
    ASSUME ResponsesStream, ending = "", NEW line \in Line, Say(line), meant' = meant,
           \/ line.kind = "text" /\ ending' = ending
           \/ line.kind = "completed" /\ ending' = line.kind,
           UNCHANGED <<api, parserVars, turnVars>>
    PROVE  ResponsesStream'
<1>1. LinesOK /\ EndsLast /\ Kinds(ResponsesKinds) /\ NamedFirst /\ ItemsOK /\ CalledOK /\ AllItems
  BY DEF ResponsesStream, StreamTypeOK, ResponsesOK, LinesOK
<1>2. UNCHANGED <<api, buffer, response_id, round, calls, ids>>
  BY DEF parserVars, turnVars
<1>3. /\ Len(Pending) \in Nat /\ Len(Pending') = Len(Pending) + 1
      /\ \A j \in 1 .. Len(Pending) : Pending'[j] = Pending[j]
      /\ LinesOK'
  BY <1>1, <1>2, SayPending, PendingLines
<1>4. EndsLast' /\ Kinds(ResponsesKinds)'
  BY <1>1, <1>2, SayKinds DEF Ends, ResponsesKinds
<1>5. NamedFirst'
  BY <1>1, <1>2, <1>3, StillNamed
<1>6. \A k, i \in Nat : Brings(k, i)' <=> Brings(k, i)
  BY <1>1, <1>2, SayBrings
<1>7. \A k, i \in Nat : Brings(k, i) => Pending'[k] = Pending[k]
  BY <1>3 DEF Brings
<1>8. Len(calls) \in Nat
  BY DEF ResponsesStream, CallsOK
<1>9. ItemsOK'
  <2>1. ASSUME NEW k \in Nat, NEW i \in Nat, Brings(k, i)
        PROVE  /\ i \in Indexes /\ Len(calls) < i /\ meant[i] = 1 /\ Pending'[k].id = CallId(i)'
               /\ \A h \in Len(calls) + 1 .. i - 1 : \E j \in 1 .. k - 1 : Brings(j, h)'
    <3>1. /\ i \in Indexes /\ Len(calls) < i /\ meant[i] = 1 /\ Pending[k].id = CallId(i)
          /\ \A h \in Len(calls) + 1 .. i - 1 : \E j \in 1 .. k - 1 : Brings(j, h)
      BY <1>1, <2>1 DEF ItemsOK
    <3>2. ASSUME NEW h \in Len(calls) + 1 .. i - 1 PROVE \E j \in 1 .. k - 1 : Brings(j, h)'
      <4>1. PICK j \in 1 .. k - 1 : Brings(j, h)
        BY <3>1
      <4>2. j \in Nat /\ h \in Nat
        BY <1>8, Between
      <4> QED
        BY <1>6, <4>1, <4>2
    <3>3. CallId(i)' = CallId(i)
      BY <1>2 DEF CallId
    <3> QED
      BY <1>7, <2>1, <3>1, <3>2, <3>3
  <2>2. \A j, k, h, i \in Nat : Brings(j, h)' /\ Brings(k, i)' /\ j < k => h < i
    BY <1>1, <1>6 DEF ItemsOK
  <2> QED
    BY <1>2, <1>6, <2>1, <2>2 DEF ItemsOK
<1>10. CalledOK'
  BY <1>1, <1>2 DEF CalledOK
<1>11. AllItems'
  <2>1. ASSUME NEW i \in Begun, i > Len(calls) PROVE \E k \in 1 .. Len(Pending') : Brings(k, i)'
    <3>1. PICK k \in 1 .. Len(Pending) : Brings(k, i)
      BY <1>1, <2>1 DEF AllItems
    <3>2. k \in Nat /\ i \in Nat /\ k \in 1 .. Len(Pending')
      BY <1>3, OneMore, IndexesAreNumbers DEF Begun
    <3> QED
      BY <1>6, <3>1, <3>2
  <2>2. Begun' = Begun
    BY DEF Begun
  <2> QED
    BY <1>2, <2>1, <2>2 DEF AllItems
<1>12. StreamTypeOK'
  BY <1>2, <1>3 DEF ResponsesStream, StreamTypeOK, LinesOK, CurrentId
<1>13. CallsOK'
  <2>1. Whole(Len(calls))' = Whole(Len(calls))
    BY <1>2 DEF Whole, CallId, CurrentId
  <2> QED
    BY <1>2, <2>1 DEF ResponsesStream, CallsOK, StreamTypeOK
<1> QED
  BY <1>4, <1>5, <1>9, <1>10, <1>11, <1>12, <1>13 DEF ResponsesStream, ResponsesOK

\* The parts of the invariant of this parser.
LEMMA ResponsesParts ==
    ASSUME ResponsesStream
    PROVE  /\ LinesOK /\ EndsLast /\ Kinds(ResponsesKinds) /\ NamedFirst /\ ItemsOK /\ CalledOK /\ AllItems
           /\ Len(calls) \in Nat /\ calls = Whole(Len(calls)) /\ meant \in [Indexes -> Nat]
BY DEF ResponsesStream, StreamTypeOK, ResponsesOK, LinesOK, CallsOK

\* An item has the fields it is made with.
LEMMA MadeItem ==
    ASSUME NEW d \in Indexes, NEW id \in CallIds
    PROVE  LET line == [kind |-> "item", index |-> d, id |-> id]
           IN  line \in Line /\ line.kind = "item" /\ line.index = d /\ line.id = id
BY DEF Line, Item

\* What is called is meant, and so are the items that are pending.
LEMMA ItemSaid ==
    ASSUME ResponsesStream, round \in Nat, api = "responses", NEW d \in Indexes, ItemDone(d)
    PROVE  ResponsesStream'
<1> DEFINE line == [kind |-> "item", index |-> d, id |-> CallId(d)]
<1>1. /\ LinesOK /\ EndsLast /\ Kinds(ResponsesKinds) /\ NamedFirst /\ ItemsOK /\ CalledOK /\ AllItems
      /\ Len(calls) \in Nat /\ calls = Whole(Len(calls)) /\ meant \in [Indexes -> Nat]
  BY ResponsesParts
<1>2. line \in Line /\ line.kind = "item" /\ line.index = d /\ line.id = CallId(d)
  BY MadeItem, CallIdTypes
<1>3. /\ ending = "" /\ Begun = 1 .. d - 1 /\ meant' = [meant EXCEPT ![d] = 1] /\ Say(line)
      /\ UNCHANGED <<api, ending, buffer, response_id, round, calls, ids>>
  BY DEF ItemDone, Speaking, parserVars, turnVars
<1> HIDE DEF line
<1>4. /\ Len(Pending) \in Nat /\ Len(Pending') = Len(Pending) + 1
      /\ \A j \in 1 .. Len(Pending) : Pending'[j] = Pending[j]
      /\ Pending'[Len(Pending) + 1] = line
      /\ LinesOK'
  BY <1>1, <1>2, <1>3, SayPending, PendingLines
<1>5. d \in Nat /\ d # 0
  BY IndexesAreNumbers
<1>6. \A i \in Indexes : meant'[i] = IF i = d THEN 1 ELSE meant[i]
  BY <1>1, <1>3
<1>7. \A i \in Indexes : meant[i] = 1 => i \in Nat /\ i < d
  <2>1. \A i \in Indexes : meant[i] = 1 => i \in Begun
    BY DEF Begun
  <2>2. \A i \in Begun : i \in Nat /\ i < d
    BY <1>3, <1>5, Between
  <2> QED
    BY <2>1, <2>2
<1>8. Len(calls) < d
  <2>1. CASE Len(calls) # 0
    <3>1. Len(calls) \in 1 .. Len(calls)
      BY <1>1, <2>1
    <3> QED
      BY <1>1, <1>7, <3>1 DEF CalledOK
  <2>2. CASE Len(calls) = 0
    BY <1>5, <2>2
  <2> QED
    BY <2>1, <2>2
<1>9. EndsLast' /\ Kinds(ResponsesKinds)'
  BY <1>1, <1>2, <1>3, SayKinds DEF Ends, ResponsesKinds
<1>10. NamedFirst'
  BY <1>1, <1>3, <1>4, StillNamed
<1>11. \A k, i \in Nat : Brings(k, i)' <=> Brings(k, i) \/ (k = Len(Pending) + 1 /\ i = d)
  BY <1>1, <1>2, <1>3, SayBrings
<1>12. \A k, i \in Nat : Brings(k, i) => Pending'[k] = Pending[k] /\ k <= Len(Pending)
  BY <1>4 DEF Brings
<1>13. \A i : CallId(i)' = CallId(i)
  BY <1>3 DEF CallId
<1>14. ItemsOK'
  <2>1. ASSUME NEW k \in Nat, NEW i \in Nat, Brings(k, i)'
        PROVE  /\ i \in Indexes /\ Len(calls) < i /\ meant'[i] = 1 /\ Pending'[k].id = CallId(i)'
               /\ \A h \in Len(calls) + 1 .. i - 1 : \E j \in 1 .. k - 1 : Brings(j, h)'
    <3>1. CASE Brings(k, i)
      <4>1. /\ i \in Indexes /\ Len(calls) < i /\ meant[i] = 1 /\ Pending[k].id = CallId(i)
            /\ \A h \in Len(calls) + 1 .. i - 1 : \E j \in 1 .. k - 1 : Brings(j, h)
        BY <1>1, <3>1 DEF ItemsOK
      <4>2. ASSUME NEW h \in Len(calls) + 1 .. i - 1 PROVE \E j \in 1 .. k - 1 : Brings(j, h)'
        <5>1. PICK j \in 1 .. k - 1 : Brings(j, h)
          BY <4>1
        <5>2. j \in Nat /\ h \in Nat
          BY <1>1, Between
        <5> QED
          BY <1>11, <5>1, <5>2
      <4>3. meant'[i] = 1
        BY <1>6, <4>1
      <4> QED
        BY <1>12, <1>13, <3>1, <4>1, <4>2, <4>3
    <3>2. CASE k = Len(Pending) + 1 /\ i = d
      <4>1. ASSUME NEW h \in Len(calls) + 1 .. i - 1 PROVE \E j \in 1 .. k - 1 : Brings(j, h)'
        <5>1. h \in Begun /\ h > Len(calls) /\ h \in Nat
          BY <1>1, <1>3, <3>2, Between
        <5>2. PICK j \in 1 .. Len(Pending) : Brings(j, h)
          BY <1>1, <1>3, <5>1 DEF AllItems
        <5>3. j \in 1 .. k - 1 /\ j \in Nat
          BY <1>4, <3>2
        <5> QED
          BY <1>11, <5>1, <5>2, <5>3
      <4> QED
        BY <1>2, <1>4, <1>6, <1>8, <1>13, <3>2, <4>1
    <3> QED
      BY <1>11, <2>1, <3>1, <3>2
  <2>2. ASSUME NEW j \in Nat, NEW k \in Nat, NEW h \in Nat, NEW i \in Nat, Brings(j, h)', Brings(k, i)', j < k
        PROVE  h < i
    <3>1. k \in 1 .. Len(Pending')
      BY <2>2 DEF Brings
    <3>2. Brings(j, h)
      BY <1>4, <1>11, <2>2, <3>1
    <3>3. CASE Brings(k, i)
      BY <1>1, <2>2, <3>2, <3>3 DEF ItemsOK
    <3>4. CASE i = d
      BY <1>1, <1>7, <3>2, <3>4 DEF ItemsOK
    <3> QED
      BY <1>11, <2>2, <3>3, <3>4
  <2> QED
    BY <1>3, <2>1, <2>2 DEF ItemsOK
<1>15. CalledOK'
  BY <1>1, <1>3, <1>6 DEF CalledOK
<1>16. AllItems'
  <2>1. ASSUME NEW i \in Begun', i > Len(calls) PROVE \E k \in 1 .. Len(Pending') : Brings(k, i)'
    <3>0. i \in Indexes /\ i \in Nat
      BY IndexesAreNumbers DEF Begun
    <3>1. CASE i = d
      <4>1. Len(Pending) + 1 \in Nat /\ Len(Pending) + 1 \in 1 .. Len(Pending')
        BY <1>4
      <4> QED
        BY <1>5, <1>11, <3>1, <4>1
    <3>2. CASE i # d
      <4>1. i \in Begun
        BY <1>6, <3>0, <3>2 DEF Begun
      <4>2. PICK k \in 1 .. Len(Pending) : Brings(k, i)
        BY <1>1, <1>3, <2>1, <4>1 DEF AllItems
      <4>3. k \in Nat /\ k \in 1 .. Len(Pending')
        BY <1>4, OneMore
      <4> QED
        BY <1>11, <3>0, <4>2, <4>3
    <3> QED
      BY <3>1, <3>2
  <2> QED
    BY <1>3, <2>1 DEF AllItems
<1>17. StreamTypeOK'
  <2>1. meant' \in [Indexes -> Nat]
    BY <1>1, <1>3
  <2> QED
    BY <1>3, <1>4, <2>1 DEF ResponsesStream, StreamTypeOK, LinesOK, CurrentId
<1>18. CallsOK'
  <2>1. \A i \in 1 .. Len(calls) : i \in Indexes /\ i # d
    BY <1>1, <1>7 DEF CalledOK
  <2>2. Whole(Len(calls))' = Whole(Len(calls))
    <3>1. \A i \in 1 .. Len(calls) : meant'[i] = meant[i]
      BY <1>6, <2>1
    <3>2. CurrentId' = CurrentId /\ calls' = calls
      BY <1>3 DEF CurrentId
    <3> QED
      BY <1>13, <3>1, <3>2 DEF Whole
  <2> QED
    BY <1>1, <1>3, <2>2 DEF CallsOK
<1> QED
  BY <1>9, <1>10, <1>14, <1>15, <1>16, <1>17, <1>18 DEF ResponsesStream, ResponsesOK

\* Items that are lost are the last ones.
LEMMA ResponsesBroken ==
    ASSUME ResponsesStream, BreakOff, api = "responses"
    PROVE  ResponsesStream'
<1>1. /\ LinesOK /\ EndsLast /\ Kinds(ResponsesKinds) /\ NamedFirst /\ ItemsOK /\ CalledOK /\ AllItems
      /\ Len(calls) \in Nat /\ calls = Whole(Len(calls)) /\ meant \in [Indexes -> Nat]
  BY ResponsesParts
<1>2. PICK n \in 0 .. Len(wire) : wire' = SubSeq(wire, 1, n)
  BY DEF BreakOff
<1>3. /\ UNCHANGED <<api, meant, buffer, response_id, round, calls, ids>>
      /\ ending = "" /\ ending' = "broken"
  BY DEF BreakOff, Speaking, turnVars
<1>4. /\ Len(Pending) \in Nat /\ Len(Pending') \in 0 .. Len(Pending)
      /\ \A j \in 1 .. Len(Pending') : j \in 1 .. Len(Pending) /\ Pending'[j] = Pending[j]
      /\ LinesOK' /\ (Pending = <<>> <=> Len(Pending) = 0)
  BY <1>1, <1>2, <1>3, BreakPending, PendingLines
<1>5. EndsLast' /\ Kinds(ResponsesKinds)'
  BY <1>1, <1>2, <1>3, BreakKinds
<1>6. CurrentId' = CurrentId /\ \A i : CallId(i)' = CallId(i)
  BY <1>3 DEF CurrentId, CallId
<1>7. NamedFirst'
  <2>1. CASE response_id = CurrentId
    BY <1>3, <1>6, <2>1 DEF NamedFirst
  <2>2. CASE Pending' = <<>>
    BY <1>3, <2>2 DEF NamedFirst
  <2>3. CASE response_id # CurrentId /\ Pending' # <<>>
    <3>1. Len(Pending') # 0
      BY <1>4, <2>3, PendingNext, EmptySeq
    <3>2. 1 \in 1 .. Len(Pending')
      BY <1>4, <3>1
    <3>3. Pending # <<>> /\ Pending'[1] = Pending[1]
      BY <1>4, <3>1, <3>2
    <3> QED
      BY <1>1, <2>3, <3>3 DEF NamedFirst
  <2> QED
    BY <2>1, <2>2, <2>3
<1>8. \A k, i \in Nat : Brings(k, i)' <=> Brings(k, i) /\ k <= Len(Pending')
  BY <1>1, <1>2, <1>3, BreakBrings
<1>9. ItemsOK'
  <2>1. ASSUME NEW k \in Nat, NEW i \in Nat, Brings(k, i)'
        PROVE  /\ i \in Indexes /\ Len(calls) < i /\ meant[i] = 1 /\ Pending'[k].id = CallId(i)
               /\ \A h \in Len(calls) + 1 .. i - 1 : \E j \in 1 .. k - 1 : Brings(j, h)'
    <3>1. Brings(k, i) /\ k \in 1 .. Len(Pending')
      BY <1>8, <2>1 DEF Brings
    <3>2. /\ i \in Indexes /\ Len(calls) < i /\ meant[i] = 1 /\ Pending[k].id = CallId(i)
          /\ \A h \in Len(calls) + 1 .. i - 1 : \E j \in 1 .. k - 1 : Brings(j, h)
      BY <1>1, <3>1 DEF ItemsOK
    <3>3. ASSUME NEW h \in Len(calls) + 1 .. i - 1 PROVE \E j \in 1 .. k - 1 : Brings(j, h)'
      <4>1. PICK j \in 1 .. k - 1 : Brings(j, h)
        BY <3>2
      <4>2. j \in Nat /\ h \in Nat
        BY <1>1, Between
      <4>3. j <= Len(Pending')
        BY <1>4, <3>1
      <4> QED
        BY <1>8, <4>1, <4>2, <4>3
    <3> QED
      BY <1>4, <3>1, <3>2, <3>3
  <2>2. \A j, k, h, i \in Nat : Brings(j, h)' /\ Brings(k, i)' /\ j < k => h < i
    BY <1>1, <1>8 DEF ItemsOK
  <2> QED
    BY <1>3, <1>6, <2>1, <2>2 DEF ItemsOK
<1>10. CalledOK'
  BY <1>1, <1>3 DEF CalledOK
<1>11. AllItems'
  BY <1>3 DEF AllItems
<1>12. StreamTypeOK'
  BY <1>3, <1>4, <1>6 DEF ResponsesStream, StreamTypeOK, LinesOK
<1>13. CallsOK'
  <2>1. Whole(Len(calls))' = Whole(Len(calls))
    BY <1>3, <1>6 DEF Whole
  <2> QED
    BY <1>1, <1>3, <2>1 DEF CallsOK
<1> QED
  BY <1>5, <1>7, <1>9, <1>10, <1>11, <1>12, <1>13 DEF ResponsesStream, ResponsesOK

\* The provider of the responses API keeps its protocol and the parser's state.
LEMMA ResponsesProvider ==
    ASSUME ResponsesStream, round \in Nat, api = "responses", Provider
    PROVE  ResponsesStream'
<1>1. ending = ""
  BY DEF Provider, BeginCall, ContinueCall, ItemDone, SayText, FinishResponse, BreakOff, Speaking
<1>2. ASSUME NEW i \in Indexes, BeginCall(i) \/ ContinueCall(i) PROVE ResponsesStream'
  BY <1>2 DEF BeginCall, ContinueCall
<1>3. ASSUME NEW i \in Indexes, ItemDone(i) PROVE ResponsesStream'
  BY <1>3, ItemSaid
<1>4. CASE SayText
  <2> DEFINE line == [kind |-> "text"]
  <2>1. line \in Line /\ line.kind = "text"
    BY DEF Line, Bare
  <2> QED
    BY <1>1, <1>4, <2>1, NoItemSaid DEF SayText
<1>5. CASE FinishResponse
  <2> DEFINE line == [kind |-> "completed"]
  <2>1. line \in Line /\ line.kind = "completed"
    BY DEF Line, Bare
  <2>2. Say(line) /\ ending' = "completed" /\ UNCHANGED <<meant, api, parserVars, turnVars>>
    BY <1>5 DEF FinishResponse
  <2> QED
    BY <1>1, <2>1, <2>2, NoItemSaid
<1>6. CASE BreakOff
  BY <1>6, ResponsesBroken
<1> QED
  BY <1>2, <1>3, <1>4, <1>5, <1>6 DEF Provider

\* A chunk changes where lines are, not which.
LEMMA ResponsesChunk ==
    ASSUME ResponsesStream, Chunk
    PROVE  ResponsesStream'
<1>1. LinesOK' /\ Pending' = Pending
  BY ChunkPending DEF Chunk, ResponsesStream, StreamTypeOK, LinesOK
<1>2. UNCHANGED <<api, meant, ending, response_id, round, calls, ids>>
  BY DEF Chunk, turnVars
<1>3. \A k, i : Brings(k, i)' <=> Brings(k, i)
  BY <1>1 DEF Brings
<1>4. CurrentId' = CurrentId /\ \A i : CallId(i)' = CallId(i)
  BY <1>2 DEF CurrentId, CallId
<1>5. StreamTypeOK'
  BY <1>1, <1>2, <1>4 DEF ResponsesStream, StreamTypeOK, LinesOK
<1>6. EndsLast' = EndsLast /\ Kinds(ResponsesKinds)' = Kinds(ResponsesKinds)
  BY <1>1, <1>2 DEF EndsLast, Kinds, Ends, ResponsesKinds
<1>7. NamedFirst' = NamedFirst
  BY <1>1, <1>2, <1>4 DEF NamedFirst
<1>8. ItemsOK' = ItemsOK
  BY <1>1, <1>2, <1>3, <1>4 DEF ItemsOK
<1>9. CalledOK' = CalledOK
  BY <1>2 DEF CalledOK
<1>10. AllItems' = AllItems
  BY <1>1, <1>2, <1>3 DEF AllItems, Begun
<1>11. CallsOK'
  BY <1>2, <1>4 DEF ResponsesStream, CallsOK, Whole, Begun
<1> QED
  BY <1>5, <1>6, <1>7, <1>8, <1>9, <1>10, <1>11 DEF ResponsesStream, ResponsesOK

\* Beyond the next number is beyond the number.
LEMMA Past ==
    ASSUME NEW a \in Nat, NEW b \in Nat, NEW i \in Nat, i > b, b = a \/ b = a + 1
    PROVE  i > a /\ i # b
OBVIOUS

\* The pending items after the first line is parsed, and called if it is one.
LEMMA ItemsParsed ==
    ASSUME LinesOK, ItemsOK, AllItems, Len(calls) \in Nat,
           buffer # <<>>, buffer' = Tail(buffer), UNCHANGED <<wire, meant, ending, round>>,
           NEW n \in Nat, n = Len(calls'),
           \A i \in Nat : Brings(1, i) => i = n,
           n = Len(calls) \/ (n = Len(calls) + 1 /\ Brings(1, n))
    PROVE  ItemsOK' /\ AllItems'
<1>1. /\ Len(Pending) \in Nat \ {0} /\ Len(Pending') = Len(Pending) - 1
      /\ \A j \in 1 .. Len(Pending') : j + 1 \in 1 .. Len(Pending) /\ Pending'[j] = Pending[j + 1]
  BY ParsePending, PendingLines
<1>2. \A k, i \in Nat : Brings(k, i)' <=> k # 0 /\ Brings(k + 1, i)
  BY ParseBrings
<1>3. \A i : CallId(i)' = CallId(i)
  BY DEF CallId
<1>4. ItemsOK'
  <2>1. ASSUME NEW k \in Nat, NEW i \in Nat, Brings(k, i)'
        PROVE  /\ i \in Indexes /\ n < i /\ meant[i] = 1 /\ Pending'[k].id = CallId(i)
               /\ \A h \in n + 1 .. i - 1 : \E j \in 1 .. k - 1 : Brings(j, h)'
    <3>1. Brings(k + 1, i) /\ k \in 1 .. Len(Pending') /\ k + 1 \in Nat /\ 1 < k + 1 /\ 1 \in Nat
      BY <1>1, <1>2, <2>1 DEF Brings
    <3>2. /\ i \in Indexes /\ Len(calls) < i /\ meant[i] = 1 /\ Pending[k + 1].id = CallId(i)
          /\ \A h \in Len(calls) + 1 .. i - 1 : \E j \in 1 .. (k + 1) - 1 : Brings(j, h)
      BY <3>1 DEF ItemsOK
    <3>3. n < i
      BY <3>1, <3>2 DEF ItemsOK
    <3>4. ASSUME NEW h \in n + 1 .. i - 1 PROVE \E j \in 1 .. k - 1 : Brings(j, h)'
      <4>1. h \in Len(calls) + 1 .. i - 1 /\ h \in Nat /\ h # n
        OBVIOUS
      <4>2. PICK j \in 1 .. (k + 1) - 1 : Brings(j, h)
        BY <3>2, <4>1
      <4>3. j # 1
        BY <4>1, <4>2
      <4>4. j - 1 \in Nat /\ j - 1 # 0 /\ (j - 1) + 1 = j /\ j - 1 \in 1 .. k - 1
        BY <4>3
      <4>5. Brings(j - 1, h)'
        BY <1>2, <4>1, <4>2, <4>4
      <4> QED
        BY <4>4, <4>5
    <3> QED
      BY <1>1, <3>1, <3>2, <3>3, <3>4
  <2>2. ASSUME NEW j \in Nat, NEW k \in Nat, NEW h \in Nat, NEW i \in Nat, Brings(j, h)', Brings(k, i)', j < k
        PROVE  h < i
    <3>1. Brings(j + 1, h) /\ Brings(k + 1, i) /\ j + 1 \in Nat /\ k + 1 \in Nat /\ j + 1 < k + 1
      BY <1>2, <2>2
    <3> QED
      BY <3>1 DEF ItemsOK
  <2> QED
    BY <1>3, <2>1, <2>2 DEF ItemsOK
<1>5. AllItems'
  <2>1. ASSUME ending = "", NEW i \in Begun, i > n PROVE \E k \in 1 .. Len(Pending') : Brings(k, i)'
    <3>0. i \in Nat /\ i > Len(calls) /\ i # n
      <4>1. i \in Nat
        BY IndexesAreNumbers DEF Begun
      <4>2. n = Len(calls) \/ n = Len(calls) + 1
        OBVIOUS
      <4> QED
        BY <2>1, <4>1, <4>2, Past
    <3>1. PICK k \in 1 .. Len(Pending) : Brings(k, i)
      BY <2>1, <3>0 DEF AllItems
    <3>2. k # 1
      BY <3>0, <3>1
    <3>3. k - 1 \in Nat /\ k - 1 # 0 /\ (k - 1) + 1 = k /\ k - 1 \in 1 .. Len(Pending')
      BY <1>1, <3>2
    <3>4. Brings(k - 1, i)'
      BY <1>2, <3>0, <3>1, <3>3
    <3> QED
      BY <3>3, <3>4
  <2>2. Begun' = Begun
    BY DEF Begun
  <2> QED
    BY <2>1, <2>2 DEF AllItems
<1> QED
  BY <1>4, <1>5

\* The next call is appended.
LEMMA WholeOn ==
    ASSUME NEW n \in Nat, meant[n + 1] = 1
    PROVE  Append(Whole(n), [call |-> CallId(n + 1), response |-> CurrentId, pieces |-> <<1>>]) = Whole(n + 1)
<1> DEFINE said(i) == [call |-> CallId(i), response |-> CurrentId, pieces |-> [p \in 1 .. meant[i] |-> p]]
           next == [call |-> CallId(n + 1), response |-> CurrentId, pieces |-> <<1>>]
           S == {said(i) : i \in 1 .. n + 1}
<1>1. next = said(n + 1)
  <2>1. <<1>> = [p \in 1 .. 1 |-> p]
    OBVIOUS
  <2> QED
    BY <2>1
<1>2. Whole(n) = [i \in 1 .. n |-> said(i)] /\ Whole(n + 1) = [i \in 1 .. n + 1 |-> said(i)]
  BY DEF Whole
<1> HIDE DEF said, next
<1>3. (\A i \in 1 .. n + 1 : said(i) \in S) /\ next \in S
  BY <1>1
<1> HIDE DEF S
<1>4. /\ Whole(n) \in Seq(S) /\ Len(Whole(n)) = n
      /\ Whole(n + 1) \in Seq(S) /\ Len(Whole(n + 1)) = n + 1
      /\ \A i \in 1 .. n : Whole(n)[i] = Whole(n + 1)[i]
      /\ Whole(n + 1)[n + 1] = next
  BY <1>1, <1>2, <1>3
<1>5. /\ Append(Whole(n), next) \in Seq(S) /\ Len(Append(Whole(n), next)) = n + 1
      /\ \A i \in 1 .. n : Append(Whole(n), next)[i] = Whole(n)[i]
      /\ Append(Whole(n), next)[n + 1] = next
  BY <1>3, <1>4, AppendProperties
<1>6. \A i \in 1 .. n + 1 : i \in 1 .. n \/ i = n + 1
  BY OneMore
<1>7. \A i \in 1 .. n + 1 : Append(Whole(n), next)[i] = Whole(n + 1)[i]
  BY <1>4, <1>5, <1>6
<1>8. Append(Whole(n), next) = Whole(n + 1)
  BY <1>4, <1>5, <1>7, SeqEqual
<1> QED
  BY <1>8 DEF next

\* parse_event of openai.rs gives calls that are whole, in order.
LEMMA ResponsesParse ==
    ASSUME ResponsesStream, round \in Nat, api = "responses", ParseLine
    PROVE  CallsOK' /\ (phase' = "stream" => ResponsesStream')
<1> DEFINE line == Head(buffer)
           n == Len(calls)
<1>1. /\ LinesOK /\ EndsLast /\ Kinds(ResponsesKinds) /\ NamedFirst /\ ItemsOK /\ CalledOK /\ AllItems
      /\ n \in Nat /\ calls = Whole(n) /\ meant \in [Indexes -> Nat]
  BY ResponsesParts
<1>2. /\ buffer # <<>> /\ buffer' = Tail(buffer) /\ ParseResponses(line)
      /\ UNCHANGED <<api, meant, ending, wire, round, ids>>
  BY DEF ParseLine, providerVars
<1>3. EndsLast' /\ Kinds(ResponsesKinds)' /\ line.kind \in ResponsesKinds /\ line \in Line
  BY <1>1, <1>2, ParseKinds
<1>4. /\ Len(Pending) \in Nat \ {0} /\ Pending # <<>> /\ Pending[1] = line
      /\ LinesOK'
  BY <1>1, <1>2, PendingLines, ParsePending
<1> HIDE DEF line
<1>5. response_id' = CurrentId
  BY <1>1, <1>2, <1>4 DEF ParseResponses, NamedFirst
<1>6. CurrentId' = CurrentId /\ \A i : CallId(i)' = CallId(i)
  BY <1>2 DEF CurrentId, CallId
<1>7. StreamTypeOK' /\ NamedFirst'
  BY <1>2, <1>4, <1>5, <1>6 DEF ResponsesStream, StreamTypeOK, LinesOK, NamedFirst
<1>8. \A i \in Nat : Brings(1, i) => line.kind = "item" /\ line.index = i
  BY <1>4 DEF Brings
<1>9. \A m \in Nat : Whole(m)' = Whole(m)
  BY <1>2, <1>6 DEF Whole
<1>10. ASSUME calls' = calls PROVE CallsOK'
  BY <1>1, <1>2, <1>9, <1>10 DEF CallsOK
<1>11. CASE line.kind \in {"created", "text"}
  <2>1. calls' = calls
    BY <1>2, <1>11 DEF ParseResponses
  <2>2. ItemsOK' /\ AllItems'
    BY <1>1, <1>2, <1>8, <1>11, <2>1, ItemsParsed
  <2>3. CalledOK'
    BY <1>1, <1>2, <2>1 DEF CalledOK
  <2> QED
    BY <1>3, <1>7, <1>10, <2>1, <2>2, <2>3 DEF ResponsesStream, ResponsesOK
<1>12. CASE line.kind = "item"
  <2> DEFINE d == line.index
  <2>1. /\ line.id = CallId(d) /\ d \in Indexes /\ n < d /\ meant[d] = 1 /\ Brings(1, d) /\ d \in Nat
        /\ \A h \in n + 1 .. d - 1 : \E j \in 1 .. 1 - 1 : Brings(j, h)
    <3>1. line \in Item
      BY <1>3, <1>12, LineKinds DEF Line
    <3>2. d \in Indexes /\ d \in Nat
      BY <3>1, LineKinds, IndexesAreNumbers
    <3>3. 1 \in 1 .. Len(Pending) /\ 1 \in Nat
      BY <1>4
    <3>4. Brings(1, d)
      BY <1>4, <1>12, <3>3 DEF Brings
    <3> HIDE DEF d
    <3> QED
      BY <1>1, <1>4, <3>2, <3>3, <3>4 DEF ItemsOK
  <2>2. d = n + 1
    <3>1. CASE n + 1 < d
      <4>1. n + 1 \in n + 1 .. d - 1
        BY <1>1, <2>1, <3>1
      <4>2. PICK j \in 1 .. 1 - 1 : TRUE
        BY <2>1, <4>1
      <4> QED
        BY <4>2
    <3> QED
      BY <1>1, <2>1, <3>1
  <2>3. response_id' = response_id
    BY <1>2, <1>12 DEF ParseResponses
  <2>4. calls' = Append(calls, [call |-> line.id, response |-> response_id, pieces |-> <<1>>])
    BY <1>2, <1>12 DEF ParseResponses
  <2>5. calls' = Whole(n + 1)
    BY <1>1, <1>5, <2>1, <2>2, <2>3, <2>4, WholeOn
  <2>6. Len(calls') = n + 1
    BY <1>1, <2>5 DEF Whole
  <2>7. ItemsOK' /\ AllItems'
    <3>1. \A i \in Nat : Brings(1, i) => i = n + 1
      BY <1>8, <2>2
    <3>2. n + 1 \in Nat /\ Brings(1, n + 1)
      BY <1>1, <2>1, <2>2
    <3> HIDE DEF d
    <3> QED
      BY <1>1, <1>2, <2>6, <3>1, <3>2, ItemsParsed
  <2>8. CalledOK'
    <3>1. \A i \in 1 .. n + 1 : i \in 1 .. n \/ i = n + 1
      BY <1>1, OneMore
    <3> QED
      BY <1>1, <1>2, <2>1, <2>2, <2>6, <3>1 DEF CalledOK
  <2>9. CallsOK'
    BY <1>1, <1>2, <1>9, <2>5, <2>6 DEF CallsOK
  <2> QED
    BY <1>3, <1>7, <2>7, <2>8, <2>9 DEF ResponsesStream, ResponsesOK
<1>13. CASE line.kind = "completed"
  <2>1. calls' = calls /\ AfterLoop(calls, round_text)
    BY <1>2, <1>13 DEF ParseResponses
  <2>2. phase' # "stream"
    BY <2>1 DEF AfterLoop
  <2> QED
    BY <1>10, <2>1, <2>2
<1> QED
  BY <1>3, <1>11, <1>12, <1>13 DEF ResponsesKinds

-----------------------------------------------------------------------------
(***************************************************************************)
(* The turn                                                                *)
(***************************************************************************)
\* A request stays apart when ids and texts of later rounds come.
LEMMA StillApart ==
    ASSUME NEW m \in Seq(Message), Paired(m), Apart(m), request' = m,
           \A r \in Rounds(m) : ids'[r] = ids[r] /\ texts'[r] = texts[r]
    PROVE  Apart(request)'
<1>1. ASSUME NEW i \in Listing(m), NEW j \in Listing(m),
             NEW c \in ToSet(m[i].calls), NEW d \in ToSet(m[j].calls)
      PROVE  Together(i, j, m[i], c, d)'
  <2>1. Together(i, j, m[i], c, d)
    BY <1>1 DEF Apart
  <2>2. c[1] \in Rounds(m) /\ d[1] \in Rounds(m)
    BY <1>1, CalledAreAnswered
  <2> QED
    BY <2>1, <2>2 DEF Together
<1> QED
  BY <1>1 DEF Apart, Listing

\* So do the outputs stay as their rounds told them.
LEMMA StillOutputs ==
    ASSUME OutputsOK(outputs), outputs' = outputs,
           \A k \in DOMAIN outputs : LET r == outputs[k].call[1] IN ids'[r] = ids[r] /\ texts'[r] = texts[r]
    PROVE  OutputsOK(outputs)'
BY DEF OutputsOK, Told

\* The calls of the round are run: their outputs come after those of earlier rounds.
LEMMA MoreOutputs ==
    ASSUME OutputsOK(outputs), SaidRounds = 1 .. round - 1, ran = SaidCalls, round \in Nat \ {0},
           texts \in Seq(BOOLEAN), Len(texts) = round - 1, round_text \in BOOLEAN,
           ids \in Seq(Ids), Len(ids) = round, ids' = ids,
           Len(calls) \in Nat, calls = Whole(Len(calls)), calls # <<>>, AfterLoop(calls, round_text)
    PROVE  OutputsOK(outputs)' /\ SaidRounds' = 1 .. round /\ ran' = SaidCalls'
<1> DEFINE n == Len(outputs)
           new == [i \in DOMAIN calls |-> [call |-> calls[i].call, text |-> round_text,
                                           response |-> calls[i].response]]
           made(i) == [call |-> <<round, i>>, text |-> round_text, response |-> ids[round]]
<1>1. DOMAIN calls = 1 .. Len(calls) /\ Len(calls) # 0
      /\ \A i \in 1 .. Len(calls) : calls[i].call = <<round, i>> /\ calls[i].response = ids[round]
  <2>1. DOMAIN calls = 1 .. Len(calls)
    BY DEF Whole
  <2>2. Len(calls) # 0
    <3>1. ASSUME Len(calls) = 0 PROVE FALSE
      <4>1. calls = [i \in {} |-> [call |-> CallId(i), response |-> CurrentId,
                                   pieces |-> [p \in 1 .. meant[i] |-> p]]]
        BY <3>1 DEF Whole
      <4>2. DOMAIN calls = {}
        BY <4>1
      <4>3. calls = <<>>
        BY <4>1, <4>2
      <4> QED
        BY <4>3
    <3> QED
      BY <3>1
  <2>3. \A i \in 1 .. Len(calls) : calls[i].call = <<round, i>> /\ calls[i].response = ids[round]
    BY DEF Whole, CallId, CurrentId
  <2> QED
    BY <2>1, <2>2, <2>3
<1>2. ids[round] \in Ids
  BY ElementOfSeq
<1>3. \A i \in 1 .. Len(calls) : new[i] = made(i)
  BY <1>1
<1>4. \A i \in 1 .. Len(calls) : /\ made(i) \in Output /\ made(i).call[1] = round
                                 /\ made(i).response = ids[round] /\ made(i).text = round_text
  BY <1>2 DEF Output, CallIds
<1>5. outputs \in Seq(Output) /\ n \in Nat /\ DOMAIN outputs = 1 .. n
  BY LenProperties DEF OutputsOK
<1> HIDE DEF made
<1>6. new \in Seq(Output) /\ Len(new) = Len(calls)
  BY <1>1, <1>3, <1>4
<1>7. outputs' = outputs \o new /\ texts' = Append(texts, round_text)
  BY DEF AfterLoop
<1> HIDE DEF new
<1>8. /\ outputs' \in Seq(Output) /\ DOMAIN outputs' = 1 .. n + Len(calls) /\ Len(outputs') = n + Len(calls)
      /\ \A k \in 1 .. n + Len(calls) : outputs'[k] = IF k <= n THEN outputs[k] ELSE new[k - n]
  <2>1. /\ outputs \o new \in Seq(Output) /\ Len(outputs \o new) = n + Len(calls)
        /\ \A k \in 1 .. n + Len(calls) : (outputs \o new)[k] = IF k <= n THEN outputs[k] ELSE new[k - n]
    BY <1>5, <1>6, ConcatProperties
  <2>2. outputs' = outputs \o new
    BY <1>7
  <2>3. DOMAIN outputs' = 1 .. Len(outputs')
    BY <2>1, <2>2, LenProperties
  <2> QED
    BY <2>1, <2>2, <2>3
<1>9. \A r \in 1 .. round - 1 : texts'[r] = texts[r]
  BY <1>7, AppendProperties
<1>10. texts'[round] = round_text
  BY <1>7, AppendProperties
<1>11. \A k \in 1 .. n : outputs'[k] = outputs[k] /\ outputs[k].call[1] \in 1 .. round - 1
  <2>1. \A k \in 1 .. n : outputs[k].call[1] \in 1 .. round - 1
    BY DEF SaidRounds
  <2>2. \A k \in 1 .. n : k \in 1 .. n + Len(calls) /\ k <= n
    BY <1>5
  <2>3. \A k \in 1 .. n : outputs'[k] = outputs[k]
    BY <1>8, <2>2
  <2> QED
    BY <2>1, <2>3
<1>12. \A k \in 1 .. n + Len(calls) : k \in 1 .. n \/ (k \notin 1 .. n /\ k - n \in 1 .. Len(calls))
  BY <1>1, <1>5
<1>13. \A k \in 1 .. n + Len(calls) : k \notin 1 .. n => /\ outputs'[k].call[1] = round
                                                        /\ outputs'[k].response = ids[round]
                                                        /\ outputs'[k].text = round_text
  <2>1. \A k \in 1 .. n + Len(calls) : k \notin 1 .. n => k - n \in 1 .. Len(calls) /\ outputs'[k] = new[k - n]
    BY <1>5, <1>8, <1>12
  <2> QED
    BY <1>3, <1>4, <2>1
<1>14. ASSUME NEW k \in DOMAIN outputs' PROVE Told(outputs[k])'
  <2>1. CASE k \in 1 .. n
    <3>1. Told(outputs[k])
      BY <1>5, <2>1 DEF OutputsOK
    <3> QED
      BY <1>9, <1>11, <2>1, <3>1 DEF Told
  <2>2. CASE k \notin 1 .. n
    BY <1>8, <1>10, <1>13, <1>14, <2>2 DEF Told
  <2> QED
    BY <2>1, <2>2
<1>15. ASSUME NEW j \in DOMAIN outputs', NEW k \in DOMAIN outputs', j < k
       PROVE  outputs'[j].call[1] <= outputs'[k].call[1]
  <2>1. CASE k \in 1 .. n
    <3>1. j \in 1 .. n
      BY <1>5, <1>8, <1>15, <2>1
    <3> QED
      BY <1>5, <1>11, <1>15, <2>1, <3>1 DEF OutputsOK
  <2>2. CASE k \notin 1 .. n
    <3>1. outputs'[k].call[1] = round
      BY <1>8, <1>13, <1>15, <2>2
    <3>2. outputs'[j].call[1] \in 1 .. round - 1 \/ outputs'[j].call[1] = round
      BY <1>8, <1>11, <1>13, <1>15
    <3>3. \A x : x \in 1 .. round - 1 \/ x = round => x <= round
      OBVIOUS
    <3> QED
      BY <3>1, <3>2, <3>3
  <2> QED
    BY <2>1, <2>2
<1>16. OutputsOK(outputs)'
  BY <1>8, <1>14, <1>15 DEF OutputsOK
<1>17. SaidRounds' = SaidRounds \cup {round}
  <2>1. 1 .. n \subseteq 1 .. n + Len(calls) /\ n + 1 \in 1 .. n + Len(calls) /\ n + 1 \notin 1 .. n
    BY <1>1, <1>5
  <2>2. SaidRounds' = {outputs'[k].call[1] : k \in 1 .. n + Len(calls)}
    BY <1>8 DEF SaidRounds
  <2> DEFINE later(k) == outputs'[k].call[1]
             before(k) == outputs[k].call[1]
  <2>3. SaidRounds = {before(k) : k \in 1 .. n} /\ SaidRounds' = {later(k) : k \in 1 .. n + Len(calls)}
    BY <2>2 DEF SaidRounds
  <2>4. /\ \A k \in 1 .. n : later(k) = before(k)
        /\ \A k \in 1 .. n + Len(calls) : k \notin 1 .. n => later(k) = round
    BY <1>11, <1>13
  <2> HIDE DEF later, before
  <2> QED
    BY <2>1, <2>3, <2>4
<1>18. (1 .. round - 1) \cup {round} = 1 .. round
  OBVIOUS
<1>19. ran' = SaidCalls'
  <2> DEFINE later(k) == outputs'[k].call
             before(k) == outputs[k].call
             more(i) == calls[i].call
  <2>1. /\ ran = {before(k) : k \in 1 .. n} /\ SaidCalls' = {later(k) : k \in 1 .. n + Len(calls)}
        /\ ran' = ran \cup {more(i) : i \in 1 .. Len(calls)}
    BY <1>1, <1>8 DEF SaidCalls, AfterLoop
  <2>2. \A k \in 1 .. n : later(k) = before(k) /\ k \in 1 .. n + Len(calls)
    BY <1>1, <1>5, <1>11
  <2>3. \A i \in 1 .. Len(calls) : new[i].call = more(i)
    BY DEF new
  <2>4. \A k \in 1 .. n + Len(calls) : k \notin 1 .. n => k - n \in 1 .. Len(calls) /\ later(k) = more(k - n)
    <3>1. \A k \in 1 .. n + Len(calls) : k \notin 1 .. n => k - n \in 1 .. Len(calls)
      BY <1>12
    <3>2. \A k \in 1 .. n + Len(calls) : k \notin 1 .. n => outputs'[k] = new[k - n]
      BY <1>5, <1>8
    <3> QED
      BY <2>3, <3>1, <3>2
  <2>5. \A i \in 1 .. Len(calls) :
            n + i \in 1 .. n + Len(calls) /\ n + i \notin 1 .. n /\ (n + i) - n = i
    BY <1>1, <1>5
  <2>6. \A i \in 1 .. Len(calls) : n + i \in 1 .. n + Len(calls) /\ later(n + i) = more(i)
    <3> HIDE DEF later, before, more
    <3> QED
      BY <2>4, <2>5
  <2> HIDE DEF later, before, more
  <2> QED
    BY <2>1, <2>2, <2>4, <2>6
<1> QED
  BY <1>16, <1>17, <1>18, <1>19

\* What the parser does inside a round.
LEMMA TurnKept ==
    ASSUME TurnOK, phase = "stream", phase' \in {"stream", "failed"}, round_text' \in BOOLEAN,
           UNCHANGED <<api, round, outputs, request, ids, texts, ran>>
    PROVE  TurnOK'
<1>1. OutputsOK(outputs)' /\ SaidRounds' = SaidRounds /\ SaidCalls' = SaidCalls
  BY StillOutputs DEF TurnOK, SaidRounds, SaidCalls
<1>2. RequestOK(request, {c \in ran : c[1] < round})'
  BY DEF TurnOK, RequestOK, Paired, Called, Listing, Answers
<1>3. (api = "chat" => Apart(request))'
  BY StillApart DEF TurnOK, RequestOK
<1>4. phase # "request" /\ phase # "completed" /\ phase # "failed" /\ phase' # "request"
  OBVIOUS
<1> QED
  BY <1>1, <1>2, <1>3, <1>4 DEF TurnOK

\* A response is over: its calls are run, or the turn is completed.
LEMMA TurnLooped ==
    ASSUME TurnOK, CallsOK, phase = "stream", AfterLoop(calls, round_text),
           UNCHANGED <<api, round, round_text, request, ids>>
    PROVE  TurnOK'
<1>1. /\ round \in Nat \ {0} /\ ids \in Seq(Ids) /\ Len(ids) = round
      /\ texts \in Seq(BOOLEAN) /\ round_text \in BOOLEAN /\ Len(texts) = round - 1
      /\ OutputsOK(outputs) /\ SaidRounds = 1 .. Len(texts) /\ ran = SaidCalls
      /\ RequestOK(request, {c \in ran : c[1] < round})
      /\ api = "chat" => Apart(request)
  BY DEF TurnOK
<1>2. /\ texts' = Append(texts, round_text) /\ texts' \in Seq(BOOLEAN) /\ Len(texts') = round
      /\ \A r \in 1 .. round - 1 : texts'[r] = texts[r]
  <2>1. texts' = Append(texts, round_text)
    BY DEF AfterLoop
  <2> QED
    BY <1>1, <2>1, AppendProperties
<1>3. phase' = IF calls = <<>> THEN "completed" ELSE "request"
  BY DEF AfterLoop
<1>4. ASSUME calls # <<>> PROVE OutputsOK(outputs)' /\ SaidRounds' = 1 .. round /\ ran' = SaidCalls'
  BY <1>1, <1>4, MoreOutputs DEF CallsOK
<1>5. Rounds(request) \subseteq 1 .. round - 1 /\ request \in Seq(Message) /\ Paired(request)
  <2>1. \A c \in ran : c[1] \in 1 .. round - 1
    BY <1>1 DEF SaidCalls, SaidRounds
  <2> QED
    BY <1>1, <2>1 DEF RequestOK, Rounds
<1>6. RequestOK(request, {c \in ran : c[1] < round})'
  <2>1. ran' = ran \cup {calls[i].call : i \in DOMAIN calls}
    BY DEF AfterLoop
  <2>2. \A i \in DOMAIN calls : calls[i].call[1] = round
    BY DEF CallsOK, Whole, CallId
  <2>3. {c \in ran' : c[1] < round} = {c \in ran : c[1] < round}
    BY <1>1, <2>1, <2>2
  <2>4. RequestOK(request, {c \in ran : c[1] < round}) /\ request' = request /\ round' = round
    BY <1>1
  <2> QED
    BY <2>3, <2>4 DEF RequestOK, Paired, Called, Listing, Answers
<1>7. (api = "chat" => Apart(request))'
  BY <1>1, <1>2, <1>5, StillApart
<1>8. round' = round /\ ids' = ids /\ api' = api /\ round_text' = round_text
  OBVIOUS
<1>9. CASE calls = <<>>
  <2>1. phase' = "completed"
    BY <1>3, <1>9
  <2> QED
    BY <1>1, <1>2, <1>6, <1>7, <1>8, <2>1 DEF TurnOK
<1>10. CASE calls # <<>>
  <2>1. phase' = "request"
    BY <1>3, <1>10
  <2> QED
    BY <1>1, <1>2, <1>4, <1>6, <1>7, <1>8, <1>10, <2>1 DEF TurnOK
<1> QED
  BY <1>9, <1>10

\* A request holds the calls of all rounds before it.
LEMMA TurnSends ==
    ASSUME TurnOK, SendRequest
    PROVE  TurnOK'
<1>1. /\ round \in Nat /\ ids \in Seq(Ids) /\ Len(ids) = round
      /\ texts \in Seq(BOOLEAN) /\ Len(texts) = round
      /\ OutputsOK(outputs) /\ SaidRounds = 1 .. round /\ ran = SaidCalls
      /\ api \in {"chat", "responses"}
  BY DEF TurnOK, SendRequest
<1>2. /\ round' = round + 1 /\ texts' = texts /\ outputs' = outputs /\ api' = api /\ round_text' = FALSE
      /\ request' = IF api = "chat" THEN Messages(outputs) ELSE ResponseInput(outputs)
      /\ ran' = ran
  BY DEF SendRequest
<1>3. /\ ids' \in Seq(Ids) /\ \A r \in 1 .. round : ids'[r] = ids[r]
      /\ \/ phase' = "stream" /\ Len(ids') = round + 1
         \/ phase' = "failed" /\ Len(ids') = round
  <2>1. CASE phase' = "failed" /\ ids' = ids
    BY <1>1, <2>1
  <2>2. ASSUME phase' = "stream", NEW id \in Ids, ids' = Append(ids, id)
        PROVE  ids' \in Seq(Ids) /\ Len(ids') = round + 1 /\ \A r \in 1 .. round : ids'[r] = ids[r]
    BY <1>1, <2>2, AppendProperties
  <2> QED
    BY <2>1, <2>2 DEF SendRequest
<1>4. \A k \in DOMAIN outputs : outputs[k].call[1] \in 1 .. round
  <2>1. DOMAIN outputs = 1 .. Len(outputs)
    BY <1>1, LenProperties DEF OutputsOK
  <2> QED
    BY <1>1, <2>1 DEF SaidRounds
<1>5. OutputsOK(outputs)' /\ SaidRounds' = SaidRounds /\ SaidCalls' = SaidCalls
  BY <1>1, <1>2, <1>3, <1>4, StillOutputs DEF SaidRounds, SaidCalls
<1>6. RequestOK(request', ran) /\ (api = "chat" => Apart(request'))
  <2>1. ran = {outputs[k].call : k \in 1 .. Len(outputs)}
    BY <1>1 DEF SaidCalls
  <2>2. CASE api = "chat"
    BY <1>1, <1>2, <2>1, <2>2, MessagesOK
  <2>3. CASE api # "chat"
    BY <1>1, <1>2, <2>1, <2>3, ResponseInputOK
  <2> QED
    BY <2>2, <2>3
<1>7. RequestOK(request, {c \in ran : c[1] < round})' /\ Rounds(request') \subseteq 1 .. round
  <2>1. \A c \in ran : c[1] \in 1 .. round
    BY <1>1 DEF SaidCalls, SaidRounds
  <2>2. {c \in ran' : c[1] < round'} = ran
    BY <1>1, <1>2, <2>1
  <2>3. Rounds(request') \subseteq 1 .. round
    BY <1>6, <2>1 DEF RequestOK, Rounds
  <2> QED
    BY <1>6, <2>2, <2>3 DEF RequestOK, Paired, Called, Listing, Answers
<1>8. (api = "chat" => Apart(request))'
  BY <1>2, <1>3, <1>6, <1>7, StillApart DEF RequestOK
<1>9. /\ round' \in Nat /\ round' # 0 /\ Len(texts') = round' - 1 /\ Len(ids') >= round' - 1
      /\ (phase' # "failed" => Len(ids') = round')
  <2>1. round + 1 \in Nat /\ round + 1 # 0 /\ (round + 1) - 1 = round /\ round + 1 >= round /\ round >= round
    BY <1>1
  <2> QED
    BY <1>1, <1>2, <1>3, <2>1
<1>10. SaidRounds' = 1 .. Len(texts') /\ ran' = SaidCalls'
  BY <1>1, <1>2, <1>5
<1>11. phase' \in {"stream", "failed"} /\ phase' # "request"
  BY <1>3
<1>12. api' \in {"chat", "responses"} /\ ids' \in Seq(Ids) /\ texts' \in Seq(BOOLEAN) /\ round_text' \in BOOLEAN
  BY <1>1, <1>2, <1>3
<1> QED
  BY <1>5, <1>7, <1>8, <1>9, <1>10, <1>11, <1>12 DEF TurnOK

\* Nothing of the calls changes.
LEMMA StillCalls ==
    ASSUME CallsOK, UNCHANGED <<api, calls, meant, ending, round, ids>>
    PROVE  CallsOK'
<1>1. CallId(0)' = CallId(0) /\ CurrentId' = CurrentId /\ \A i : CallId(i)' = CallId(i)
  BY DEF CallId, CurrentId
<1>2. Whole(Len(calls))' = Whole(Len(calls)) /\ Begun' = Begun
  BY <1>1 DEF Whole, Begun
<1> QED
  BY <1>2 DEF CallsOK

\* A response begins with nothing said, or with its name.
LEMMA StreamSent ==
    ASSUME TurnOK, SendRequest
    PROVE  CallsOK' /\ StreamOK'
<1>1. /\ meant' = [i \in Indexes |-> 0] /\ ending' = "" /\ api' = api /\ api \in {"chat", "responses"}
      /\ wire' = IF api = "responses" THEN <<[kind |-> "created"]>> ELSE <<>>
      /\ buffer' = <<>> /\ response_id' = NoId /\ gathered' = <<>> /\ calls' = <<>>
  BY DEF SendRequest, TurnOK
<1>2. CallsOK'
  BY <1>1, EmptyCallsNext
<1>10. Len(buffer') = 0 /\ Len(gathered') = 0 /\ DOMAIN gathered' = 1 .. 0 /\ Len(calls') = 0
  <2>1. buffer' = <<>> /\ gathered' = <<>> /\ calls' = <<>>
    BY <1>1
  <2>2. \A s : s = <<>> => Len(s) = 0 /\ DOMAIN s = 1 .. 0
    OBVIOUS
  <2> QED
    BY <2>1, <2>2
<1>11. \A i \in Indexes : meant'[i] = 0
  BY <1>1
<1>3. LinesOK'
  <2>1. [kind |-> "created"] \in Line
    BY DEF Line, Bare
  <2> DEFINE created == [kind |-> "created"]
  <2> HIDE DEF created
  <2>2. <<created>> \in Seq(Line) /\ <<>> \in Seq(Line)
    BY <2>1 DEF created
  <2> QED
    BY <1>1, <2>2 DEF LinesOK, created
<1>4. StreamTypeOK'
  BY <1>1, <1>3 DEF StreamTypeOK, LinesOK
<1>5. /\ Pending' \in Seq(Line) /\ Len(Pending') = Len(buffer') + Len(wire')
      /\ \A k \in 1 .. Len(Pending') : Pending'[k] = IF k <= Len(buffer') THEN buffer'[k] ELSE wire'[k - Len(buffer')]
  BY <1>3, PendingNext
<1>7. Begun' = {}
  BY <1>11 DEF Begun
<1>8. CASE api = "chat"
  <2>1. Len(Pending') = 0
    <3>1. wire' = <<>>
      BY <1>1, <1>8
    <3>2. Len(wire') = 0
      BY <3>1
    <3> QED
      BY <1>5, <1>10, <3>2
  <2>2. EndsLast' /\ Kinds(ChatKinds)'
    BY <2>1 DEF EndsLast, Kinds
  <2>3. \A k, i, p : ~Carries(k, i, p)'
    BY <2>1 DEF Carries
  <2>4. PiecesOK'
    BY <2>3 DEF PiecesOK
  <2>5. \A i \in Indexes : Seen(i)' = 0 /\ meant'[i] = 0
    BY <1>10, <1>11, IndexesAreNumbers DEF Seen, SeenIn
  <2>6. AllPending'
    <3>1. ASSUME NEW i \in Indexes, NEW p \in Seen(i)' + 1 .. meant'[i] PROVE FALSE
      BY <2>5
    <3> QED
      BY <3>1 DEF AllPending
  <2>7. Accumulated(gathered)'
    <3>1. 0 \in 0 .. MaxCalls
      BY ProviderAssumption
    <3> QED
      BY <1>10, <3>1 DEF Accumulated
  <2> QED
    BY <1>1, <1>2, <1>4, <1>8, <2>2, <2>4, <2>6, <2>7 DEF StreamOK, ChatOK, Chat
<1>9. CASE api = "responses"
  <2>0. Len(wire') = 1 /\ wire'[1] = [kind |-> "created"]
    BY <1>1, <1>9
  <2>1. Len(Pending') = 1 /\ Pending'[1] = [kind |-> "created"]
    <3>1. Len(Pending') = 1 /\ 1 \in 1 .. Len(Pending') /\ 1 - Len(buffer') = 1 /\ ~(1 <= Len(buffer'))
      BY <1>5, <1>10, <2>0
    <3> QED
      BY <1>5, <2>0, <3>1
  <2>2. \A k \in 1 .. Len(Pending') : Pending'[k].kind = "created"
    BY <2>1
  <2>3. EndsLast' /\ Kinds(ResponsesKinds)'
    BY <2>2 DEF EndsLast, Kinds, Ends, ResponsesKinds
  <2>4. NamedFirst'
    <3>1. Pending' # <<>>
      BY <2>1
    <3> QED
      BY <2>1, <3>1 DEF NamedFirst
  <2>5. \A k, i : ~Brings(k, i)'
    BY <2>2 DEF Brings
  <2>6. ItemsOK' /\ AllItems'
    BY <1>7, <2>5 DEF ItemsOK, AllItems
  <2>7. CalledOK'
    BY <1>10 DEF CalledOK
  <2>8. api' # "chat"
    BY <1>1, <1>9
  <2> QED
    BY <1>2, <1>4, <2>8, <2>3, <2>4, <2>6, <2>7 DEF StreamOK, ResponsesOK
<1> QED
  BY <1>1, <1>2, <1>8, <1>9

\* A parsed line ends the round or leaves the turn as it is.
LEMMA ParseTurn ==
    ASSUME StreamsInv, ParseLine
    PROVE  TurnOK'
<1> DEFINE line == Head(buffer)
<1>1. /\ phase = "stream" /\ buffer # <<>> /\ buffer' = Tail(buffer)
      /\ IF api = "chat" THEN ParseChat(line) ELSE ParseResponses(line)
      /\ UNCHANGED <<api, wire, ending, round, request, ids>>
  BY DEF ParseLine, providerVars
<1>2. TurnOK /\ CallsOK /\ StreamOK /\ api \in {"chat", "responses"} /\ round_text \in BOOLEAN
  BY DEF StreamsInv, TurnOK
<1>3. LinesOK /\ EndsLast /\ IF api = "chat" THEN Kinds(ChatKinds) ELSE Kinds(ResponsesKinds)
  BY <1>1, <1>2 DEF StreamOK, StreamTypeOK, LinesOK, ChatOK, ResponsesOK
<1>4. \A kinds : Kinds(kinds) => line.kind \in kinds
  BY <1>1, <1>3, ParseKinds
<1> HIDE DEF line
<1>5. ASSUME InLoop, round_text' \in BOOLEAN PROVE TurnOK'
  BY <1>1, <1>2, <1>5, TurnKept DEF InLoop
<1>6. ASSUME AfterLoop(calls, round_text), round_text' = round_text PROVE TurnOK'
  BY <1>1, <1>2, <1>6, TurnLooped
<1>7. CASE api = "chat"
  <2>1. line.kind \in ChatKinds /\ ParseChat(line)
    BY <1>1, <1>3, <1>4, <1>7
  <2>2. CASE line.kind = "text"
    <3>1. InLoop /\ round_text' = TRUE
      BY <2>1, <2>2 DEF ParseChat
    <3> QED
      BY <1>5, <3>1
  <2>3. CASE line.kind \in {"call", "tool_calls"}
    <3>1. InLoop /\ round_text' = round_text
      BY <2>1, <2>3 DEF ParseChat
    <3> QED
      BY <1>2, <1>5, <3>1
  <2>4. CASE line.kind \in {"stop", "length"}
    <3>1. AfterLoop(calls, round_text) /\ round_text' = round_text
      BY <2>1, <2>4 DEF ParseChat
    <3> QED
      BY <1>6, <3>1
  <2> QED
    BY <2>1, <2>2, <2>3, <2>4 DEF ChatKinds
<1>8. CASE api = "responses"
  <2>1. line.kind \in ResponsesKinds /\ ParseResponses(line)
    BY <1>1, <1>3, <1>4, <1>8
  <2>2. CASE line.kind = "text"
    <3>1. InLoop /\ round_text' = TRUE
      BY <2>1, <2>2 DEF ParseResponses
    <3> QED
      BY <1>5, <3>1
  <2>3. CASE line.kind \in {"created", "item"}
    <3>1. InLoop /\ round_text' = round_text
      BY <2>1, <2>3 DEF ParseResponses
    <3> QED
      BY <1>2, <1>5, <3>1
  <2>4. CASE line.kind = "completed"
    <3>1. AfterLoop(calls, round_text) /\ round_text' = round_text
      BY <2>1, <2>4 DEF ParseResponses
    <3> QED
      BY <1>6, <3>1
  <2> QED
    BY <2>1, <2>2, <2>3, <2>4 DEF ResponsesKinds
<1> QED
  BY <1>2, <1>7, <1>8

\* What keeps a stream keeps what it promises.
LEMMA StreamParts ==
    ASSUME StreamsInv, phase = "stream"
    PROVE  /\ round \in Nat /\ api \in {"chat", "responses"}
           /\ api = "chat" => ChatStream
           /\ api = "responses" => ResponsesStream
BY DEF StreamsInv, TurnOK, StreamOK, ChatStream, ResponsesStream

\* What the parsers keep is the invariant of a stream.
LEMMA StreamKept ==
    ASSUME api' = api, api \in {"chat", "responses"}, CallsOK',
           phase' = "stream" => \/ api = "chat" /\ ChatStream'
                                \/ api = "responses" /\ ResponsesStream'
    PROVE  CallsOK' /\ StreamOK'
BY DEF StreamOK, ChatStream, ResponsesStream

-----------------------------------------------------------------------------
(***************************************************************************)
(* The invariant holds, and what follows from it                           *)
(***************************************************************************)
\* A turn begins with nothing sent.
THEOREM ProviderStreamsInit == Init => StreamsInv
<1> SUFFICES ASSUME Init PROVE StreamsInv
  OBVIOUS
<1>1. CallsOK
  BY EmptyCalls DEF Init
<1>2. phase = "request" /\ StreamOK
  BY DEF Init, StreamOK
<1>3. round = 0 /\ ids = <<>> /\ texts = <<>> /\ outputs = <<>> /\ request = <<>> /\ round_text = FALSE
      /\ ran = {} /\ api \in {"chat", "responses"}
  BY DEF Init
<1>4. /\ ids \in Seq(Ids) /\ Len(ids) = 0 /\ texts \in Seq(BOOLEAN) /\ Len(texts) = 0
      /\ outputs \in Seq(Output) /\ Len(outputs) = 0 /\ DOMAIN outputs = {}
  BY <1>3
<1>5. OutputsOK(outputs)
  BY <1>4 DEF OutputsOK
<1>6. SaidRounds = {} /\ SaidCalls = {}
  BY <1>4 DEF SaidRounds, SaidCalls
<1>7. RequestOK(request, {}) /\ Apart(request)
  BY <1>3, EmptyMessages DEF RequestOK
<1>8. {c \in ran : c[1] < round} = {} /\ 1 .. Len(texts) = {} /\ Len(ids) >= round - 1
  BY <1>3, <1>4
<1>9. TurnOK
  BY <1>2, <1>3, <1>4, <1>5, <1>6, <1>7, <1>8 DEF TurnOK
<1> QED
  BY <1>1, <1>2, <1>9 DEF StreamsInv

\* Every step of SendRequest, the provider, parse_sse and run_provider_turn
\* keeps the invariant.
THEOREM ProviderStreamsStep == StreamsInv /\ [Next]_vars => StreamsInv'
<1> SUFFICES ASSUME StreamsInv, [Next]_vars PROVE StreamsInv'
  OBVIOUS
<1>0. TurnOK /\ CallsOK /\ StreamOK
  BY DEF StreamsInv
<1>1. CASE SendRequest
  BY <1>0, <1>1, TurnSends, StreamSent DEF StreamsInv
<1>2. CASE Provider
  <2>1. phase = "stream" /\ UNCHANGED <<api, phase, round, round_text, outputs, request, ids, texts, ran>>
    BY <1>2 DEF Provider, BeginCall, ContinueCall, ItemDone, SayText, FinishResponse, BreakOff, Speaking, turnVars
  <2>2. TurnOK'
    BY <1>0, <2>1, TurnKept DEF TurnOK
  <2>3. round \in Nat /\ api \in {"chat", "responses"}
    BY <2>1, StreamParts
  <2>4. CASE api = "chat"
    <3>1. ChatStream'
      BY <1>2, <2>1, <2>3, <2>4, StreamParts, ChatProvider
    <3>2. CallsOK' /\ StreamOK'
      BY <2>1, <2>3, <2>4, <3>1, StreamKept DEF ChatStream
    <3> QED
      BY <2>2, <3>2 DEF StreamsInv
  <2>5. CASE api = "responses"
    <3>1. ResponsesStream'
      BY <1>2, <2>1, <2>3, <2>5, StreamParts, ResponsesProvider
    <3>2. CallsOK' /\ StreamOK'
      BY <2>1, <2>3, <2>5, <3>1, StreamKept DEF ResponsesStream
    <3> QED
      BY <2>2, <3>2 DEF StreamsInv
  <2> QED
    BY <2>3, <2>4, <2>5
<1>3. CASE Chunk
  <2>1. phase = "stream" /\ UNCHANGED <<api, phase, round, round_text, outputs, request, ids, texts, ran>>
    BY <1>3 DEF Chunk, turnVars
  <2>2. TurnOK'
    BY <1>0, <2>1, TurnKept DEF TurnOK
  <2>3. round \in Nat /\ api \in {"chat", "responses"}
    BY <2>1, StreamParts
  <2>4. CASE api = "chat"
    <3>1. ChatStream'
      BY <1>3, <2>1, <2>3, <2>4, StreamParts, ChatChunk
    <3>2. CallsOK' /\ StreamOK'
      BY <2>1, <2>3, <2>4, <3>1, StreamKept DEF ChatStream
    <3> QED
      BY <2>2, <3>2 DEF StreamsInv
  <2>5. CASE api = "responses"
    <3>1. ResponsesStream'
      BY <1>3, <2>1, <2>3, <2>5, StreamParts, ResponsesChunk
    <3>2. CallsOK' /\ StreamOK'
      BY <2>1, <2>3, <2>5, <3>1, StreamKept DEF ResponsesStream
    <3> QED
      BY <2>2, <3>2 DEF StreamsInv
  <2> QED
    BY <2>3, <2>4, <2>5
<1>4. CASE ParseLine
  <2>1. phase = "stream" /\ api' = api
    BY <1>4 DEF ParseLine
  <2>2. TurnOK'
    BY <1>4, ParseTurn
  <2>3. round \in Nat /\ api \in {"chat", "responses"}
    BY <2>1, StreamParts
  <2>4. CASE api = "chat"
    <3>1. CallsOK' /\ (phase' = "stream" => ChatStream')
      BY <1>4, <2>1, <2>3, <2>4, StreamParts, ChatParse
    <3>2. CallsOK' /\ StreamOK'
      BY <2>1, <2>3, <2>4, <3>1, StreamKept
    <3> QED
      BY <2>2, <3>2 DEF StreamsInv
  <2>5. CASE api = "responses"
    <3>1. CallsOK' /\ (phase' = "stream" => ResponsesStream')
      BY <1>4, <2>1, <2>3, <2>5, StreamParts, ResponsesParse
    <3>2. CallsOK' /\ StreamOK'
      BY <2>1, <2>3, <2>5, <3>1, StreamKept
    <3> QED
      BY <2>2, <3>2 DEF StreamsInv
  <2> QED
    BY <2>3, <2>4, <2>5
<1>5. CASE ParseError
  <2>1. /\ phase = "stream" /\ phase' = "failed"
        /\ UNCHANGED <<api, meant, ending, round, calls, round_text, outputs, request, ids, texts, ran>>
    BY <1>5 DEF ParseError, providerVars
  <2>2. TurnOK'
    BY <1>0, <2>1, TurnKept DEF TurnOK
  <2>3. CallsOK' /\ StreamOK'
    BY <1>0, <2>1, StillCalls DEF StreamOK
  <2> QED
    BY <2>2, <2>3 DEF StreamsInv
<1>6. CASE EndOfStream
  <2>1. /\ phase = "stream" /\ AfterLoop(calls, round_text)
        /\ UNCHANGED <<api, meant, ending, round, calls, round_text, request, ids>>
    BY <1>6 DEF EndOfStream, providerVars
  <2>2. TurnOK'
    BY <1>0, <2>1, TurnLooped
  <2>3. phase' # "stream"
    BY <2>1 DEF AfterLoop
  <2>4. CallsOK' /\ StreamOK'
    BY <1>0, <2>1, <2>3, StillCalls DEF StreamOK
  <2> QED
    BY <2>2, <2>4 DEF StreamsInv
<1>7. CASE UNCHANGED vars
  <2>1. UNCHANGED <<api, meant, ending, wire, half, buffer, response_id, gathered, round, phase, calls,
                    round_text, outputs, request, ids, texts, ran>>
    BY <1>7 DEF vars, providerVars, parserVars, turnVars
  <2>2. CallsOK'
    BY <1>0, <2>1, StillCalls
  <2>3. OutputsOK(outputs)' = OutputsOK(outputs) /\ Apart(request)' = Apart(request)
    BY <2>1 DEF OutputsOK, Told, Apart, Together, Listing
  <2>4. RequestOK(request, {c \in ran : c[1] < round})'
    BY <1>0, <2>1 DEF TurnOK, RequestOK, Paired, Called, Listing, Answers
  <2>5. SaidRounds' = SaidRounds /\ SaidCalls' = SaidCalls
    BY <2>1 DEF SaidRounds, SaidCalls
  <2>6. TurnOK'
    BY <1>0, <2>1, <2>3, <2>4, <2>5 DEF TurnOK
  <2>7. StreamOK'
    <3>1. \A i : CallId(i)' = CallId(i) /\ Seen(i)' = Seen(i)
      BY <2>1 DEF CallId, Seen, SeenIn
    <3>2. CurrentId' = CurrentId /\ Pending' = Pending /\ Begun' = Begun /\ (Complete <=> Complete')
      BY <2>1 DEF CurrentId, Pending, Begun, Complete
    <3>3. StreamTypeOK' <=> StreamTypeOK
      BY <2>1, <3>2 DEF StreamTypeOK
    <3>4. (EndsLast' <=> EndsLast) /\ \A kinds : Kinds(kinds)' <=> Kinds(kinds)
      BY <2>1, <3>2 DEF EndsLast, Kinds
    <3>5. \A k, i, p : Carries(k, i, p)' <=> Carries(k, i, p)
      BY <3>2 DEF Carries
    <3>6. (PiecesOK' <=> PiecesOK) /\ (AllPending' <=> AllPending)
      BY <2>1, <3>1, <3>2, <3>5 DEF PiecesOK, AllPending
    <3>7. Accumulated(gathered)' <=> Accumulated(gathered)
      BY <2>1, <3>1 DEF Accumulated, SeenIn
    <3>8. ChatOK' <=> ChatOK
      BY <2>1, <3>2, <3>4, <3>6, <3>7 DEF ChatOK, Chat
    <3>9. \A k, i : Brings(k, i)' <=> Brings(k, i)
      BY <3>2 DEF Brings
    <3>10. (ItemsOK' <=> ItemsOK) /\ (AllItems' <=> AllItems) /\ (CalledOK' <=> CalledOK) /\ (NamedFirst' <=> NamedFirst)
      BY <2>1, <3>1, <3>2, <3>9 DEF ItemsOK, AllItems, CalledOK, NamedFirst
    <3>11. ResponsesOK' <=> ResponsesOK
      BY <3>4, <3>10 DEF ResponsesOK
    <3> QED
      BY <1>0, <2>1, <3>3, <3>8, <3>11 DEF StreamOK
  <2> QED
    BY <2>2, <2>6, <2>7 DEF StreamsInv
<1> QED
  BY <1>1, <1>2, <1>3, <1>4, <1>5, <1>6, <1>7 DEF Next

\* So it always holds.
THEOREM ProviderStreamsInvariant == Spec => []StreamsInv
<1>1. StreamsInv /\ UNCHANGED vars => StreamsInv'
  BY ProviderStreamsStep
<1> QED
  BY ProviderStreamsInit, ProviderStreamsStep, PTL DEF Spec

\* CallsAsSent: a call that run_provider_turn runs is whole, with its own id,
\* its response's and all pieces in order, however many calls there are, in
\* however many pieces, cut and interleaved in any way; and the chat API gives
\* all calls of a response or none.
THEOREM CallsAreRunAsSent == Spec => []CallsAsSent
<1>1. StreamsInv => CallsAsSent
  BY DEF StreamsInv, CallsOK, CallsAsSent
<1> QED
  BY <1>1, ProviderStreamsInvariant, PTL

\* PairedToolMessages: in what request_body sends of either API, every listed
\* call is answered right after, in order, no answer is without a call, and
\* the answered calls are all that were run in earlier rounds.
THEOREM RequestsPairToolMessages == Spec => []PairedToolMessages
<1>1. StreamsInv => PairedToolMessages
  BY DEF StreamsInv, TurnOK, RequestOK, Paired, Called, Listing, Answers, PairedToolMessages
<1> QED
  BY <1>1, ProviderStreamsInvariant, PTL

\* RoundsKeptApart: in messages of the chat API each round's calls are in one
\* message, with those of another round only under the same response id, and
\* with the round's own text.
THEOREM RequestsKeepRoundsApart == Spec => []RoundsKeptApart
<1>1. StreamsInv => RoundsKeptApart
  BY DEF StreamsInv, TurnOK, Apart, Together, Listing, RoundsKeptApart
<1> QED
  BY <1>1, ProviderStreamsInvariant, PTL
=============================================================================
