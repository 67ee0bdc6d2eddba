------------------------- MODULE Siteclient_proofs -------------------------
(***************************************************************************)
(* Proofs about Siteclient, for every prompt length, chunk size, buffer    *)
(* size, answer length and number of commands.                             *)
(*                                                                         *)
(* The argument: at most one command is outstanding, and once it has been  *)
(* executed, what the client has buffered followed by what is on the way   *)
(* is a prefix of one exchange: the constructor's zeros (first command     *)
(* only), the answer, the prompt.  A prompt's first byte occurs once in an *)
(* exchange, so a chunk that holds a whole prompt fixes where the answer   *)
(* ends, and holds the end of the exchange.                                *)
(***************************************************************************)
EXTENDS Siteclient, SequenceTheorems, FiniteSetTheorems,
        WellFoundedInduction, TLAPS

\* The zeros that precede the answer to command k in the buffer.
Fill(k) == IF k = 0 THEN InitFill ELSE 0

\* Byte i of the exchange of command k, answered by a.
ExchangeLen(k, a) == Fill(k) + Len(a) + PromptLen
ExchangeAt(k, a, i) ==
  IF i <= Fill(k) THEN Nul
  ELSE IF i <= Fill(k) + Len(a) THEN a[i - Fill(k)]
  ELSE PromptByte(i - Fill(k) - Len(a))

\* buffer and toHost hold a prefix of that exchange.
InExchange(k, a) ==
  /\ Len(buffer) >= Fill(k)
  /\ Len(buffer) + Len(toHost) <= ExchangeLen(k, a)
  /\ \A i \in 1..Len(buffer) : buffer[i] = ExchangeAt(k, a, i)
  /\ \A i \in 1..Len(toHost) : toHost[i] = ExchangeAt(k, a, Len(buffer) + i)

\* buffer holds the zeros alone.
OnlyFill(k) ==
  /\ Len(buffer) = Fill(k)
  /\ \A i \in 1..Len(buffer) : buffer[i] = Nul

Before ==
  pc \in {"new", "ctor"} =>
    /\ replies = <<>> /\ answers = <<>> /\ toUut = <<>> /\ toHost = <<>>
    /\ OnlyFill(0)

Between ==
  pc = "idle" =>
    /\ Len(replies) > 0 /\ Len(answers) = Len(replies)
    /\ buffer = <<>> /\ toHost = <<>> /\ toUut = <<>>

\* The command is on its way, or was lost with the UUT.
Waiting ==
  /\ Len(answers) = Len(replies)
  /\ toHost = <<>>
  /\ OnlyFill(Current)
  /\ toUut \in {<<>>, <<Current>>}

\* The UUT has executed it.
Answered ==
  /\ Len(answers) = Current + 1
  /\ toUut = <<>>
  /\ InExchange(Current, answers[Current + 1])

During ==
  pc = "recv" => /\ nrx = Len(buffer)
                 /\ Current <= MaxCmd
                 /\ Waiting \/ Answered

After == pc = "exit" => toUut = <<>>

Gone == uut = "down" => toUut = <<>>

\* Every answer given is one of those the UUT may give.
AnswersKnown == \A k \in 1..Len(answers) : answers[k] \in Answers(k - 1)

IInv ==
  /\ TypeOK
  /\ Before /\ Between /\ During /\ After /\ Gone
  /\ AnswersKnown
  /\ RepliesOwn

-----------------------------------------------------------------------------
(* The loops over the buffer.                                               *)

\* A set of numbers below a bound has a greatest element: the intervals from
\* its elements to the bound have a smallest one.
LEMMA GreatestNatural ==
  ASSUME NEW n \in Nat, NEW T, T \subseteq 0..n, T # {}
  PROVE  \E x \in T : \A y \in T : y <= x
<1> DEFINE U == {t..n : t \in T}
<1>1. \A u \in U : u \in SUBSET Nat /\ IsFiniteSet(u)
  BY FS_Interval
<1>2. U \subseteq FiniteSubsetsOf(Nat) /\ U # {}
  BY <1>1 DEF FiniteSubsetsOf
<1>3. PICK u \in U : \A w \in U : <<w, u>> \notin StrictSubsetOrdering(Nat)
  <2> HIDE DEF U
  <2> QED
    BY <1>2, FS_StrictSubsetOrderingWellFounded, WFMin
<1>4. \A w \in U : w \subseteq u => w = u
  BY <1>1, <1>3 DEF StrictSubsetOrdering
<1>5. PICK x \in T : u = x..n
  BY <1>3
<1>6. ASSUME NEW y \in T PROVE y <= x
  <2>1. SUFFICES ASSUME x < y PROVE FALSE
    OBVIOUS
  <2>2. y..n \subseteq u /\ x \in u /\ x \notin y..n
    BY <1>5, <2>1
  <2>3. y..n = u
    BY <1>4, <2>2
  <2>4. QED
    BY <2>2, <2>3
<1>7. QED
  BY <1>6

\* Trimming stops at a byte that is not a newline, or at an empty string, and
\* trims newlines only.
LEMMA StrippedProps ==
  ASSUME NEW b, NEW n \in Nat
  PROVE  LET m == Stripped(b, n)
         IN /\ m \in 0..n
            /\ m = 0 \/ b[m] # Newline
            /\ \A j \in (m + 1)..n : b[j] = Newline
<1> DEFINE T == {m \in 0..n : m = 0 \/ b[m] # Newline}
<1>1. T \subseteq 0..n /\ 0 \in T
  OBVIOUS
<1>2. PICK m \in T : \A y \in T : y <= m
  BY <1>1, GreatestNatural
<1>3. \A j \in (m + 1)..n : b[j] = Newline
  BY <1>2
<1>4. QED
  BY <1>2, <1>3 DEF Stripped

\* A C string read back from n bytes without a zero has n bytes.
LEMMA CStringNoNul ==
  ASSUME NEW b, NEW n \in Nat, \A i \in 1..n : b[i] # Nul
  PROVE  CString(b, n) = SubSeq(b, 1, n)
<1> DEFINE P(m) == /\ \A i \in 1..m : b[i] # Nul
                   /\ m = n \/ b[m + 1] = Nul
<1>1. P(n)
  OBVIOUS
<1>2. \A m \in 0..n : P(m) => m = n
  OBVIOUS
<1>3. (CHOOSE m \in 0..n : P(m)) = n
  BY <1>1, <1>2
<1>4. QED
  BY <1>3 DEF CString

\* One that starts with a zero is empty.
LEMMA CStringNul ==
  ASSUME NEW b, NEW n \in Nat \ {0}, b[1] = Nul
  PROVE  CString(b, n) = SubSeq(b, 1, 0)
<1> DEFINE P(m) == /\ \A i \in 1..m : b[i] # Nul
                   /\ m = n \/ b[m + 1] = Nul
<1>1. P(0)
  OBVIOUS
<1>2. \A m \in 0..n : P(m) => m = 0
  OBVIOUS
<1>3. (CHOOSE m \in 0..n : P(m)) = 0
  BY <1>1, <1>2
<1>4. QED
  BY <1>3 DEF CString

-----------------------------------------------------------------------------
(* Bytes and exchanges.                                                     *)

\* The four kinds of bytes are bytes, and no two of them are equal.
LEMMA ByteProps ==
  /\ Nul \in Byte /\ Newline \in Byte /\ Nul # Newline
  /\ \A i \in Nat : PromptByte(i) \in Byte /\ PromptByte(i) \notin {Nul, Newline}
  /\ \A i, j \in Nat : PromptByte(i) = PromptByte(j) => i = j
BY DEF Nul, Newline, PromptByte, Byte

\* An answer is a sequence of bytes that are neither zeros nor part of a
\* prompt.
LEMMA AnswerProps ==
  ASSUME NEW k \in Nat, NEW a \in Answers(k)
  PROVE  /\ a \in Seq(Byte)
         /\ \A i \in 1..Len(a) : /\ a[i] # Nul
                                 /\ \A j \in Nat : a[i] # PromptByte(j)
<1>1. PICK n \in 0..MaxText : a \in [1..n -> {TextByte(k), Newline}]
  BY DEF Answers
<1>2. n \in Nat
  BY SizesAssumption
<1>3. {TextByte(k), Newline} \subseteq Byte
  BY DEF TextByte, Newline, Byte
<1>4. a \in [1..n -> Byte]
  BY <1>1, <1>3
<1>5. a \in Seq(Byte) /\ Len(a) = n
  BY <1>2, <1>4
<1>6. \A i \in 1..n : a[i] = TextByte(k) \/ a[i] = Newline
  BY <1>1
<1>7. QED
  BY <1>5, <1>6 DEF TextByte, Newline, Nul, PromptByte

\* A prompt has PromptLen bytes, all of kind prompt.
LEMMA PromptProps ==
  /\ Prompt \in Seq(Byte)
  /\ Len(Prompt) = PromptLen
  /\ \A i \in 1..PromptLen : Prompt[i] = PromptByte(i)
<1>1. Prompt \in [1..PromptLen -> Byte]
  BY ByteProps, SizesAssumption DEF Prompt
<1>2. QED
  BY <1>1, SizesAssumption DEF Prompt

\* The first byte of a prompt occurs once in an exchange, behind the answer.
LEMMA ExchangeProps ==
  ASSUME NEW k \in Nat, NEW a \in Answers(k)
  PROVE  /\ Fill(k) \in Nat /\ Len(a) \in Nat /\ ExchangeLen(k, a) \in Nat
         /\ \A i \in 1..ExchangeLen(k, a) :
              /\ ExchangeAt(k, a, i) \in Byte
              /\ ExchangeAt(k, a, i) = PromptByte(1) => i = Fill(k) + Len(a) + 1
<1>1. Fill(k) \in Nat
  BY SizesAssumption DEF Fill
<1>2. a \in Seq(Byte) /\ Len(a) \in Nat /\ \A i \in 1..Len(a) : a[i] \in Byte
  BY AnswerProps
<1>3. ExchangeLen(k, a) \in Nat
  BY <1>1, <1>2, SizesAssumption DEF ExchangeLen
<1>4. ASSUME NEW i \in 1..ExchangeLen(k, a)
      PROVE  /\ ExchangeAt(k, a, i) \in Byte
             /\ ExchangeAt(k, a, i) = PromptByte(1) => i = Fill(k) + Len(a) + 1
  <2>1. CASE i <= Fill(k)
    BY <1>1, <1>2, <2>1, ByteProps DEF ExchangeAt
  <2>2. CASE i > Fill(k) /\ i <= Fill(k) + Len(a)
    <3>1. i - Fill(k) \in 1..Len(a) /\ ExchangeAt(k, a, i) = a[i - Fill(k)]
      BY <1>1, <1>2, <2>2 DEF ExchangeAt
    <3>2. QED
      BY <1>2, <3>1, AnswerProps
  <2>3. CASE i > Fill(k) + Len(a)
    <3>1. i - Fill(k) - Len(a) \in Nat /\ ExchangeAt(k, a, i) = PromptByte(i - Fill(k) - Len(a))
      BY <1>1, <1>2, <2>3, <1>3 DEF ExchangeAt
    <3>2. ExchangeAt(k, a, i) = PromptByte(1) => i - Fill(k) - Len(a) = 1
      BY <3>1, ByteProps
    <3>3. QED
      BY <1>1, <1>2, <3>1, <3>2, ByteProps
  <2>4. QED
    BY <1>1, <1>2, <1>3, <2>1, <2>2, <2>3
<1>5. QED
  BY <1>1, <1>2, <1>3, <1>4

-----------------------------------------------------------------------------
(* Chunks.                                                                  *)

\* What recv hands over, and what stays behind.
LEMMA ChunkProps ==
  ASSUME NEW s \in Seq(Byte), NEW n \in 1..Len(s)
  PROVE  LET c == SubSeq(s, 1, n)
             r == SubSeq(s, n + 1, Len(s))
         IN /\ c \in Seq(Byte) /\ Len(c) = n /\ \A i \in 1..n : c[i] = s[i]
            /\ r \in Seq(Byte) /\ Len(r) = Len(s) - n
            /\ \A i \in 1..(Len(s) - n) : r[i] = s[n + i]
<1>1. Len(s) \in Nat /\ \A i \in 1..Len(s) : s[i] \in Byte
  OBVIOUS
<1>2. \A i \in 1..n : s[i] \in Byte
  BY <1>1
<1>3. \A i \in (n + 1)..Len(s) : s[i] \in Byte
  BY <1>1
<1>4. QED
  BY <1>1, <1>2, <1>3, SubSeqProperties

\* A prompt found at offset i of a chunk has its first byte there.
LEMMA PromptAtProps ==
  ASSUME NEW c \in Seq(Byte), NEW i \in 0..(Len(c) - PromptLen), PromptAt(c, i)
  PROVE  i + 1 \in 1..Len(c) /\ c[i + 1] = PromptByte(1)
<1>1. \A j \in (i + 1)..(i + PromptLen) : c[j] \in Byte
  BY SizesAssumption
<1>2. SubSeq(c, i + 1, i + PromptLen)[1] = c[i + 1]
  <2>1. 1 \in 1..((i + PromptLen) - (i + 1) + 1) /\ (i + 1) + 1 - 1 = i + 1
    BY SizesAssumption
  <2>2. \A j \in 1..((i + PromptLen) - (i + 1) + 1) :
           SubSeq(c, i + 1, i + PromptLen)[j] = c[(i + 1) + j - 1]
    BY <1>1, SubSeqProperties, SizesAssumption
  <2>3. QED
    BY <2>1, <2>2
<1>3. Prompt[1] = PromptByte(1)
  BY PromptProps, SizesAssumption
<1>4. QED
  BY <1>2, <1>3, SizesAssumption DEF PromptAt

\* A chunk that holds a prompt is the last one of its exchange, and the bytes
\* before its prompt complete the answer in the buffer.
LEMMA LastChunk ==
  ASSUME buffer \in Seq(Byte), toHost \in Seq(Byte),
         NEW k \in Nat, NEW a \in Answers(k), InExchange(k, a),
         NEW n \in 1..Len(toHost), HasPrompt(SubSeq(toHost, 1, n))
  PROVE  LET c    == SubSeq(toHost, 1, n)
             full == buffer \o SubSeq(c, 1, Position(c))
         IN /\ n = Len(toHost)
            /\ Position(c) \in Nat
            /\ Len(buffer) + Position(c) = Fill(k) + Len(a)
            /\ full \in Seq(Byte)
            /\ Len(full) = Fill(k) + Len(a)
            /\ \A i \in 1..Len(full) : full[i] = ExchangeAt(k, a, i)
<1> DEFINE c == SubSeq(toHost, 1, n)
           head == SubSeq(c, 1, Position(c))
           full == buffer \o head
<1>1. /\ Fill(k) \in Nat /\ Len(a) \in Nat /\ ExchangeLen(k, a) = Fill(k) + Len(a) + PromptLen
      /\ Len(buffer) \in Nat /\ Len(toHost) \in Nat /\ PromptLen \in Nat \ {0}
  BY ExchangeProps, SizesAssumption DEF ExchangeLen
<1>2. c \in Seq(Byte) /\ Len(c) = n /\ \A i \in 1..n : c[i] = toHost[i]
  BY ChunkProps
<1> HIDE DEF c
<1>3. \A i \in 1..n : /\ Len(buffer) + i \in 1..ExchangeLen(k, a)
                      /\ c[i] = ExchangeAt(k, a, Len(buffer) + i)
  <2>1. SUFFICES ASSUME NEW i \in 1..n
                 PROVE  /\ Len(buffer) + i \in 1..ExchangeLen(k, a)
                        /\ c[i] = ExchangeAt(k, a, Len(buffer) + i)
    OBVIOUS
  <2>2. i \in 1..Len(toHost)
    BY <1>1
  <2>3. c[i] = ExchangeAt(k, a, Len(buffer) + i)
    BY <1>2, <2>2 DEF InExchange
  <2>4. Len(buffer) + Len(toHost) <= ExchangeLen(k, a)
    BY DEF InExchange
  <2>5. QED
    BY <1>1, <2>2, <2>3, <2>4
<1>4. ASSUME NEW i \in 0..(Len(c) - PromptLen), PromptAt(c, i)
      PROVE  Len(buffer) + i = Fill(k) + Len(a)
  <2>1. i + 1 \in 1..n /\ c[i + 1] = PromptByte(1)
    BY <1>2, <1>4, PromptAtProps
  <2>2. Len(buffer) + (i + 1) = Fill(k) + Len(a) + 1
    BY <1>3, <2>1, ExchangeProps
  <2>3. i \in Int /\ Len(buffer) \in Int /\ Fill(k) \in Int /\ Len(a) \in Int
    BY <1>1
  <2>4. \A b, f, l \in Int : b + (i + 1) = f + l + 1 => b + i = f + l
    BY <2>3
  <2>5. QED
    BY <2>2, <2>3, <2>4
<1>5. /\ Position(c) \in 0..(Len(c) - PromptLen)
      /\ PromptAt(c, Position(c))
  <2>1. PICK i \in 0..(Len(c) - PromptLen) : PromptAt(c, i)
    BY DEF HasPrompt, c
  <2>2. \A j \in 0..(i - 1) : ~PromptAt(c, j)
    <3>1. SUFFICES ASSUME NEW j \in 0..(i - 1), PromptAt(c, j) PROVE FALSE
      OBVIOUS
    <3>2. j \in 0..(Len(c) - PromptLen) /\ j < i
      BY <1>1, <1>2
    <3>3. Len(buffer) + i = Len(buffer) + j
      BY <1>4, <2>1, <3>1, <3>2
    <3>4. QED
      BY <1>1, <3>2, <3>3
  <2>3. QED
    BY <2>1, <2>2 DEF Position
<1>6. Len(buffer) + Position(c) = Fill(k) + Len(a) /\ Position(c) \in Nat
  BY <1>4, <1>5
<1>7. Position(c) + PromptLen <= n
  BY <1>1, <1>2, <1>5
<1>8. n = Len(toHost)
  BY <1>1, <1>6, <1>7 DEF InExchange
<1>9. /\ head \in Seq(Byte) /\ Len(head) = Position(c)
      /\ \A i \in 1..Position(c) : head[i] = c[i]
  <2>1. \A i \in 1..Position(c) : c[i] \in Byte
    BY <1>1, <1>2, <1>6, <1>7
  <2>2. QED
    BY <1>6, <2>1, SubSeqProperties
<1> HIDE DEF head
<1>10. /\ full \in Seq(Byte) /\ Len(full) = Len(buffer) + Position(c)
       /\ \A i \in 1..(Len(buffer) + Position(c)) :
             full[i] = IF i <= Len(buffer) THEN buffer[i] ELSE head[i - Len(buffer)]
  <2>1. /\ buffer \o head \in Seq(Byte) /\ Len(buffer \o head) = Len(buffer) + Len(head)
        /\ \A i \in 1..(Len(buffer) + Len(head)) :
             (buffer \o head)[i] = IF i <= Len(buffer) THEN buffer[i] ELSE head[i - Len(buffer)]
    BY <1>9, ConcatProperties
  <2>2. QED
    BY <1>9, <2>1
<1> HIDE DEF full
<1>11. ASSUME NEW i \in 1..(Len(buffer) + Position(c))
       PROVE  full[i] = ExchangeAt(k, a, i)
  <2>1. CASE i <= Len(buffer)
    BY <1>10, <2>1 DEF InExchange
  <2>2. CASE i > Len(buffer)
    <3>1. i - Len(buffer) \in 1..Position(c) /\ i - Len(buffer) \in 1..n
      BY <1>1, <1>6, <1>7, <2>2
    <3>2. full[i] = c[i - Len(buffer)]
      BY <1>1, <1>9, <1>10, <2>2, <3>1
    <3>3. Len(buffer) + (i - Len(buffer)) = i
      BY <1>1
    <3>4. QED
      BY <1>3, <3>1, <3>2, <3>3
  <2>3. QED
    BY <1>1, <2>1, <2>2
<1>12. QED
  BY <1>6, <1>8, <1>10, <1>11 DEF c, full, head

-----------------------------------------------------------------------------
(* Replies.                                                                 *)

\* From the zeros and the answer receive_message makes the reply RepliesOwn
\* speaks of.
LEMMA ReplyProps ==
  ASSUME NEW k \in Nat, NEW a \in Answers(k), NEW full \in Seq(Byte),
         Len(full) = Fill(k) + Len(a),
         \A i \in 1..Len(full) : full[i] = ExchangeAt(k, a, i)
  PROVE  LET rc   == Stripped(full, Clamp(Len(full), RxLimit(k)))
             text == CString(full, rc)
         IN /\ rc \in 0..RxLimit(k)
            /\ text \in Seq(Byte)
            /\ k = 0 => rc = CtorRx /\ text = <<>>
            /\ k # 0 => rc = Len(text) /\ Chan!IsReply(a, text)
<1> DEFINE n    == Clamp(Len(full), RxLimit(k))
           rc   == Stripped(full, n)
           text == CString(full, rc)
<1>1. /\ Fill(k) \in Nat /\ Len(a) \in Nat /\ RxLimit(k) \in Nat \ {0}
      /\ Len(full) \in Nat
  BY ExchangeProps, SizesAssumption DEF RxLimit
<1>2. n \in 0..RxLimit(k) /\ n <= Len(full) /\ (n < RxLimit(k) => n = Len(full))
  BY <1>1 DEF Clamp
<1> HIDE DEF n
<1>3. /\ rc \in 0..n
      /\ rc = 0 \/ full[rc] # Newline
      /\ \A j \in (rc + 1)..n : full[j] = Newline
  BY <1>2, StrippedProps
<1> HIDE DEF rc
<1>4. /\ \A m \in 0..rc : /\ SubSeq(full, 1, m) \in Seq(Byte)
                          /\ Len(SubSeq(full, 1, m)) = m
                          /\ \A i \in 1..m : SubSeq(full, 1, m)[i] = full[i]
  <2>1. SUFFICES ASSUME NEW m \in 0..rc
                 PROVE  /\ SubSeq(full, 1, m) \in Seq(Byte)
                        /\ Len(SubSeq(full, 1, m)) = m
                        /\ \A i \in 1..m : SubSeq(full, 1, m)[i] = full[i]
    OBVIOUS
  <2>2. \A i \in 1..m : full[i] \in Byte
    BY <1>1, <1>2, <1>3
  <2>3. m \in Int /\ m >= 0
    BY <1>2, <1>3
  <2>4. QED
    BY <2>2, <2>3, SubSeqProperties
<1>5. ASSUME k = 0
      PROVE  rc = CtorRx /\ text = <<>> /\ text \in Seq(Byte)
  <2>1. n = CtorRx /\ Fill(k) = InitFill
    BY <1>1, <1>5, BufferFillAssumption, SizesAssumption DEF n, Clamp, RxLimit, Fill
  <2>2. \A i \in 1..n : full[i] = Nul
    BY <1>1, <1>2, <2>1, BufferFillAssumption DEF ExchangeAt
  <2>3. rc = n
    <3>1. SUFFICES ASSUME rc < n PROVE FALSE
      BY <1>2, <1>3
    <3>2. rc + 1 \in 1..n /\ rc + 1 \in (rc + 1)..n
      BY <1>2, <1>3, <3>1
    <3>3. QED
      BY <1>3, <2>2, <3>2, ByteProps
  <2>4. text = SubSeq(full, 1, 0)
    <3>1. rc \in Nat \ {0} /\ full[1] = Nul
      BY <2>1, <2>2, <2>3, SizesAssumption
    <3>2. QED
      BY <3>1, CStringNul
  <2>5. text = <<>>
    BY <2>4, SubSeqEmpty
  <2>6. QED
    BY <2>1, <2>3, <2>5
<1>6. ASSUME k # 0
      PROVE  text \in Seq(Byte) /\ rc = Len(text) /\ Chan!IsReply(a, text)
  <2>1. Fill(k) = 0
    BY <1>6 DEF Fill
  <2>2. Len(full) = Len(a) /\ \A i \in 1..Len(a) : full[i] = a[i]
    BY <1>1, <2>1 DEF ExchangeAt
  <2>3. text = SubSeq(full, 1, rc)
    <3>1. \A i \in 1..rc : full[i] # Nul
      BY <1>1, <1>2, <1>3, <2>2, AnswerProps
    <3>2. rc \in Nat
      BY <1>2, <1>3
    <3>3. QED
      BY <3>1, <3>2, CStringNoNul
  <2>4. rc \in 0..rc
    BY <1>2, <1>3
  <2>5. text \in Seq(Byte) /\ Len(text) = rc /\ \A i \in 1..rc : text[i] = full[i]
    BY <1>4, <2>3, <2>4
  <2>6. RxLimit(k) = MaxRx
    BY <1>6 DEF RxLimit
  <2> HIDE DEF text
  <2>7. \A i \in 1..rc : text[i] = a[i]
    BY <1>1, <1>2, <1>3, <2>2, <2>5
  <2>8. Len(text) > 0 => text[Len(text)] # Newline
    BY <1>2, <1>3, <2>5
  <2>9. \A i \in 1..Len(a) : i > Len(text) /\ i <= MaxRx => a[i] = Newline
    <3>1. SUFFICES ASSUME NEW i \in 1..Len(a), i > rc, i <= MaxRx
                   PROVE  a[i] = Newline
      BY <2>5
    <3>2. i <= n
      BY <1>1, <1>2, <2>2, <2>6, <3>1
    <3>3. i \in (rc + 1)..n
      BY <1>1, <1>2, <1>3, <3>1, <3>2
    <3>4. QED
      BY <1>3, <2>2, <3>3
  <2>10. Len(text) <= Len(a) /\ Len(text) <= MaxRx
    BY <1>1, <1>2, <1>3, <2>2, <2>5, <2>6
  <2>11. Chan!IsReply(a, text)
    BY <2>5, <2>7, <2>8, <2>9, <2>10 DEF Chan!IsReply
  <2>12. QED
    BY <2>5, <2>11
<1>7. rc \in 0..RxLimit(k)
  BY <1>1, <1>2, <1>3
<1>8. QED
  BY <1>5, <1>6, <1>7 DEF text, rc, n

-----------------------------------------------------------------------------
(* The inductive invariant.                                                 *)

Reply == [rc : 0..CtorRx \union 0..MaxRx, text : Seq(Byte)]

\* The inductive invariant holds before the client connects.
LEMMA InitIInv == Init => IInv
<1> SUFFICES ASSUME Init PROVE IInv
  OBVIOUS
<1>1. buffer \in [1..InitFill -> Byte] /\ \A i \in 1..InitFill : buffer[i] = Nul
  BY ByteProps DEF Init
<1>2. buffer \in Seq(Byte) /\ Len(buffer) = InitFill
  BY <1>1, SizesAssumption
<1>3. TypeOK
  BY <1>2 DEF Init, TypeOK, States
<1>4. Before
  BY <1>1, <1>2 DEF Init, Before, OnlyFill, Fill
<1>5. Between /\ During /\ After /\ Gone
  BY DEF Init, Between, During, After, Gone
<1>6. Len(replies) = 0 /\ Len(answers) = 0
  BY DEF Init
<1>7. AnswersKnown /\ RepliesOwn
  BY <1>6 DEF AnswersKnown, RepliesOwn
<1>8. QED
  BY <1>3, <1>4, <1>5, <1>7 DEF IInv

\* The exit of a client leaves the connection as it is.
LEMMA ExitIInv ==
  ASSUME IInv, pc' = "exit", toUut = <<>>,
         UNCHANGED <<buffer, nrx, replies, uut, toUut, toHost, answers>>
  PROVE  IInv'
<1>1. TypeOK'
  BY DEF IInv, TypeOK, States
<1>2. Before' /\ Between' /\ During' /\ After' /\ Gone'
  BY DEF Before, Between, During, After, Gone
<1>3. AnswersKnown' /\ RepliesOwn'
  BY DEF IInv, AnswersKnown, RepliesOwn
<1>4. QED
  BY <1>1, <1>2, <1>3 DEF IInv

\* Netclient's connect keeps the inductive invariant.
LEMMA ConnectIInv == IInv /\ Connect => IInv'
<1> SUFFICES ASSUME IInv, Connect PROVE IInv'
  OBVIOUS
<1>1. CASE pc' = "exit"
  BY <1>1, ExitIInv DEF IInv, Before, Connect
<1>2. CASE pc' = "ctor"
  <2>1. TypeOK'
    BY <1>2 DEF IInv, Connect, TypeOK, States
  <2>2. Before'
    BY <1>2 DEF IInv, Connect, Before, OnlyFill
  <2>3. Between' /\ During' /\ After' /\ Gone'
    BY <1>2 DEF IInv, Connect, Between, During, After, Gone
  <2>4. AnswersKnown' /\ RepliesOwn'
    BY DEF IInv, Connect, AnswersKnown, RepliesOwn
  <2>5. QED
    BY <2>1, <2>2, <2>3, <2>4 DEF IInv
<1>3. QED
  BY <1>1, <1>2 DEF Connect

\* _sr's send keeps it: the exchange it begins is the only one.
LEMMA SendIInv == IInv /\ Send => IInv'
<1> SUFFICES ASSUME IInv, Send PROVE IInv'
  OBVIOUS
<1>1. /\ replies \in Seq(Reply) /\ Len(replies) \in Nat /\ Current \in Nat
      /\ buffer \in Seq(Byte) /\ Len(buffer) \in Nat
  BY DEF IInv, TypeOK, Current, Reply
<1>2. toUut = <<>> /\ toHost = <<>> /\ Len(answers) = Len(replies) /\ OnlyFill(Current)
  <2>1. CASE pc = "ctor"
    BY <2>1 DEF IInv, Before, Current
  <2>2. CASE pc = "idle"
    BY <2>2, <1>1 DEF IInv, Between, OnlyFill, Fill, Current
  <2>3. QED
    BY <2>1, <2>2 DEF Send
<1>3. toUut' \in {<<>>, <<Current>>} /\ (uut = "down" => toUut' = <<>>)
  BY <1>1, <1>2 DEF Send
<1>4. toUut' \in Seq(Nat)
  <2>1. <<>> \in Seq(Nat)
    BY EmptySeq
  <2>2. ASSUME NEW x \in Nat PROVE <<x>> \in Seq(Nat)
    OBVIOUS
  <2>3. QED
    BY <1>1, <1>3, <2>1, <2>2
<1>5. nrx' = Len(buffer)
  BY DEF Send, StartCount
<1>6. pc' \in {"recv", "exit"} /\ (pc' = "exit" => toUut' = <<>>)
  BY <1>2 DEF Send, IInv, TypeOK
<1>7. TypeOK'
  BY <1>1, <1>4, <1>5, <1>6 DEF IInv, TypeOK, Send, States
<1>8. Before' /\ Between' /\ After'
  BY <1>6 DEF Before, Between, After
<1>9. Gone'
  BY <1>3 DEF Gone, Send
<1>10. During'
  <2>1. Waiting'
    BY <1>2, <1>3 DEF Waiting, Send, Current, OnlyFill
  <2>2. QED
    BY <1>5, <2>1 DEF During, Send, Current
<1>11. AnswersKnown' /\ RepliesOwn'
  BY DEF IInv, Send, AnswersKnown, RepliesOwn
<1>12. QED
  BY <1>7, <1>8, <1>9, <1>10, <1>11 DEF IInv

\* A chunk without a prompt keeps it: buffer and wire together stay the exchange.
LEMMA RecvMoreIInv ==
  ASSUME IInv, NEW n \in ChunkSizes, RecvMore(n)
  PROVE  IInv'
<1> DEFINE c == SubSeq(toHost, 1, n)
           r == SubSeq(toHost, n + 1, Len(toHost))
           k == Current
           a == answers[k + 1]
<1>1. /\ buffer \in Seq(Byte) /\ toHost \in Seq(Byte) /\ answers \in Seq(Seq(Byte))
      /\ Len(buffer) \in Nat /\ Len(toHost) \in Nat /\ Len(replies) \in Nat /\ k \in Nat
      /\ n \in 1..Len(toHost)
  BY DEF IInv, TypeOK, ChunkSizes, Current
<1>2. /\ c \in Seq(Byte) /\ Len(c) = n /\ \A i \in 1..n : c[i] = toHost[i]
      /\ r \in Seq(Byte) /\ Len(r) = Len(toHost) - n
      /\ \A i \in 1..(Len(toHost) - n) : r[i] = toHost[n + i]
  BY <1>1, ChunkProps
<1>3. pc = "recv" /\ buffer' = buffer \o c /\ toHost' = r /\ nrx' = nrx + n
      /\ UNCHANGED <<pc, replies, uut, toUut, answers>>
  BY DEF RecvMore
<1>4. Answered /\ nrx = Len(buffer)
  <2>1. toHost # <<>>
    BY <1>1
  <2>2. QED
    BY <1>3, <2>1 DEF IInv, During, Waiting
<1>5. k' = k /\ a' = a
  BY <1>3 DEF Current
<1> HIDE DEF c, r, k, a
<1>6. /\ buffer' \in Seq(Byte) /\ Len(buffer') = Len(buffer) + n
      /\ \A i \in 1..(Len(buffer) + n) :
            buffer'[i] = IF i <= Len(buffer) THEN buffer[i] ELSE c[i - Len(buffer)]
  <2>1. /\ buffer \o c \in Seq(Byte) /\ Len(buffer \o c) = Len(buffer) + Len(c)
        /\ \A i \in 1..(Len(buffer) + Len(c)) :
             (buffer \o c)[i] = IF i <= Len(buffer) THEN buffer[i] ELSE c[i - Len(buffer)]
    BY <1>1, <1>2, ConcatProperties
  <2>2. QED
    BY <1>2, <1>3, <2>1
<1>7. TypeOK'
  BY <1>1, <1>2, <1>3, <1>6 DEF IInv, TypeOK
<1>8. Before' /\ Between' /\ After'
  BY <1>3 DEF Before, Between, After
<1>9. Gone'
  BY <1>3 DEF IInv, Gone
<1>10. During'
  <2>1. InExchange(k, a)
    BY <1>4 DEF Answered, k, a
  <2>2. Fill(k) \in Nat /\ ExchangeLen(k, a) \in Nat
    <3>1. a \in Answers(k)
      BY <1>1, <1>4 DEF IInv, AnswersKnown, Answered, k, a, Current
    <3>2. QED
      BY <1>1, <3>1, ExchangeProps
  <2>3. ASSUME NEW i \in 1..(Len(buffer) + n)
        PROVE  buffer'[i] = ExchangeAt(k, a, i)
    <3>1. CASE i <= Len(buffer)
      BY <1>1, <1>6, <2>1, <3>1 DEF InExchange
    <3>2. CASE i > Len(buffer)
      <4>1. i - Len(buffer) \in 1..n /\ i - Len(buffer) \in 1..Len(toHost)
        BY <1>1, <3>2
      <4>2. buffer'[i] = toHost[i - Len(buffer)]
        BY <1>1, <1>2, <1>6, <3>2, <4>1
      <4>3. toHost[i - Len(buffer)] = ExchangeAt(k, a, Len(buffer) + (i - Len(buffer)))
        BY <2>1, <4>1 DEF InExchange
      <4>4. QED
        BY <1>1, <4>2, <4>3
    <3>3. QED
      BY <1>1, <3>1, <3>2
  <2>4. ASSUME NEW i \in 1..(Len(toHost) - n)
        PROVE  r[i] = ExchangeAt(k, a, Len(buffer) + n + i)
    <3>1. n + i \in 1..Len(toHost) /\ Len(buffer) + (n + i) = Len(buffer) + n + i
      BY <1>1
    <3>2. QED
      BY <1>2, <2>1, <3>1 DEF InExchange
  <2>5. /\ Len(buffer') >= Fill(k)
        /\ Len(buffer') + Len(toHost') <= ExchangeLen(k, a)
    BY <1>1, <1>2, <1>3, <1>6, <2>1, <2>2 DEF InExchange
  <2>6. InExchange(k, a)'
    BY <1>2, <1>3, <1>5, <1>6, <2>3, <2>4, <2>5 DEF InExchange, ExchangeAt, ExchangeLen, Fill
  <2>7. Answered'
    BY <1>3, <1>4, <2>6 DEF Answered, k, a, Current
  <2>8. nrx' = Len(buffer')
    BY <1>1, <1>3, <1>4, <1>6
  <2>9. QED
    BY <1>3, <2>7, <2>8 DEF IInv, During, Current
<1>11. AnswersKnown' /\ RepliesOwn'
  BY <1>3 DEF IInv, AnswersKnown, RepliesOwn
<1>12. QED
  BY <1>7, <1>8, <1>9, <1>10, <1>11 DEF IInv

\* The step that returns from sr() makes the reply RepliesOwn asks for and
\* leaves nothing of the exchange.
LEMMA RecvPromptIInv ==
  ASSUME IInv, NEW n \in ChunkSizes, RecvPrompt(n)
  PROVE  IInv'
<1> DEFINE c    == SubSeq(toHost, 1, n)
           k    == Current
           a    == answers[k + 1]
           full == buffer \o SubSeq(c, 1, Position(c))
           rc   == Stripped(full, Clamp(nrx + Position(c), RxLimit(k)))
           text == CString(full, rc)
           reply == [rc |-> rc, text |-> text]
<1>1. /\ buffer \in Seq(Byte) /\ toHost \in Seq(Byte) /\ answers \in Seq(Seq(Byte))
      /\ Len(buffer) \in Nat /\ Len(toHost) \in Nat /\ Len(replies) \in Nat /\ k \in Nat
      /\ k = Len(replies) /\ replies \in Seq(Reply) /\ n \in 1..Len(toHost)
  BY DEF IInv, TypeOK, ChunkSizes, Current, Reply
<1>2. /\ pc = "recv" /\ pc' = "idle" /\ HasPrompt(c)
      /\ replies' = Append(replies, reply) /\ nrx' = rc /\ buffer' = <<>>
      /\ toHost' = SubSeq(toHost, n + 1, Len(toHost))
      /\ UNCHANGED <<uut, toUut, answers>>
  BY DEF RecvPrompt, Cleared
<1>3. /\ nrx = Len(buffer) /\ Len(answers) = k + 1 /\ toUut = <<>>
      /\ InExchange(k, a) /\ a \in Answers(k)
  <2>1. toHost # <<>>
    BY <1>1
  <2>2. Answered /\ nrx = Len(buffer)
    BY <1>2, <2>1 DEF IInv, During, Waiting
  <2>3. k + 1 \in 1..Len(answers) /\ (k + 1) - 1 = k
    BY <1>1, <2>2 DEF Answered
  <2>4. a \in Answers(k)
    BY <2>3 DEF IInv, AnswersKnown
  <2>5. QED
    BY <2>2, <2>4 DEF Answered
<1> HIDE DEF k, a
<1>4. /\ n = Len(toHost) /\ Position(c) \in Nat
      /\ Len(buffer) + Position(c) = Fill(k) + Len(a)
      /\ full \in Seq(Byte) /\ Len(full) = Fill(k) + Len(a)
      /\ \A i \in 1..Len(full) : full[i] = ExchangeAt(k, a, i)
  BY <1>1, <1>2, <1>3, LastChunk
<1>5. rc = Stripped(full, Clamp(Len(full), RxLimit(k)))
  BY <1>3, <1>4
<1> HIDE DEF c, full, rc, text
<1>6. /\ rc \in 0..RxLimit(k)
      /\ text \in Seq(Byte)
      /\ k = 0 => rc = CtorRx /\ text = <<>>
      /\ k # 0 => rc = Len(text) /\ Chan!IsReply(a, text)
  <2>1. LET q == Stripped(full, Clamp(Len(full), RxLimit(k)))
            t == CString(full, q)
        IN /\ q \in 0..RxLimit(k)
           /\ t \in Seq(Byte)
           /\ k = 0 => q = CtorRx /\ t = <<>>
           /\ k # 0 => q = Len(t) /\ Chan!IsReply(a, t)
    BY <1>1, <1>3, <1>4, ReplyProps
  <2>2. QED
    BY <1>5, <2>1 DEF text
<1>7. reply \in Reply /\ rc \in Nat
  BY <1>6, SizesAssumption DEF Reply, RxLimit
<1>8. /\ replies' \in Seq(Reply) /\ Len(replies') = k + 1
      /\ \A i \in 1..k : replies'[i] = replies[i]
      /\ replies'[k + 1] = reply
  BY <1>1, <1>2, <1>7, AppendProperties
<1>9. toHost' = <<>>
  BY <1>1, <1>2, <1>4, SubSeqEmpty
<1>10. TypeOK'
  <2>1. pc' \in States /\ nrx' \in Nat /\ buffer' \in Seq(Byte) /\ toHost' \in Seq(Byte)
    BY <1>2, <1>7, <1>9, EmptySeq DEF States
  <2>2. uut' \in {"up", "down"} /\ toUut' \in Seq(Nat) /\ answers' \in Seq(Seq(Byte))
    BY <1>2 DEF IInv, TypeOK
  <2>3. QED
    BY <1>8, <2>1, <2>2 DEF TypeOK, Reply
<1>11. Before' /\ During' /\ After' /\ Gone'
  BY <1>2 DEF IInv, Before, During, After, Gone
<1>12. Between'
  BY <1>1, <1>2, <1>3, <1>8, <1>9 DEF Between
<1>13. AnswersKnown'
  BY <1>2 DEF IInv, AnswersKnown
<1>14. RepliesOwn'
  <2>1. Len(replies') <= Len(answers')
    BY <1>2, <1>3, <1>8
  <2>2. ASSUME NEW i \in 1..Len(replies')
        PROVE  IF i = 1
               THEN replies'[i] = [rc |-> CtorRx, text |-> <<>>]
               ELSE /\ replies'[i].rc = Len(replies'[i].text)
                    /\ Chan!IsReply(answers'[i], replies'[i].text)
    <3>1. CASE i \in 1..k
      <4>1. replies'[i] = replies[i] /\ answers'[i] = answers[i]
        BY <1>2, <1>8, <3>1
      <4>2. i \in 1..Len(replies)
        BY <1>1, <3>1
      <4>3. QED
        BY <4>1, <4>2 DEF IInv, RepliesOwn
    <3>2. CASE i = k + 1
      <4>1. replies'[i] = reply /\ answers'[i] = a
        BY <1>2, <1>8, <3>2 DEF a
      <4>2. i = 1 <=> k = 0
        BY <1>1, <3>2
      <4>3. QED
        BY <1>6, <4>1, <4>2
    <3>3. QED
      BY <1>1, <1>8, <3>1, <3>2
  <2>3. QED
    BY <2>1, <2>2 DEF RepliesOwn, Chan!IsReply
<1>15. QED
  BY <1>10, <1>11, <1>12, <1>13, <1>14 DEF IInv

\* recv on a closed connection keeps it.
LEMMA RecvClosedIInv == IInv /\ RecvClosed => IInv'
BY ExitIInv DEF IInv, RecvClosed, Gone

\* The end of the caller's process keeps it.
LEMMA QuitIInv == IInv /\ Quit => IInv'
BY ExitIInv DEF IInv, Quit, Between

\* The UUT's answer keeps it: the answer and its prompt are the exchange.
LEMMA ServeIInv == IInv /\ Serve => IInv'
<1> SUFFICES ASSUME IInv, Serve PROVE IInv'
  OBVIOUS
<1> DEFINE k == Current
<1>1. /\ buffer \in Seq(Byte) /\ Len(buffer) \in Nat /\ answers \in Seq(Seq(Byte))
      /\ Len(replies) \in Nat /\ k \in Nat /\ k = Len(replies)
  BY DEF IInv, TypeOK, Current
<1>2. toUut # <<>> /\ UNCHANGED <<pc, buffer, nrx, replies, uut>>
  BY DEF Serve
<1>3. pc = "recv"
  BY <1>2 DEF IInv, TypeOK, States, Before, Between, After
<1>4. nrx = Len(buffer) /\ k <= MaxCmd /\ Waiting
  BY <1>2, <1>3 DEF IInv, During, Answered
<1>5. toUut = <<k>> /\ toHost = <<>> /\ Len(answers) = k /\ OnlyFill(k)
  BY <1>1, <1>2, <1>4 DEF Waiting
<1>6. Head(toUut) = k /\ toUut' = <<>>
  BY <1>5 DEF Serve
<1>7. k' = k
  BY <1>2 DEF Current
<1> HIDE DEF k
<1>8. PICK a \in Answers(k) : answers' = Append(answers, a) /\ toHost' = toHost \o (a \o Prompt)
  BY <1>6 DEF Serve
<1>9. /\ a \in Seq(Byte) /\ Len(a) \in Nat /\ Fill(k) \in Nat /\ PromptLen \in Nat
      /\ Prompt \in Seq(Byte) /\ Len(Prompt) = PromptLen
      /\ \A i \in 1..PromptLen : Prompt[i] = PromptByte(i)
  BY <1>1, AnswerProps, PromptProps, ExchangeProps, SizesAssumption
<1>10. /\ toHost' \in Seq(Byte) /\ Len(toHost') = Len(a) + PromptLen
       /\ \A i \in 1..(Len(a) + PromptLen) :
             toHost'[i] = IF i <= Len(a) THEN a[i] ELSE Prompt[i - Len(a)]
  <2>1. /\ a \o Prompt \in Seq(Byte) /\ Len(a \o Prompt) = Len(a) + Len(Prompt)
        /\ \A i \in 1..(Len(a) + Len(Prompt)) :
             (a \o Prompt)[i] = IF i <= Len(a) THEN a[i] ELSE Prompt[i - Len(a)]
    BY <1>9, ConcatProperties
  <2>2. toHost' = a \o Prompt
    BY <1>5, <1>8, <2>1, ConcatEmptySeq
  <2>3. QED
    BY <1>9, <2>1, <2>2
<1>11. /\ answers' \in Seq(Seq(Byte)) /\ Len(answers') = k + 1 /\ answers'[k + 1] = a
       /\ \A i \in 1..k : answers'[i] = answers[i]
  BY <1>1, <1>5, <1>8, <1>9, AppendProperties
<1>12. TypeOK'
  BY <1>2, <1>6, <1>10, <1>11 DEF IInv, TypeOK
<1>13. Before' /\ Between' /\ After' /\ Gone'
  BY <1>2, <1>3, <1>6 DEF Before, Between, After, Gone
<1>14. During'
  <2>1. Len(buffer) = Fill(k) /\ \A i \in 1..Len(buffer) : buffer[i] = Nul
    BY <1>5 DEF OnlyFill
  <2>2. \A i \in 1..Len(buffer) : buffer[i] = ExchangeAt(k, a, i)
    BY <1>9, <2>1 DEF ExchangeAt
  <2>3. ASSUME NEW i \in 1..(Len(a) + PromptLen)
        PROVE  toHost'[i] = ExchangeAt(k, a, Len(buffer) + i)
    <3>1. CASE i <= Len(a)
      BY <1>9, <1>10, <2>1, <3>1 DEF ExchangeAt
    <3>2. CASE i > Len(a)
      BY <1>9, <1>10, <2>1, <3>2 DEF ExchangeAt
    <3>3. QED
      BY <1>9, <3>1, <3>2
  <2>4. Len(buffer) + Len(toHost') <= ExchangeLen(k, a) /\ Len(buffer) >= Fill(k)
    BY <1>9, <1>10, <2>1 DEF ExchangeLen
  <2>5. InExchange(k, a)'
    BY <1>2, <1>7, <1>10, <2>2, <2>3, <2>4 DEF InExchange, ExchangeAt, ExchangeLen, Fill
  <2>6. Answered'
    BY <1>2, <1>6, <1>7, <1>11, <2>5 DEF Answered, k
  <2>7. QED
    BY <1>2, <1>4, <2>6 DEF During, k, Current
<1>15. AnswersKnown'
  <2>1. ASSUME NEW i \in 1..Len(answers') PROVE answers'[i] \in Answers(i - 1)
    <3>1. CASE i \in 1..k
      BY <1>5, <1>11, <3>1 DEF IInv, AnswersKnown
    <3>2. CASE i = k + 1
      BY <1>1, <1>8, <1>11, <3>2
    <3>3. QED
      BY <1>1, <1>11, <3>1, <3>2
  <2>2. QED
    BY <2>1 DEF AnswersKnown, Answers
<1>16. RepliesOwn'
  <2>1. Len(replies') <= Len(answers')
    BY <1>1, <1>2, <1>11
  <2>2. \A i \in 1..Len(replies') : replies'[i] = replies[i] /\ answers'[i] = answers[i]
    BY <1>1, <1>2, <1>11
  <2>3. ASSUME NEW i \in 1..Len(replies')
        PROVE  IF i = 1
               THEN replies'[i] = [rc |-> CtorRx, text |-> <<>>]
               ELSE /\ replies'[i].rc = Len(replies'[i].text)
                    /\ Chan!IsReply(answers'[i], replies'[i].text)
    <3>1. i \in 1..Len(replies) /\ replies'[i] = replies[i] /\ answers'[i] = answers[i]
      BY <1>2, <2>2
    <3>2. QED
      BY <3>1 DEF IInv, RepliesOwn
  <2>4. QED
    BY <2>1, <2>3 DEF RepliesOwn, Chan!IsReply
<1>17. QED
  BY <1>12, <1>13, <1>14, <1>15, <1>16 DEF IInv

\* A UUT that goes away keeps it: a prefix of what was on the way is left.
LEMMA DownIInv == IInv /\ Down => IInv'
<1> SUFFICES ASSUME IInv, Down PROVE IInv'
  OBVIOUS
<1>1. /\ uut = "up" /\ uut' = "down" /\ toUut' = <<>>
      /\ UNCHANGED <<pc, buffer, nrx, replies, answers>>
  BY DEF Down
<1>2. PICK n \in 0..Len(toHost) : toHost' = SubSeq(toHost, 1, n)
  BY DEF Down
<1>3. toHost \in Seq(Byte) /\ Len(toHost) \in Nat
  BY DEF IInv, TypeOK
<1>4. /\ toHost' \in Seq(Byte) /\ Len(toHost') = n
      /\ \A i \in 1..n : toHost'[i] = toHost[i]
  <2>1. \A i \in 1..n : toHost[i] \in Byte
    BY <1>3
  <2>2. QED
    BY <1>2, <1>3, <2>1, SubSeqProperties
<1>5. toHost = <<>> => toHost' = <<>>
  BY <1>3, <1>4
<1>6. TypeOK'
  BY <1>1, <1>4, EmptySeq DEF IInv, TypeOK
<1>7. Before' /\ Between'
  BY <1>1, <1>5 DEF IInv, Before, Between, OnlyFill
<1>8. After' /\ Gone'
  BY <1>1 DEF After, Gone
<1>9. During'
  <2>1. ASSUME pc = "recv", Waiting PROVE Waiting'
    BY <1>1, <1>5, <2>1 DEF Waiting, OnlyFill, Current
  <2>2. ASSUME pc = "recv", Answered PROVE Answered'
    <3> DEFINE k == Current
               a == answers[k + 1]
    <3>1. k' = k /\ a' = a
      BY <1>1 DEF Current
    <3>2. InExchange(k, a)
      BY <2>2 DEF Answered
    <3> HIDE DEF k, a
    <3>3. \A i \in 1..n : i \in 1..Len(toHost)
      BY <1>3
    <3>4. \A i \in 1..n : toHost'[i] = ExchangeAt(k, a, Len(buffer) + i)
      BY <1>4, <3>2, <3>3 DEF InExchange
    <3>5. Len(buffer') + Len(toHost') <= ExchangeLen(k, a)
      <4>1. Len(buffer) \in Nat /\ k \in Nat /\ a \in Answers(k)
        <5>1. Len(buffer) \in Nat /\ k \in Nat /\ Len(answers) = k + 1
          BY <2>2 DEF IInv, TypeOK, Current, Answered, k
        <5>2. a \in Answers(k)
          BY <5>1 DEF IInv, AnswersKnown, a
        <5>3. QED
          BY <5>1, <5>2
      <4>2. ExchangeLen(k, a) \in Nat
        BY <4>1, ExchangeProps
      <4>3. QED
        BY <1>1, <1>3, <1>4, <3>2, <4>1, <4>2 DEF InExchange
    <3>6. InExchange(k, a)'
      BY <1>1, <1>4, <3>1, <3>2, <3>4, <3>5 DEF InExchange, ExchangeAt, ExchangeLen, Fill
    <3>7. QED
      BY <1>1, <2>2, <3>6 DEF Answered, k, a, Current
  <2>3. QED
    BY <1>1, <2>1, <2>2 DEF IInv, During, Current
<1>10. AnswersKnown' /\ RepliesOwn'
  BY <1>1 DEF IInv, AnswersKnown, RepliesOwn
<1>11. QED
  BY <1>6, <1>7, <1>8, <1>9, <1>10 DEF IInv

\* Every step of the client, the UUT and the network keeps the invariant.
LEMMA StepIInv == IInv /\ [Next]_vars => IInv'
<1> SUFFICES ASSUME IInv, [Next]_vars PROVE IInv'
  OBVIOUS
<1>1. CASE Connect
  BY <1>1, ConnectIInv
<1>2. CASE Send
  BY <1>2, SendIInv
<1>3. CASE Recv
  BY <1>3, RecvMoreIInv, RecvPromptIInv DEF Recv
<1>4. CASE RecvClosed
  BY <1>4, RecvClosedIInv
<1>5. CASE Quit
  BY <1>5, QuitIInv
<1>6. CASE Serve
  BY <1>6, ServeIInv
<1>7. CASE Down
  BY <1>7, DownIInv
<1>8. CASE UNCHANGED vars
  BY <1>8 DEF vars, IInv, TypeOK, Before, Between, During, After, Gone, AnswersKnown,
              RepliesOwn, Waiting, Answered, InExchange, OnlyFill, Current,
              ExchangeAt, ExchangeLen, Fill
<1>9. QED
  BY <1>1, <1>2, <1>3, <1>4, <1>5, <1>6, <1>7, <1>8 DEF Next

-----------------------------------------------------------------------------
(* The theorems.                                                            *)

\* The inductive invariant holds in every reachable state.
THEOREM Inductive == Spec => []IInv
BY InitIInv, StepIInv, PTL DEF Spec

\* Type correctness of a client and its connection, with the bound on the
\* count receive_message returns and writes its terminating zero at.
THEOREM TypeCorrect == Spec => []TypeOK
<1>1. IInv => TypeOK
  BY DEF IInv
<1>2. QED
  BY <1>1, Inductive, PTL

\* sr() returns to every command its own answer, whatever the chunks recv
\* delivers, and however long the answer.
THEOREM RepliesAreOwn == Spec => []RepliesOwn
<1>1. IInv => RepliesOwn
  BY DEF IInv
<1>2. QED
  BY <1>1, Inductive, PTL

\* Nothing of an exchange is left when sr() has returned, so that dropping the
\* bytes behind a prompt loses nothing.
THEOREM LockstepHolds == Spec => []Lockstep
<1>1. IInv => Lockstep
  BY DEF IInv, Between, Lockstep
<1>2. QED
  BY <1>1, Inductive, PTL

-----------------------------------------------------------------------------
(* The refinement of CommandChannel.                                        *)

\* Answers and replies without the first one.
LEMMA ServedProps ==
  ASSUME NEW s \in Seq(Seq(Byte))
  PROVE  LET t == SubSeq(s, 2, Len(s))
         IN /\ t \in Seq(Seq(Byte))
            /\ Len(t) = IF Len(s) = 0 THEN 0 ELSE Len(s) - 1
            /\ \A i \in 1..(Len(s) - 1) : t[i] = s[i + 1]
<1>1. Len(s) \in Nat /\ \A i \in 2..Len(s) : s[i] \in Seq(Byte)
  OBVIOUS
<1>2. /\ SubSeq(s, 2, Len(s)) \in Seq(Seq(Byte))
      /\ Len(SubSeq(s, 2, Len(s))) = IF 2 <= Len(s) THEN Len(s) - 2 + 1 ELSE 0
      /\ \A i \in 1..(Len(s) - 2 + 1) : SubSeq(s, 2, Len(s))[i] = s[2 + i - 1]
  BY <1>1, SubSeqProperties
<1>3. \A i \in 1..(Len(s) - 1) : SubSeq(s, 2, Len(s))[i] = s[i + 1]
  <2>1. SUFFICES ASSUME NEW i \in 1..(Len(s) - 1)
                 PROVE  SubSeq(s, 2, Len(s))[i] = s[i + 1]
    OBVIOUS
  <2>2. i \in 1..(Len(s) - 2 + 1) /\ 2 + i - 1 = i + 1
    BY <1>1
  <2>3. QED
    BY <1>2, <2>2
<1>4. QED
  BY <1>1, <1>2, <1>3

\* The texts returned to the caller, by number.
LEMMA ReturnedProps ==
  ASSUME NEW s \in Seq(Reply)
  PROVE  LET m == IF s = <<>> THEN 0 ELSE Len(s) - 1
             t == [k \in 1..m |-> s[k + 1].text]
         IN /\ t \in Seq(Seq(Byte))
            /\ Len(t) = IF Len(s) = 0 THEN 0 ELSE Len(s) - 1
            /\ \A i \in 1..(Len(s) - 1) : t[i] = s[i + 1].text
<1> DEFINE m == IF s = <<>> THEN 0 ELSE Len(s) - 1
           t == [k \in 1..m |-> s[k + 1].text]
<1>1. Len(s) \in Nat /\ (s = <<>> <=> Len(s) = 0)
  OBVIOUS
<1>2. m \in Nat /\ m = IF Len(s) = 0 THEN 0 ELSE Len(s) - 1
  BY <1>1
<1> HIDE DEF m
<1>3. \A i \in 1..m : i + 1 \in 1..Len(s) /\ s[i + 1].text \in Seq(Byte)
  <2>1. SUFFICES ASSUME NEW i \in 1..m
                 PROVE  i + 1 \in 1..Len(s) /\ s[i + 1].text \in Seq(Byte)
    OBVIOUS
  <2>2. i + 1 \in 1..Len(s)
    BY <1>1, <1>2
  <2>3. s[i + 1] \in Reply
    BY <2>2, ElementOfSeq
  <2>4. QED
    BY <2>2, <2>3 DEF Reply
<1>4. t \in [1..m -> Seq(Byte)]
  BY <1>3
<1>5. \A i \in 1..(Len(s) - 1) : t[i] = s[i + 1].text
  BY <1>1, <1>2
<1>6. t \in Seq(Seq(Byte)) /\ Len(t) = m
  <2> HIDE DEF t
  <2> QED
    BY <1>2, <1>4
<1>7. QED
  BY <1>2, <1>5, <1>6 DEF m

\* Appending to the one appends to the other.
LEMMA ServedAppend ==
  ASSUME NEW s \in Seq(Seq(Byte)), NEW a \in Seq(Byte)
  PROVE  SubSeq(Append(s, a), 2, Len(Append(s, a))) =
           IF Len(s) = 0 THEN SubSeq(s, 2, Len(s)) ELSE Append(SubSeq(s, 2, Len(s)), a)
<1> DEFINE u == Append(s, a)
           t == SubSeq(s, 2, Len(s))
           v == SubSeq(u, 2, Len(u))
<1>1. /\ u \in Seq(Seq(Byte)) /\ Len(u) = Len(s) + 1 /\ u[Len(s) + 1] = a
      /\ \A i \in 1..Len(s) : u[i] = s[i]
      /\ Len(s) \in Nat
  BY AppendProperties
<1> HIDE DEF u
<1>2. /\ t \in Seq(Seq(Byte)) /\ Len(t) = IF Len(s) = 0 THEN 0 ELSE Len(s) - 1
      /\ \A i \in 1..(Len(s) - 1) : t[i] = s[i + 1]
  BY ServedProps
<1>3. /\ v \in Seq(Seq(Byte)) /\ Len(v) = Len(s)
      /\ \A i \in 1..Len(s) : v[i] = u[i + 1]
  <2>1. /\ v \in Seq(Seq(Byte)) /\ Len(v) = IF Len(u) = 0 THEN 0 ELSE Len(u) - 1
        /\ \A i \in 1..(Len(u) - 1) : v[i] = u[i + 1]
    BY <1>1, ServedProps
  <2>2. Len(u) - 1 = Len(s) /\ Len(u) # 0
    BY <1>1
  <2>3. QED
    BY <2>1, <2>2
<1> HIDE DEF t, v
<1>4. CASE Len(s) = 0
  <2>1. v = t
    BY <1>1, <1>2, <1>3, <1>4, SeqEqual
  <2>2. QED
    BY <1>4, <2>1 DEF t, u, v
<1>5. CASE Len(s) # 0
  <2> DEFINE w == Append(t, a)
  <2>1. /\ w \in Seq(Seq(Byte)) /\ Len(w) = Len(t) + 1
        /\ \A i \in 1..Len(t) : w[i] = t[i]
        /\ w[Len(t) + 1] = a
    BY <1>2, AppendProperties
  <2> HIDE DEF w
  <2>2. Len(t) = Len(s) - 1 /\ Len(t) + 1 = Len(s)
    BY <1>1, <1>2, <1>5
  <2>3. ASSUME NEW i \in 1..Len(s) PROVE v[i] = w[i]
    <3>1. CASE i = Len(s)
      BY <1>1, <1>3, <2>1, <2>2, <3>1
    <3>2. CASE i # Len(s)
      <4>1. i \in 1..(Len(s) - 1) /\ i + 1 \in 1..Len(s)
        BY <1>1, <3>2
      <4>2. QED
        BY <1>1, <1>2, <1>3, <2>1, <2>2, <4>1
    <3>3. QED
      BY <3>1, <3>2
  <2>4. Len(v) = Len(w) /\ \A i \in 1..Len(v) : v[i] = w[i]
    BY <1>1, <1>3, <2>1, <2>2, <2>3
  <2>5. v = w
    BY <1>3, <2>1, <2>4, SeqEqual
  <2>6. QED
    BY <1>5, <2>5 DEF t, u, v, w
<1>6. QED
  BY <1>4, <1>5

Texts(q) == [k \in 1..(IF q = <<>> THEN 0 ELSE Len(q) - 1) |-> q[k + 1].text]

\* A reply sr() returns is the next text returned to the caller.
LEMMA ReturnedAppend ==
  ASSUME NEW s \in Seq(Reply), NEW e \in Reply
  PROVE  Texts(Append(s, e)) =
           IF Len(s) = 0 THEN Texts(s) ELSE Append(Texts(s), e.text)
<1> DEFINE u == Append(s, e)
           t == Texts(s)
           v == Texts(u)
<1>1. /\ u \in Seq(Reply) /\ Len(u) = Len(s) + 1 /\ u[Len(s) + 1] = e
      /\ \A i \in 1..Len(s) : u[i] = s[i]
      /\ Len(s) \in Nat
  BY AppendProperties
<1> HIDE DEF u
<1>2. /\ t \in Seq(Seq(Byte)) /\ Len(t) = IF Len(s) = 0 THEN 0 ELSE Len(s) - 1
      /\ \A i \in 1..(Len(s) - 1) : t[i] = s[i + 1].text
  BY ReturnedProps DEF Texts
<1>3. /\ v \in Seq(Seq(Byte)) /\ Len(v) = Len(s)
      /\ \A i \in 1..Len(s) : v[i] = u[i + 1].text
  <2>1. /\ v \in Seq(Seq(Byte)) /\ Len(v) = IF Len(u) = 0 THEN 0 ELSE Len(u) - 1
        /\ \A i \in 1..(Len(u) - 1) : v[i] = u[i + 1].text
    BY <1>1, ReturnedProps DEF Texts
  <2>2. Len(u) - 1 = Len(s) /\ Len(u) # 0
    BY <1>1
  <2>3. QED
    BY <2>1, <2>2
<1> HIDE DEF t, v
<1>4. CASE Len(s) = 0
  <2>1. Len(v) = Len(t) /\ \A i \in 1..Len(v) : v[i] = t[i]
    BY <1>2, <1>3, <1>4
  <2>2. v = t
    BY <1>2, <1>3, <2>1, SeqEqual
  <2>3. QED
    BY <1>4, <2>2 DEF t, u, v
<1>5. CASE Len(s) # 0
  <2> DEFINE w == Append(t, e.text)
  <2>1. /\ w \in Seq(Seq(Byte)) /\ Len(w) = Len(t) + 1
        /\ \A i \in 1..Len(t) : w[i] = t[i]
        /\ w[Len(t) + 1] = e.text
    BY <1>2, AppendProperties DEF Reply
  <2> HIDE DEF w
  <2>2. Len(t) = Len(s) - 1 /\ Len(t) + 1 = Len(s)
    BY <1>1, <1>2, <1>5
  <2>3. ASSUME NEW i \in 1..Len(s) PROVE v[i] = w[i]
    <3>1. CASE i = Len(s)
      BY <1>1, <1>3, <2>1, <2>2, <3>1
    <3>2. CASE i # Len(s)
      <4>1. i \in 1..(Len(s) - 1) /\ i + 1 \in 1..Len(s)
        BY <1>1, <3>2
      <4>2. QED
        BY <1>1, <1>2, <1>3, <2>1, <2>2, <4>1
    <3>3. QED
      BY <3>1, <3>2
  <2>4. Len(v) = Len(w) /\ \A i \in 1..Len(v) : v[i] = w[i]
    BY <1>1, <1>3, <2>1, <2>2, <2>3
  <2>5. v = w
    BY <1>3, <2>1, <2>4, SeqEqual
  <2>6. QED
    BY <1>5, <2>5 DEF t, u, v, w
<1>6. QED
  BY <1>4, <1>5 DEF t, u, v

\* The abstract step of each step.
LEMMA StepRefines == IInv /\ IInv' /\ [Next]_vars => [Chan!ChanNext]_Chan!chanVars
<1> SUFFICES ASSUME IInv, IInv', [Next]_vars PROVE [Chan!ChanNext]_Chan!chanVars
  OBVIOUS
<1>0. /\ replies \in Seq(Reply) /\ Len(replies) \in Nat /\ answers \in Seq(Seq(Byte))
      /\ Len(answers) \in Nat
      /\ ReturnedToCaller = Texts(replies) /\ ReturnedToCaller' = Texts(replies')
  BY DEF IInv, TypeOK, Reply, ReturnedToCaller, Texts
<1>1. ASSUME UNCHANGED <<replies, answers>>, pc # "exit", pc' # "exit"
      PROVE  UNCHANGED Chan!chanVars
  BY <1>0, <1>1 DEF Chan!chanVars, ServedToCaller
<1>2. ASSUME UNCHANGED <<replies, answers>>, pc' = "exit"
      PROVE  Chan!Close
  BY <1>0, <1>2 DEF Chan!Close, ServedToCaller
<1>3. CASE Connect
  <2>1. CASE pc' = "exit"
    BY <1>2, <1>3, <2>1 DEF Connect, Chan!ChanNext
  <2>2. CASE pc' # "exit"
    BY <1>1, <1>3, <2>2 DEF Connect
  <2>3. QED
    BY <2>1, <2>2
<1>4. CASE Send
  <2>1. CASE pc' = "exit"
    BY <1>2, <1>4, <2>1 DEF Send, Chan!ChanNext
  <2>2. CASE pc' # "exit"
    BY <1>1, <1>4, <2>2 DEF Send
  <2>3. QED
    BY <2>1, <2>2
<1>5. ASSUME NEW n \in ChunkSizes, RecvMore(n)
      PROVE  UNCHANGED Chan!chanVars
  BY <1>1, <1>5 DEF RecvMore
<1>6. ASSUME NEW n \in ChunkSizes, RecvPrompt(n)
      PROVE  [Chan!ChanNext]_Chan!chanVars
  <2>1. PICK e : replies' = Append(replies, e)
    BY <1>6 DEF RecvPrompt
  <2>2. /\ pc = "recv" /\ pc' = "idle" /\ answers' = answers
    BY <1>6 DEF RecvPrompt
  <2>3. Len(replies') = Len(replies) + 1 /\ replies'[Len(replies) + 1] = e /\ e \in Reply
    <3>1. Len(replies') = Len(replies) + 1 /\ replies'[Len(replies) + 1] = e
      BY <1>0, <2>1
    <3>2. replies' \in Seq(Reply)
      BY DEF IInv, TypeOK, Reply
    <3>3. Len(replies) + 1 \in 1..Len(replies')
      BY <1>0, <3>1
    <3>4. QED
      BY <3>1, <3>2, <3>3, ElementOfSeq
  <2>4. Texts(replies') = IF Len(replies) = 0 THEN Texts(replies)
                          ELSE Append(Texts(replies), e.text)
    BY <1>0, <2>1, <2>3, ReturnedAppend
  <2>5. CASE Len(replies) = 0
    BY <1>0, <2>2, <2>4, <2>5 DEF Chan!chanVars, ServedToCaller
  <2>6. CASE Len(replies) # 0
    <3>1. Len(answers) = Len(replies) + 1
      <4>1. Len(answers') = Len(replies')
        BY <2>2 DEF IInv, Between
      <4>2. QED
        BY <2>2, <2>3, <4>1
    <3>2. /\ ServedToCaller \in Seq(Seq(Byte)) /\ Len(ServedToCaller) = Len(replies)
          /\ ServedToCaller[Len(replies)] = answers[Len(replies) + 1]
      <4>1. Len(replies) \in 1..(Len(answers) - 1) /\ Len(answers) # 0
        BY <1>0, <2>6, <3>1
      <4>2. QED
        BY <1>0, <3>1, <4>1, ServedProps DEF ServedToCaller
    <3>3. Len(ReturnedToCaller) = Len(replies) - 1
      BY <1>0, <2>6, ReturnedProps DEF Texts
    <3>4. Chan!IsReply(answers[Len(replies) + 1], e.text)
      <4>1. /\ Len(replies) + 1 \in 1..Len(replies')
            /\ Len(replies) + 1 # 1
        BY <1>0, <2>3, <2>6
      <4>2. Chan!IsReply(answers'[Len(replies) + 1], replies'[Len(replies) + 1].text)
        BY <4>1 DEF IInv, RepliesOwn, Chan!IsReply
      <4>3. QED
        BY <2>2, <2>3, <4>2 DEF Chan!IsReply
    <3> DEFINE a == answers[Len(replies) + 1]
               text == e.text
    <3>5. a \in Seq(Byte) /\ text \in Seq(Byte) /\ Len(a) \in Nat
      <4>1. Len(replies) + 1 \in 1..Len(answers)
        BY <1>0, <3>1
      <4>2. QED
        BY <1>0, <2>3, <4>1, ElementOfSeq DEF Reply
    <3> HIDE DEF a, text
    <3>6. text = SubSeq(a, 1, Len(text)) /\ Len(text) \in 0..Len(a)
      <4>1. /\ Len(text) \in Nat /\ Len(text) <= Len(a)
            /\ \A i \in 1..Len(text) : text[i] = a[i]
        BY <3>4, <3>5 DEF Chan!IsReply, a, text
      <4>2. \A i \in 1..Len(text) : a[i] \in Byte
        BY <3>5, <4>1
      <4>3. /\ SubSeq(a, 1, Len(text)) \in Seq(Byte)
            /\ Len(SubSeq(a, 1, Len(text))) = Len(text)
            /\ \A i \in 1..Len(text) : SubSeq(a, 1, Len(text))[i] = a[i]
        BY <4>1, <4>2, SubSeqProperties
      <4>4. QED
        BY <3>5, <4>1, <4>3, SeqEqual
    <3>7. \E t \in {SubSeq(a, 1, m) : m \in 0..Len(a)} :
             Chan!IsReply(a, t) /\ ReturnedToCaller' = Append(ReturnedToCaller, t)
      <4>1. text \in {SubSeq(a, 1, m) : m \in 0..Len(a)}
        BY <3>6
      <4>2. Chan!IsReply(a, text)
        BY <3>4 DEF a, text
      <4>3. ReturnedToCaller' = Append(ReturnedToCaller, text)
        BY <1>0, <2>4, <2>6 DEF text
      <4>4. QED
        BY <4>1, <4>2, <4>3
    <3>8. ServedToCaller' = ServedToCaller
      BY <2>2 DEF ServedToCaller
    <3>9. Len(ServedToCaller) = Len(ReturnedToCaller) + 1
      BY <1>0, <3>2, <3>3
    <3>10. a = ServedToCaller[Len(ServedToCaller)]
      BY <3>2 DEF a
    <3>11. Chan!Return
      BY <2>2, <3>7, <3>8, <3>9, <3>10 DEF Chan!Return
    <3>12. QED
      BY <3>11 DEF Chan!ChanNext
  <2>7. QED
    BY <2>5, <2>6
<1>7. CASE RecvClosed
  BY <1>2, <1>7 DEF RecvClosed, Chan!ChanNext
<1>8. CASE Quit
  BY <1>2, <1>8 DEF Quit, Chan!ChanNext
<1>9. CASE Serve
  <2>1. pc = "recv" /\ pc' = "recv" /\ replies' = replies
    BY <1>9 DEF Serve, IInv, TypeOK, States, Before, Between, After
  <2>2. Waiting /\ Len(replies) <= MaxCmd
    BY <1>9, <2>1 DEF Serve, IInv, During, Answered, Current
  <2>3. Len(answers) = Len(replies) /\ Head(toUut) = Len(replies)
    BY <1>0, <1>9, <2>2 DEF Serve, Waiting, Current
  <2>4. PICK a \in Answers(Len(replies)) : answers' = Append(answers, a)
    BY <1>9, <2>3 DEF Serve
  <2>5. a \in Seq(Byte)
    BY <1>0, AnswerProps
  <2>6. ServedToCaller' = IF Len(answers) = 0 THEN ServedToCaller ELSE Append(ServedToCaller, a)
    BY <1>0, <2>4, <2>5, ServedAppend DEF ServedToCaller
  <2>7. ReturnedToCaller' = ReturnedToCaller
    BY <2>1, <1>0
  <2>8. CASE Len(answers) = 0
    BY <2>1, <2>6, <2>7, <2>8 DEF Chan!chanVars
  <2>9. CASE Len(answers) # 0
    <3>1. a \in AllAnswers
      BY <1>0, <2>2, <2>3, <2>9, SizesAssumption DEF AllAnswers
    <3>2. Len(ServedToCaller) = Len(ReturnedToCaller)
      <4>1. Len(ServedToCaller) = IF Len(answers) = 0 THEN 0 ELSE Len(answers) - 1
        BY <1>0, ServedProps DEF ServedToCaller
      <4>2. Len(ReturnedToCaller) = IF Len(replies) = 0 THEN 0 ELSE Len(replies) - 1
        BY <1>0, ReturnedProps DEF Texts
      <4>3. QED
        BY <2>3, <4>1, <4>2
    <3>3. Chan!Execute
      BY <2>1, <2>6, <2>7, <2>9, <3>1, <3>2 DEF Chan!Execute
    <3>4. QED
      BY <3>3 DEF Chan!ChanNext
  <2>10. QED
    BY <2>8, <2>9
<1>10. CASE Down
  <2>1. UNCHANGED <<pc, replies, answers>>
    BY <1>10 DEF Down
  <2>2. QED
    BY <1>0, <2>1 DEF Chan!chanVars, ServedToCaller
<1>11. CASE UNCHANGED vars
  BY <1>0, <1>11 DEF vars, Chan!chanVars, ServedToCaller
<1>12. QED
  BY <1>3, <1>4, <1>5, <1>6, <1>7, <1>8, <1>9, <1>10, <1>11 DEF Next, Recv

\* A client that has not connected is a channel nobody has used.
LEMMA InitRefines == Init => Chan!ChanInit
<1> SUFFICES ASSUME Init PROVE Chan!ChanInit
  OBVIOUS
<1>1. ServedToCaller = <<>>
  BY SubSeqEmpty DEF Init, ServedToCaller
<1>2. ReturnedToCaller = <<>>
  BY DEF Init, ReturnedToCaller
<1>3. QED
  BY <1>1, <1>2 DEF Chan!ChanInit

\* A client over its byte stream implements the command channel its callers
\* rely on.
THEOREM Refinement == Spec => ImplementsChannel
BY InitRefines, StepRefines, Inductive, PTL DEF Spec, ImplementsChannel, Chan!ChanSpec

\* What the callers of a command channel may rely on, whoever implements it:
\* at most one command waits for its answer, and the n-th reply is one for the
\* n-th answer.
ChannelPromise ==
  /\ ServedToCaller \in Seq(Seq(Byte)) /\ ReturnedToCaller \in Seq(Seq(Byte))
  /\ Len(ServedToCaller) \in {Len(ReturnedToCaller), Len(ReturnedToCaller) + 1}
  /\ \A k \in 1..Len(ReturnedToCaller) : Chan!IsReply(ServedToCaller[k], ReturnedToCaller[k])

\* The promise follows from CommandChannel alone, without a look at the client:
\* it is what the modules that call sr() build on.
THEOREM ChannelKeepsPromise == ImplementsChannel => []ChannelPromise
<1> DEFINE s == ServedToCaller
           r == ReturnedToCaller
<1>1. Chan!ChanInit => ChannelPromise
  BY DEF Chan!ChanInit, ChannelPromise
<1>2. ASSUME ChannelPromise, Chan!Execute
      PROVE  ChannelPromise'
  <2>1. PICK a \in AllAnswers : s' = Append(s, a)
    BY <1>2 DEF Chan!Execute
  <2>2. a \in Seq(Byte)
    <3>1. PICK k \in 1..MaxCmd : a \in Answers(k)
      BY DEF AllAnswers
    <3>2. k \in Nat
      BY SizesAssumption
    <3> QED BY <3>1, <3>2, AnswerProps
  <2>3. s \in Seq(Seq(Byte)) /\ r \in Seq(Seq(Byte)) /\ r' = r /\ Len(s) = Len(r)
        /\ \A k \in 1..Len(r) : Chan!IsReply(s[k], r[k])
    BY <1>2 DEF Chan!Execute, ChannelPromise
  <2> HIDE DEF s, r
  <2>4. s' \in Seq(Seq(Byte)) /\ Len(s') = Len(r) + 1 /\ \A k \in 1..Len(r) : s'[k] = s[k]
    BY <2>1, <2>2, <2>3
  <2>5. \A k \in 1..Len(r) : Chan!IsReply(s'[k], r'[k])
    BY <2>3, <2>4, Zenon
  <2> QED BY <2>3, <2>4, <2>5 DEF ChannelPromise, s, r, Chan!IsReply
<1>3. ASSUME ChannelPromise, Chan!Return
      PROVE  ChannelPromise'
  <2>1. s \in Seq(Seq(Byte)) /\ r \in Seq(Seq(Byte)) /\ s' = s /\ Len(s) = Len(r) + 1
        /\ \A k \in 1..Len(r) : Chan!IsReply(s[k], r[k])
    BY <1>3 DEF Chan!Return, ChannelPromise
  <2>2. PICK n \in 0..Len(s[Len(s)]) :
          LET t == SubSeq(s[Len(s)], 1, n)
          IN  Chan!IsReply(s[Len(s)], t) /\ r' = Append(r, t)
    BY <1>3 DEF Chan!Return
  <2> DEFINE t == SubSeq(s[Len(s)], 1, n)
  <2>3. t \in Seq(Byte)
    <3>1. Len(s) \in 1..Len(s)
      BY <2>1
    <3>2. s[Len(s)] \in Seq(Byte)
      BY <2>1, <3>1, ElementOfSeq
    <3> QED BY <3>2
  <2> HIDE DEF s, r, t
  <2>4. r' = Append(r, t) /\ Chan!IsReply(s[Len(s)], t)
    BY <2>2 DEF t
  <2>5. r' \in Seq(Seq(Byte)) /\ Len(r') = Len(r) + 1 /\ r'[Len(r) + 1] = t
        /\ \A k \in 1..Len(r) : r'[k] = r[k]
    BY <2>1, <2>3, <2>4
  <2>6. \A k \in 1..Len(r') : Chan!IsReply(s'[k], r'[k])
    <3> SUFFICES ASSUME NEW k \in 1..Len(r') PROVE Chan!IsReply(s'[k], r'[k])
      OBVIOUS
    <3>1. CASE k = Len(r) + 1
      BY <2>1, <2>4, <2>5, <3>1, Zenon
    <3>2. CASE k # Len(r) + 1
      <4>1. k \in 1..Len(r)
        BY <2>1, <2>5, <3>2
      <4> QED BY <2>1, <2>5, <4>1, Zenon
    <3> QED BY <3>1, <3>2
  <2> QED BY <2>1, <2>5, <2>6 DEF ChannelPromise, s, r, Chan!IsReply
<1>4. ASSUME ChannelPromise, Chan!Close \/ UNCHANGED Chan!chanVars
      PROVE  ChannelPromise'
  BY <1>4 DEF ChannelPromise, Chan!Close, Chan!chanVars, Chan!IsReply
<1>5. ChannelPromise /\ [Chan!ChanNext]_Chan!chanVars => ChannelPromise'
  BY <1>2, <1>3, <1>4 DEF Chan!ChanNext
<1> QED
  BY <1>1, <1>5, PTL DEF ImplementsChannel, Chan!ChanSpec

=============================================================================
