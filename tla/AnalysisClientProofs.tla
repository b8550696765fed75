------------------------- MODULE AnalysisClientProofs -------------------------
(***************************************************************************)
(* What AnalysisClient.tla posts and what it takes for an answer, for any   *)
(* profiles, titles, bodies, environments and replies, and however often    *)
(* the operator edits the profile meanwhile.                                *)
(***************************************************************************)
EXTENDS AnalysisClient, SequenceTheorems, WellFoundedInduction, TLAPS

----------------------------------------------------------------------------
(* The operators.                                                           *)

\* A field that is one placeholder, of a key that the context has, is that key's
\* value, whatever the value holds.
LEMMA OnePlaceholder ==
  ASSUME NEW k \in ToSet(Keys), NEW context,
         NEW text \in {<<Placeholder(k)>>, <<Spaced(k)>>}
  PROVE  RenderTemplate(text, Keys, context) = context[k]
<1>1. PICK token \in {Placeholder(k), Spaced(k)} : text = <<token>>
  OBVIOUS
<1>2. IsPlaceholder(token) /\ token.name = k
  BY <1>1 DEF IsPlaceholder, Placeholder, Spaced
<1>3. text # <<>> /\ Len(text) = 1 /\ text[1] = token /\ Last(text) = token
  BY <1>1 DEF Last
<1> QED
  BY <1>2, <1>3 DEF RenderTemplate

LEMMA TwoMoreKeys ==
  ASSUME NEW S, NEW a \in Seq(S), NEW b \in Seq(S), Len(a) = 7, Len(b) = 2
  PROVE  b[1] \in ToSet(a \o b) /\ b[2] \in ToSet(a \o b)
<1>1. /\ a \o b \in Seq(S)
      /\ Len(a \o b) = Len(a) + Len(b)
      /\ \A i \in 1..(Len(a) + Len(b)) :
           (a \o b)[i] = IF i <= Len(a) THEN a[i] ELSE b[i - Len(a)]
  BY ConcatProperties
<1>2. Len(a \o b) = 9 /\ \A i \in 1..9 : (a \o b)[i] = IF i <= 7 THEN a[i] ELSE b[i - 7]
  BY <1>1
<1>3. (a \o b)[8] = b[1] /\ (a \o b)[9] = b[2]
  BY <1>2
<1>4. 8 \in DOMAIN (a \o b) /\ 9 \in DOMAIN (a \o b)
  BY <1>1, <1>2
<1> QED
  BY <1>3, <1>4 DEF ToSet

LEMMA KeysOfPayload ==
  "request_title" \in ToSet(Keys) /\ "instruction_prompt" \in ToSet(Keys)
<1>1. PICK S : S = {"request_id", "requester_user_id", "requester_email",
                    "raw_request_title", "mail_body", "route_case", "route_rule_key",
                    "request_title", "instruction_prompt"}
  OBVIOUS
<1>2. BaseKeys \in Seq(S) /\ Len(BaseKeys) = 7
  BY <1>1 DEF BaseKeys
<1>3. PICK own : own = <<"request_title", "instruction_prompt">>
  OBVIOUS
<1>4. /\ own \in Seq(S) /\ Len(own) = 2
      /\ own[1] = "request_title" /\ own[2] = "instruction_prompt"
  BY <1>1, <1>3
<1>5. Keys = BaseKeys \o own
  BY <1>3 DEF Keys
<1> QED
  BY <1>2, <1>4, <1>5, TwoMoreKeys

\* The title and the prompt are in the context under keys of their own, so a field
\* for one of them carries it as it is.
LEMMA PayloadCarries ==
  ASSUME NEW text
  PROVE  /\ \A f \in FieldsOf("request_title") : Fields(profile, text)[f] = request.title
         /\ \A f \in FieldsOf("instruction_prompt") : Fields(profile, text)[f] = text
<1>1. /\ Context(text)["request_title"] = request.title
      /\ Context(text)["instruction_prompt"] = text
  BY DEF Context
<1>2. ASSUME NEW k \in ToSet(Keys), NEW f \in FieldsOf(k)
      PROVE  Fields(profile, text)[f] = Context(text)[k]
  <2>1. /\ f \in DOMAIN profile.request_template
        /\ profile.request_template[f] \in {<<Placeholder(k)>>, <<Spaced(k)>>}
    BY DEF FieldsOf
  <2>2. Fields(profile, text)[f] = RenderTemplate(profile.request_template[f], Keys, Context(text))
    BY <2>1 DEF Fields
  <2> QED
    BY <2>1, <2>2, OnePlaceholder
<1> QED
  BY <1>1, <1>2, KeysOfPayload

----------------------------------------------------------------------------
(* Induction, on sets: a set that holds 0, and n + 1 with every n, holds     *)
(* every number.                                                             *)

LEMMA NatSetInduction ==
  ASSUME NEW S, 0 \in S, \A n \in Nat : n \in S => n + 1 \in S
  PROVE  Nat \subseteq S
<1> DEFINE R == {p \in Nat \X Nat : p[1] < p[2]}
           T == Nat \ S
<1>1. IsWellFoundedOn(R, Nat)
  BY NatLessThanWellFounded DEF OpToRel
<1>2. SUFFICES ASSUME T # {} PROVE FALSE
  OBVIOUS
<1>3. T \subseteq Nat
  OBVIOUS
<1> HIDE DEF R, T
<1>4. PICK x \in T : \A y \in T : ~ (<<y, x>> \in R)
  BY <1>1, <1>2, <1>3, WFMin
<1>5. x \in Nat /\ x # 0 /\ x - 1 \in Nat /\ (x - 1) + 1 = x
  BY <1>4 DEF T
<1>6. x - 1 \in T
  BY <1>4, <1>5 DEF T
<1>7. <<x - 1, x>> \in R
  BY <1>5 DEF R
<1> QED
  BY <1>4, <1>6, <1>7

\* What holds of the empty sequence, and of Append(s, x) when it holds of s, holds
\* of every sequence.
LEMMA SeqSetInduction ==
  ASSUME NEW T, NEW S, <<>> \in S,
         \A s \in Seq(T), x \in T : s \in S => Append(s, x) \in S
  PROVE  Seq(T) \subseteq S
<1> DEFINE N == {n \in Nat : \A s \in Seq(T) : Len(s) = n => s \in S}
<1>1. 0 \in N
  BY EmptySeq
<1>2. ASSUME NEW n \in Nat, n \in N
      PROVE  n + 1 \in N
  <2> SUFFICES ASSUME NEW s \in Seq(T), Len(s) = n + 1 PROVE s \in S
    BY <1>2
  <2>1. PICK t \in Seq(T), x \in T : s = Append(t, x)
    BY SequenceEmptyOrAppend
  <2>2. Len(t) = n
    BY <2>1, <1>2, AppendProperties
  <2>3. t \in S
    BY <2>2, <1>2
  <2> QED
    BY <2>1, <2>3
<1> HIDE DEF N
<1>3. Nat \subseteq N
  BY <1>1, <1>2, NatSetInduction
<1> QED
  BY <1>3 DEF N

----------------------------------------------------------------------------
(* FlattenSeq                                                                *)

\* The function that FlattenSeq evaluates.
Flattening(f, s) ==
  f = [i \in 1..Len(s) |-> IF i = 1 THEN s[i] ELSE f[i - 1] \o s[i]]

LEMMA FlatteningExists == 
  ASSUME NEW T, NEW s \in Seq(T)
  PROVE  \E f : Flattening(f, s)
<1> DEFINE F(f, n) == f = [i \in 1..n |-> IF i = 1 THEN s[i] ELSE f[i - 1] \o s[i]]
           N == {n \in Nat : \E f : F(f, n)}
<1>1. 0 \in N
  <2> DEFINE f == [i \in 1..0 |-> s]
  <2>1. F(f, 0)
    OBVIOUS
  <2> QED
    BY <2>1
<1>2. ASSUME NEW n \in Nat, n \in N
      PROVE  n + 1 \in N
  <2>1. PICK f : F(f, n)
    BY <1>2
  <2> DEFINE g == [i \in 1..(n + 1) |-> IF i \in 1..n THEN f[i]
                                       ELSE IF i = 1 THEN s[i] ELSE f[i - 1] \o s[i]]
  <2>2. ASSUME NEW i \in 1..(n + 1)
        PROVE  g[i] = IF i = 1 THEN s[i] ELSE g[i - 1] \o s[i]
    <3>1. CASE i = 1
      BY <3>1, <2>1
    <3>2. CASE i # 1
      <4>1. i - 1 \in 1..n /\ g[i - 1] = f[i - 1]
        BY <3>2
      <4>2. CASE i \in 1..n
        BY <4>1, <4>2, <3>2, <2>1
      <4>3. CASE i \notin 1..n
        BY <4>1, <4>3, <3>2
      <4> QED BY <4>2, <4>3
    <3> QED BY <3>1, <3>2
  <2>3. F(g, n + 1)
    <3> HIDE DEF g
    <3>1. g = [i \in 1..(n + 1) |-> g[i]]
      BY DEF g
    <3> QED BY <2>2, <3>1
  <2>4. \E h : F(h, n + 1)
    <3> HIDE DEF F, g
    <3> QED
      BY <2>3
  <2> HIDE DEF F
  <2> QED
    BY <2>4
<1> HIDE DEF N
<1>3. Nat \subseteq N
  BY <1>1, <1>2, NatSetInduction
<1>4. Len(s) \in N
  BY <1>3
<1> QED
  BY <1>4 DEF N, Flattening

LEMMA FlatteningUnique ==
  ASSUME NEW T, NEW s \in Seq(T), NEW x \in T, NEW f, NEW g,
         Flattening(f, s), Flattening(g, Append(s, x))
  PROVE  \A i \in 1..Len(s) : g[i] = f[i]
<1> DEFINE N == {n \in Nat : n \in 1..Len(s) => g[n] = f[n]}
<1>1. 0 \in N
  OBVIOUS
<1>2. ASSUME NEW n \in Nat, n \in N PROVE n + 1 \in N
  <2> SUFFICES ASSUME n + 1 \in 1..Len(s) PROVE g[n + 1] = f[n + 1]
    OBVIOUS
  <2>1. /\ Append(s, x)[n + 1] = s[n + 1] /\ Len(Append(s, x)) = Len(s) + 1
    BY AppendProperties
  <2>2. g[n + 1] = IF n + 1 = 1 THEN s[n + 1] ELSE g[n] \o s[n + 1]
    <3>1. \A i \in 1..(Len(s) + 1) :
            g[i] = IF i = 1 THEN Append(s, x)[i] ELSE g[i - 1] \o Append(s, x)[i]
      BY <2>1 DEF Flattening
    <3>2. n + 1 \in 1..(Len(s) + 1) /\ (n + 1) - 1 = n
      BY LenProperties
    <3> QED
      BY <2>1, <3>1, <3>2
  <2>3. f[n + 1] = IF n + 1 = 1 THEN s[n + 1] ELSE f[n] \o s[n + 1]
    <3>1. \A i \in 1..Len(s) : f[i] = IF i = 1 THEN s[i] ELSE f[i - 1] \o s[i]
      BY DEF Flattening
    <3>2. (n + 1) - 1 = n
      OBVIOUS
    <3> QED
      BY <3>1, <3>2
  <2>4. n + 1 # 1 => f[n] = g[n]
    BY <1>2
  <2> QED BY <2>2, <2>3, <2>4
<1> HIDE DEF N
<1>3. Nat \subseteq N
  BY <1>1, <1>2, NatSetInduction
<1> QED
  BY <1>3 DEF N

LEMMA FlattenUnfolds ==
  ASSUME NEW T, NEW s \in Seq(T)
  PROVE  \E f : /\ Flattening(f, s)
                /\ FlattenSeq(s) = IF s = <<>> THEN s ELSE f[Len(s)]
<1> DEFINE f == CHOOSE h : Flattening(h, s)
<1>1. Flattening(f, s)
  BY FlatteningExists
<1>2. FlattenSeq(s) = IF Len(s) = 0 THEN s ELSE f[Len(s)]
  BY DEF FlattenSeq, Flattening
<1>3. Len(s) = 0 <=> s = <<>>
  BY EmptySeq
<1> QED
  BY <1>1, <1>2, <1>3

LEMMA FlattenEmpty == FlattenSeq(<<>>) = <<>>
BY DEF FlattenSeq

LEMMA FlattenAppend ==
  ASSUME NEW U, NEW s \in Seq(Seq(U)), NEW x \in Seq(U)
  PROVE  FlattenSeq(Append(s, x)) = FlattenSeq(s) \o x
<1>1. PICK f : /\ Flattening(f, s)
               /\ FlattenSeq(s) = IF s = <<>> THEN s ELSE f[Len(s)]
  BY FlattenUnfolds
<1>2. Append(s, x) \in Seq(Seq(U)) /\ Append(s, x) # <<>> /\ Len(Append(s, x)) = Len(s) + 1
      /\ Append(s, x)[Len(s) + 1] = x
  BY AppendProperties
<1>3. PICK g : /\ Flattening(g, Append(s, x))
               /\ FlattenSeq(Append(s, x)) = g[Len(s) + 1]
  BY <1>2, FlattenUnfolds
<1>4. g[Len(s) + 1] = IF Len(s) + 1 = 1 THEN x ELSE g[Len(s)] \o x
  <2>1. \A i \in 1..(Len(s) + 1) :
          g[i] = IF i = 1 THEN Append(s, x)[i] ELSE g[i - 1] \o Append(s, x)[i]
    BY <1>2, <1>3 DEF Flattening
  <2>2. Len(s) + 1 \in 1..(Len(s) + 1) /\ (Len(s) + 1) - 1 = Len(s)
    BY LenProperties
  <2> QED
    BY <1>2, <2>1, <2>2
<1>5. CASE s = <<>>
  <2>1. FlattenSeq(s) = <<>> /\ Len(s) = 0
    BY <1>1, <1>5
  <2> QED
    BY <2>1, <1>3, <1>4, ConcatEmptySeq
<1>6. CASE s # <<>>
  <2>1. Len(s) \in 1..Len(s)
    BY <1>6, EmptySeq, LenProperties
  <2>2. g[Len(s)] = f[Len(s)]
    BY <1>1, <1>3, <2>1, FlatteningUnique
  <2> QED
    BY <1>1, <1>3, <1>4, <1>6, <2>1, <2>2
<1> QED
  BY <1>5, <1>6

LEMMA FlattenType ==
  ASSUME NEW U, NEW s \in Seq(Seq(U))
  PROVE  FlattenSeq(s) \in Seq(U)
<1> DEFINE S == {t \in Seq(Seq(U)) : FlattenSeq(t) \in Seq(U)}
<1>1. <<>> \in S
  BY FlattenEmpty, EmptySeq
<1>2. ASSUME NEW t \in Seq(Seq(U)), NEW x \in Seq(U), t \in S
      PROVE  Append(t, x) \in S
  <2>1. FlattenSeq(Append(t, x)) = FlattenSeq(t) \o x
    BY FlattenAppend
  <2>2. FlattenSeq(t) \o x \in Seq(U)
    BY <1>2, ConcatProperties
  <2>3. Append(t, x) \in Seq(Seq(U))
    BY AppendProperties
  <2> QED
    BY <2>1, <2>2, <2>3
<1> HIDE DEF S
<1>3. Seq(Seq(U)) \subseteq S
  BY <1>1, <1>2, SeqSetInduction
<1> QED
  BY <1>3 DEF S

----------------------------------------------------------------------------
(* Expanding a text: each of its elements gives way to a text of its own.    *)

Expand(text, value) == FlattenSeq([i \in DOMAIN text |-> value[text[i]]])

LEMMA ExpandEmpty == ASSUME NEW value PROVE Expand(<<>>, value) = <<>>
<1>1. [i \in DOMAIN <<>> |-> value[<<>>[i]]] = <<>>
  BY EmptySeq
<1> QED
  BY <1>1, FlattenEmpty DEF Expand

LEMMA ExpandAppend ==
  ASSUME NEW A, NEW B, NEW value \in [A -> Seq(B)], NEW s \in Seq(A), NEW x \in A
  PROVE  Expand(Append(s, x), value) = Expand(s, value) \o value[x]
<1> DEFINE each(t) == [i \in DOMAIN t |-> value[t[i]]]
<1>1. each(s) \in Seq(Seq(B)) /\ each(Append(s, x)) \in Seq(Seq(B))
  <2>1. ASSUME NEW t \in Seq(A) PROVE each(t) \in Seq(Seq(B))
    <3>1. DOMAIN t = 1..Len(t) /\ Len(t) \in Nat /\ \A i \in 1..Len(t) : t[i] \in A
      BY LenProperties, ElementOfSeq
    <3> QED
      BY <3>1
  <2>2. Append(s, x) \in Seq(A)
    BY AppendProperties
  <2> HIDE DEF each
  <2> QED
    BY <2>1, <2>2
<1>2. each(Append(s, x)) = Append(each(s), value[x])
  <2>1. /\ Append(s, x) \in Seq(A) /\ Len(Append(s, x)) = Len(s) + 1
        /\ \A i \in 1..Len(s) : Append(s, x)[i] = s[i]
        /\ Append(s, x)[Len(s) + 1] = x
    BY AppendProperties
  <2>2. /\ DOMAIN Append(s, x) = 1..(Len(s) + 1) /\ DOMAIN s = 1..Len(s)
        /\ Len(s) \in Nat
    BY <2>1, LenProperties
  <2>3. /\ Len(each(s)) = Len(s) /\ Len(each(Append(s, x))) = Len(s) + 1
    BY <1>1, <2>2
  <2>4. /\ Len(Append(each(s), value[x])) = Len(s) + 1
        /\ \A i \in 1..Len(s) : Append(each(s), value[x])[i] = each(s)[i]
        /\ Append(each(s), value[x])[Len(s) + 1] = value[x]
        /\ Append(each(s), value[x]) \in Seq(Seq(B))
    <3> HIDE DEF each
    <3> QED
      BY <1>1, <2>3, AppendProperties
  <2>5. ASSUME NEW i \in 1..(Len(s) + 1)
        PROVE  each(Append(s, x))[i] = Append(each(s), value[x])[i]
    <3>1. CASE i \in 1..Len(s)
      <4>1. Append(each(s), value[x])[i] = each(s)[i]
        BY <2>4, <3>1
      <4>2. each(s)[i] = value[s[i]]
        BY <2>2, <3>1
      <4>3. each(Append(s, x))[i] = value[Append(s, x)[i]]
        BY <2>2
      <4> QED
        BY <4>1, <4>2, <4>3, <2>1, <3>1
    <3>2. CASE i = Len(s) + 1
      <4>1. each(Append(s, x))[i] = value[Append(s, x)[i]]
        BY <2>2
      <4> QED
        BY <4>1, <2>1, <2>4, <3>2
    <3> QED
      BY <3>1, <3>2, <2>2
  <2> HIDE DEF each
  <2> QED
    BY <1>1, <2>3, <2>4, <2>5, SeqEqual
<1>3. FlattenSeq(Append(each(s), value[x])) = FlattenSeq(each(s)) \o value[x]
  <2> HIDE DEF each
  <2> QED
    BY <1>1, FlattenAppend
<1> QED
  BY <1>2, <1>3 DEF Expand

LEMMA ExpandType ==
  ASSUME NEW A, NEW B, NEW value \in [A -> Seq(B)], NEW s \in Seq(A)
  PROVE  Expand(s, value) \in Seq(B)
<1>1. DOMAIN s = 1..Len(s) /\ Len(s) \in Nat /\ \A i \in 1..Len(s) : s[i] \in A
  BY LenProperties, ElementOfSeq
<1>2. [i \in DOMAIN s |-> value[s[i]]] \in Seq(Seq(B))
  BY <1>1
<1> QED
  BY <1>2, FlattenType DEF Expand

LEMMA ExpandConcat ==
  ASSUME NEW A, NEW B, NEW value \in [A -> Seq(B)], NEW s \in Seq(A), NEW t \in Seq(A)
  PROVE  Expand(s \o t, value) = Expand(s, value) \o Expand(t, value)
<1> DEFINE S == {u \in Seq(A) : Expand(s \o u, value) = Expand(s, value) \o Expand(u, value)}
<1>1. <<>> \in S
  <2>1. s \o <<>> = s /\ <<>> \in Seq(A)
    BY ConcatEmptySeq, EmptySeq
  <2>2. Expand(s, value) \o <<>> = Expand(s, value)
    BY ExpandType, ConcatEmptySeq
  <2> QED
    BY <2>1, <2>2, ExpandEmpty
<1>2. ASSUME NEW u \in Seq(A), NEW x \in A, u \in S
      PROVE  Append(u, x) \in S
  <2>1. Append(u, x) \in Seq(A) /\ Append(u, x) = u \o <<x>> /\ <<x>> \in Seq(A)
    BY AppendProperties, AppendIsConcat
  <2>2. s \o u \in Seq(A) /\ Append(s \o u, x) = (s \o u) \o <<x>>
    BY ConcatProperties, AppendIsConcat
  <2>3. s \o Append(u, x) = Append(s \o u, x)
    BY <2>1, <2>2, ConcatAssociative
  <2>4. Expand(s \o Append(u, x), value) = Expand(s \o u, value) \o value[x]
    BY <2>2, <2>3, ExpandAppend
  <2>5. Expand(s \o u, value) = Expand(s, value) \o Expand(u, value)
    BY <1>2
  <2>6. /\ Expand(s, value) \in Seq(B) /\ Expand(u, value) \in Seq(B)
        /\ value[x] \in Seq(B)
    BY ExpandType
  <2>7. Expand(s \o Append(u, x), value)
          = Expand(s, value) \o (Expand(u, value) \o value[x])
    BY <2>4, <2>5, <2>6, ConcatAssociative
  <2>8. Expand(Append(u, x), value) = Expand(u, value) \o value[x]
    BY ExpandAppend
  <2> QED
    BY <2>1, <2>7, <2>8
<1> HIDE DEF S
<1>3. Seq(A) \subseteq S
  BY <1>1, <1>2, SeqSetInduction
<1> QED
  BY <1>3 DEF S

\* Where every element stands for itself the text stays as it is.
Fixes(value, s) == \A i \in DOMAIN s : value[s[i]] = <<s[i]>>

LEMMA ExpandSame ==
  ASSUME NEW A, NEW value \in [A -> Seq(A)], NEW s \in Seq(A), Fixes(value, s)
  PROVE  Expand(s, value) = s
<1> DEFINE S == {u \in Seq(A) : Fixes(value, u) => Expand(u, value) = u}
<1>1. <<>> \in S
  BY ExpandEmpty, EmptySeq
<1>2. ASSUME NEW u \in Seq(A), NEW x \in A, u \in S
      PROVE  Append(u, x) \in S
  <2>1. Append(u, x) \in Seq(A) /\ Append(u, x) = u \o <<x>>
    BY AppendProperties, AppendIsConcat
  <2> SUFFICES ASSUME Fixes(value, Append(u, x))
               PROVE  Expand(Append(u, x), value) = Append(u, x)
    BY <2>1
  <2>2. DOMAIN Append(u, x) = 1..(Len(u) + 1) /\ DOMAIN u = 1..Len(u) /\ Len(u) \in Nat
    BY <2>1, AppendProperties, LenProperties
  <2>3. value[x] = <<x>>
    <3>1. Len(u) + 1 \in DOMAIN Append(u, x) /\ Append(u, x)[Len(u) + 1] = x
      BY <2>2, AppendProperties
    <3> QED
      BY <3>1 DEF Fixes
  <2>4. Fixes(value, u)
    <3>1. ASSUME NEW i \in DOMAIN u PROVE value[u[i]] = <<u[i]>>
      <4>1. i \in DOMAIN Append(u, x) /\ Append(u, x)[i] = u[i]
        BY <2>2, AppendProperties
      <4> QED
        BY <4>1 DEF Fixes
    <3> QED
      BY <3>1 DEF Fixes
  <2>5. Expand(u, value) = u
    BY <1>2, <2>4
  <2> QED
    <3>1. Expand(Append(u, x), value) = Expand(u, value) \o value[x]
      BY ExpandAppend
    <3> QED
      BY <3>1, <2>1, <2>3, <2>5
<1> HIDE DEF S
<1>3. Seq(A) \subseteq S
  BY <1>1, <1>2, SeqSetInduction
<1> QED
  BY <1>3 DEF S

\* Expanding twice is expanding once, each element to what becomes of its text.
Twice(first, second) == [x \in DOMAIN first |-> Expand(first[x], second)]

LEMMA ExpandTwice ==
  ASSUME NEW A, NEW first \in [A -> Seq(A)], NEW second \in [A -> Seq(A)],
         NEW s \in Seq(A)
  PROVE  Expand(Expand(s, first), second) = Expand(s, Twice(first, second))
<1> DEFINE both == Twice(first, second)
<1>0. both \in [A -> Seq(A)] /\ \A x \in A : both[x] = Expand(first[x], second)
  BY ExpandType DEF Twice
<1> HIDE DEF both
<1> DEFINE S == {u \in Seq(A) : Expand(Expand(u, first), second) = Expand(u, both)}
<1>1. <<>> \in S
  BY ExpandEmpty, EmptySeq
<1>2. ASSUME NEW u \in Seq(A), NEW x \in A, u \in S
      PROVE  Append(u, x) \in S
  <2>1. Expand(Append(u, x), first) = Expand(u, first) \o first[x]
    BY ExpandAppend
  <2>2. Expand(u, first) \in Seq(A) /\ first[x] \in Seq(A)
    BY ExpandType
  <2>3. Expand(Expand(Append(u, x), first), second)
          = Expand(Expand(u, first), second) \o both[x]
    <3>1. Expand(Expand(u, first) \o first[x], second)
            = Expand(Expand(u, first), second) \o Expand(first[x], second)
      BY <2>2, ExpandConcat
    <3> QED
      BY <1>0, <2>1, <3>1
  <2>4. Expand(Append(u, x), both) = Expand(u, both) \o both[x]
    BY <1>0, ExpandAppend
  <2> QED
    BY <1>2, <2>3, <2>4, AppendProperties
<1> HIDE DEF S
<1>3. Seq(A) \subseteq S
  BY <1>1, <1>2, SeqSetInduction
<1> QED
  BY <1>3 DEF S, both

----------------------------------------------------------------------------
(* Rendering.                                                                *)

\* What a token becomes when the keys of K are replaced.
Filling(K, context) ==
  [x \in Token |-> IF x.kind = "placeholder" /\ x.name \in K
                   THEN Str(context[x.name]) ELSE <<x>>]

\* A text in which no token is a placeholder.
Plain(text) == \A i \in DOMAIN text : ~IsPlaceholder(text[i])

\* The keys of K have values in which there is nothing to replace.
PlainValues(K, context) ==
  \A k \in K : Str(context[k]) \in Seq(Token) /\ Plain(Str(context[k]))

LEMMA FillingType ==
  ASSUME NEW K, NEW context, PlainValues(K, context)
  PROVE  Filling(K, context) \in [Token -> Seq(Token)]
BY DEF Filling, PlainValues

LEMMA ReplaceIsExpand ==
  ASSUME NEW k, NEW context, Str(context[k]) \in Seq(Token),
         NEW text \in Seq(Token)
  PROVE  Replace(text, k, Str(context[k])) = Expand(text, Filling({k}, context))
<1>1. DOMAIN text = 1..Len(text) /\ \A i \in DOMAIN text : text[i] \in Token
  BY LenProperties, ElementOfSeq
<1>2. ASSUME NEW x \in Token
      PROVE  x = Placeholder(k) <=> x.kind = "placeholder" /\ x.name = k
  BY DEF Token, Placeholder
<1>3. ASSUME NEW i \in DOMAIN text
      PROVE  (IF text[i] = Placeholder(k) THEN Str(context[k]) ELSE <<text[i]>>)
               = Filling({k}, context)[text[i]]
  BY <1>1, <1>2 DEF Filling
<1>4. [i \in DOMAIN text |-> IF text[i] = Placeholder(k) THEN Str(context[k])
                             ELSE <<text[i]>>]
        = [i \in DOMAIN text |-> Filling({k}, context)[text[i]]]
  BY <1>3
<1> QED
  BY <1>4 DEF Replace, Expand

LEMMA FillingStep ==
  ASSUME NEW T, NEW K \in SUBSET T, NEW k \in T, NEW context,
         PlainValues(K \cup {k}, context),
         NEW text \in Seq(Token)
  PROVE  Replace(Expand(text, Filling(K, context)), k, Str(context[k]))
           = Expand(text, Filling(K \cup {k}, context))
<1> DEFINE first == Filling(K, context)
           second == Filling({k}, context)
           both == Filling(K \cup {k}, context)
<1>0. PlainValues(K, context) /\ PlainValues({k}, context)
  BY DEF PlainValues
<1>1. /\ first \in [Token -> Seq(Token)] /\ second \in [Token -> Seq(Token)]
      /\ both \in [Token -> Seq(Token)]
  BY <1>0, FillingType
<1>2. ASSUME NEW x \in Token
      PROVE  both[x] = Expand(first[x], second)
  <2>1. CASE x.kind = "placeholder" /\ x.name \in K
    <3> DEFINE v == Str(context[x.name])
    <3>1. first[x] = v /\ both[x] = v /\ v \in Seq(Token) /\ Plain(v)
      BY <2>1 DEF Filling, PlainValues
    <3>2. Fixes(second, v)
      <4>1. ASSUME NEW i \in DOMAIN v PROVE second[v[i]] = <<v[i]>>
        <5>1. v[i] \in Token /\ v[i].kind # "placeholder"
          BY <3>1, ElementOfSeq, LenProperties DEF Plain, IsPlaceholder
        <5> QED
          BY <5>1 DEF Filling
      <4> QED
        BY <4>1 DEF Fixes
    <3> HIDE DEF v, second
    <3>3. Expand(v, second) = v
      BY <1>1, <3>1, <3>2, ExpandSame
    <3> QED
      BY <3>1, <3>3
  <2>2. CASE ~(x.kind = "placeholder" /\ x.name \in K)
    <3>1. first[x] = <<x>> /\ both[x] = second[x]
      BY <2>2 DEF Filling
    <3>2. <<x>> = Append(<<>>, x) /\ <<>> \in Seq(Token)
      BY EmptySeq
    <3> HIDE DEF first, second, both
    <3>3. Expand(<<x>>, second) = Expand(<<>>, second) \o second[x]
      BY <1>1, <3>2, ExpandAppend
    <3>4. second[x] \in Seq(Token)
      BY <1>1
    <3>5. Expand(<<x>>, second) = second[x]
      BY <3>3, <3>4, ExpandEmpty, ConcatEmptySeq
    <3> QED
      BY <3>1, <3>5
  <2> QED
    BY <2>1, <2>2
<1>3. Expand(text, first) \in Seq(Token)
  BY <1>1, ExpandType
<1>4. Replace(Expand(text, first), k, Str(context[k])) = Expand(Expand(text, first), second)
  BY <1>0, <1>3, ReplaceIsExpand DEF PlainValues
<1> HIDE DEF first, second, both
<1>5. Expand(Expand(text, first), second) = Expand(text, Twice(first, second))
  BY <1>1, ExpandTwice
<1>6. Twice(first, second) = both
  BY <1>1, <1>2 DEF Twice
<1> QED
  BY <1>4, <1>5, <1>6 DEF first, both

\* Replacing the keys one after another is replacing them all at once.
LEMMA ReplaceEachFills ==
  ASSUME NEW T, NEW keys \in Seq(T), NEW context, PlainValues(ToSet(keys), context),
         NEW text \in Seq(Token)
  PROVE  ReplaceEach(text, keys, context) = Expand(text, Filling(ToSet(keys), context))
<1> DEFINE first(n) == {keys[i] : i \in 1..n}
           filled(n) == Expand(text, Filling(first(n), context))
           Made(f) == f = [n \in 0..Len(keys) |->
                             IF n = 0 THEN text
                             ELSE Replace(f[n - 1], keys[n], Str(context[keys[n]]))]
           made == CHOOSE f : Made(f)
<1>1. ToSet(keys) = first(Len(keys)) /\ Len(keys) \in Nat
  BY LenProperties DEF ToSet
<1>3. filled(0) = text
  <2>1. PlainValues(first(0), context)
    BY DEF PlainValues
  <2>2. Fixes(Filling(first(0), context), text)
    BY ElementOfSeq, LenProperties DEF Fixes, Filling
  <2> HIDE DEF first
  <2> QED
    BY <2>1, <2>2, FillingType, ExpandSame
<1>4. ASSUME NEW n \in 1..Len(keys)
      PROVE  Replace(filled(n - 1), keys[n], Str(context[keys[n]])) = filled(n)
  <2>1. first(n) = first(n - 1) \cup {keys[n]}
    BY <1>1
  <2>2. first(n - 1) \in SUBSET T /\ keys[n] \in T
    BY <1>1, ElementOfSeq
  <2>3. PlainValues(first(n), context)
    BY <1>1 DEF PlainValues
  <2> HIDE DEF first
  <2> QED
    <3>1. PlainValues(first(n - 1) \cup {keys[n]}, context)
      BY <2>1, <2>3
    <3>2. Replace(Expand(text, Filling(first(n - 1), context)), keys[n], Str(context[keys[n]]))
            = Expand(text, Filling(first(n - 1) \cup {keys[n]}, context))
      BY <2>2, <3>1, FillingStep
    <3> QED
      BY <2>1, <3>2
<1> HIDE DEF filled, first
<1>5. Made([n \in 0..Len(keys) |-> filled(n)])
  <2> DEFINE f == [n \in 0..Len(keys) |-> filled(n)]
  <2>1. ASSUME NEW n \in 0..Len(keys)
        PROVE  f[n] = IF n = 0 THEN text
                      ELSE Replace(f[n - 1], keys[n], Str(context[keys[n]]))
    <3>1. CASE n = 0
      BY <1>1, <1>3, <3>1
    <3>2. CASE n # 0
      <4>1. n \in 1..Len(keys) /\ n - 1 \in 0..Len(keys)
        BY <1>1, <3>2
      <4>2. f[n] = filled(n) /\ f[n - 1] = filled(n - 1)
        BY <4>1
      <4> QED
        BY <1>4, <3>2, <4>1, <4>2
    <3> QED
      BY <3>1, <3>2
  <2>2. f = [n \in 0..Len(keys) |-> f[n]]
    OBVIOUS
  <2> HIDE DEF f
  <2>3. Made(f)
    BY <2>1, <2>2
  <2> QED
    BY <2>3 DEF f
<1>6. Made(made)
  <2> HIDE DEF Made
  <2> QED
    BY <1>5
<1> HIDE DEF made
<1>7. ASSUME NEW n \in 0..Len(keys)
      PROVE  made[n] = IF n = 0 THEN text
                       ELSE Replace(made[n - 1], keys[n], Str(context[keys[n]]))
  BY <1>6
<1> DEFINE S == {n \in Nat : n \in 0..Len(keys) => made[n] = filled(n)}
<1>8. 0 \in S
  BY <1>1, <1>3, <1>7
<1>9. ASSUME NEW n \in Nat, n \in S PROVE n + 1 \in S
  <2> SUFFICES ASSUME n + 1 \in 0..Len(keys) PROVE made[n + 1] = filled(n + 1)
    OBVIOUS
  <2>1. n \in 0..Len(keys) /\ n + 1 \in 1..Len(keys) /\ n + 1 # 0 /\ (n + 1) - 1 = n
    BY <1>1
  <2>2. made[n + 1] = Replace(made[n], keys[n + 1], Str(context[keys[n + 1]]))
    BY <1>7, <2>1
  <2>3. made[n] = filled(n)
    BY <1>9, <2>1
  <2> QED
    BY <1>4, <2>1, <2>2, <2>3
<1> HIDE DEF S
<1>10. Nat \subseteq S
  BY <1>8, <1>9, NatSetInduction
<1>11. made[Len(keys)] = filled(Len(keys))
  BY <1>1, <1>10 DEF S
<1>12. ReplaceEach(text, keys, context) = made[Len(keys)]
  BY DEF ReplaceEach, made
<1> QED
  BY <1>1, <1>11, <1>12 DEF filled

\* Rendering a text that is not one placeholder gives what it means.
LEMMA MeaningIsExpand ==
  ASSUME NEW text \in Seq(Token), NEW context,
         Len(text) = 1 => ~IsPlaceholder(text[1])
  PROVE  Meaning(text, context) = Expand(text, Filling(DOMAIN context, context))
<1>1. DOMAIN text = 1..Len(text) /\ Len(text) \in Nat /\ \A i \in DOMAIN text : text[i] \in Token
  BY LenProperties, ElementOfSeq
<1>2. ASSUME NEW i \in DOMAIN text
      PROVE  (IF Means(text, text[i], context) THEN Str(context[text[i].name]) ELSE <<text[i]>>)
               = Filling(DOMAIN context, context)[text[i]]
  <2>1. Means(text, text[i], context)
          <=> text[i].kind = "placeholder" /\ text[i].name \in DOMAIN context
    <3>1. Len(text) = 1 => text[i] = text[1]
      BY <1>1
    <3> QED
      BY <3>1 DEF Means, IsPlaceholder
  <2> QED
    BY <1>1, <2>1 DEF Filling
<1>3. [i \in DOMAIN text |-> IF Means(text, text[i], context)
                             THEN Str(context[text[i].name]) ELSE <<text[i]>>]
        = [i \in DOMAIN text |-> Filling(DOMAIN context, context)[text[i]]]
  BY <1>2
<1> QED
  BY <1>3 DEF Meaning, Expand

LEMMA MeaningOfOne ==
  ASSUME NEW text, NEW context, Len(text) = 1, DOMAIN text = {1}, IsPlaceholder(text[1]),
         text[1].name \in DOMAIN context, Str(context[text[1].name]) \in Seq(Token)
  PROVE  Meaning(text, context) = Str(context[text[1].name])
<1> DEFINE v == Str(context[text[1].name])
<1>1. Means(text, text[1], context)
  BY DEF Means, IsPlaceholder
<1>2. [i \in DOMAIN text |-> IF Means(text, text[i], context)
                             THEN Str(context[text[i].name]) ELSE <<text[i]>>] = <<v>>
  BY <1>1
<1> HIDE DEF v
<1>3. v \in Seq(Token)
  BY DEF v
<1>4. FlattenSeq(Append(<<>>, v)) = FlattenSeq(<<>>) \o v
  BY <1>3, FlattenAppend, EmptySeq
<1>5. FlattenSeq(<<v>>) = v
  <2>1. Append(<<>>, v) = <<v>>
    OBVIOUS
  <2>2. FlattenSeq(<<>>) \o v = v
    BY <1>3, FlattenEmpty, ConcatEmptySeq
  <2> QED
    BY <1>4, <2>1, <2>2
<1> QED
  BY <1>2, <1>5 DEF Meaning, v

LEMMA BaseKeysOfContext ==
  BaseKeys \in Seq(DOMAIN BaseContext) /\ ToSet(BaseKeys) = DOMAIN BaseContext
<1>1. BaseKeys \in Seq(DOMAIN BaseContext)
  <2>1. Len(BaseKeys) = 7 /\ BaseKeys = [i \in 1..7 |-> BaseKeys[i]]
    BY DEF BaseKeys
  <2>2. \A i \in 1..7 : BaseKeys[i] \in DOMAIN BaseContext
    <3>1. /\ BaseKeys[1] = "request_id" /\ BaseKeys[2] = "requester_user_id"
          /\ BaseKeys[3] = "requester_email" /\ BaseKeys[4] = "raw_request_title"
          /\ BaseKeys[5] = "mail_body" /\ BaseKeys[6] = "route_case"
          /\ BaseKeys[7] = "route_rule_key"
      BY DEF BaseKeys
    <3>2. \A i \in 1..7 : i \in {1, 2, 3, 4, 5, 6, 7}
      OBVIOUS
    <3> QED
      BY <3>1, <3>2 DEF BaseContext
  <2>3. BaseKeys \in [1..7 -> DOMAIN BaseContext]
    BY <2>1, <2>2
  <2>4. \A S, f : f \in [1..7 -> S] => f \in Seq(S)
    BY SeqDef
  <2> QED
    BY <2>3, <2>4
<1>2. DOMAIN BaseKeys = 1..7
  BY DEF BaseKeys
<1>3. ToSet(BaseKeys) = {BaseKeys[i] : i \in 1..7}
  BY <1>2 DEF ToSet
<1>4. {BaseKeys[i] : i \in 1..7} =
        {"request_id", "requester_user_id", "requester_email",
         "raw_request_title", "mail_body", "route_case", "route_rule_key"}
  BY DEF BaseKeys
<1>5. DOMAIN BaseContext =
        {"request_id", "requester_user_id", "requester_email",
         "raw_request_title", "mail_body", "route_case", "route_rule_key"}
  BY DEF BaseContext
<1> QED
  BY <1>1, <1>3, <1>4, <1>5

LEMMA PlainOne ==
  ASSUME NEW x, ~IsPlaceholder(x) PROVE Plain(<<x>>)
<1>1. \A i \in DOMAIN <<x>> : <<x>>[i] = x
  OBVIOUS
<1> QED
  BY <1>1 DEF Plain

LEMMA PlainWord ==
  ASSUME NEW n \in Names PROVE <<Word(n)>> \in Seq(Token) /\ Plain(<<Word(n)>>)
<1>1. Word(n) \in Token /\ ~IsPlaceholder(Word(n))
  BY DEF Word, Token, IsPlaceholder
<1>2. \A x \in Token : <<x>> \in Seq(Token)
  OBVIOUS
<1> QED
  BY <1>1, <1>2, PlainOne

LEMMA PlainStr ==
  ASSUME NEW v, v \in Seq(Token) \cup {None, Number}, Plain(v)
  PROVE  Str(v) \in Seq(Token) /\ Plain(Str(v))
<1>1. <<>> \in Seq(Token) /\ Plain(<<>>)
  BY EmptySeq DEF Plain
<1>2. <<Word("17")>> \in Seq(Token) /\ Plain(<<Word("17")>>)
  <2>1. "17" \in Names
    BY ClientAssumption
  <2> QED
    BY <2>1, PlainWord
<1> QED
  BY <1>1, <1>2 DEF Str

LEMMA PlainContext ==
  ASSUME request \in Requests, NothingToReplace
  PROVE  PlainValues(DOMAIN BaseContext, BaseContext)
<1>1. \A v : (\A t \in ToSet(v) : ~IsPlaceholder(t)) => Plain(v)
  BY DEF ToSet, Plain
<1>2. /\ request.title \in Seq(Token) /\ request.body \in Seq(Token)
      /\ request.route \in Seq(Token) \cup {None}
  BY ClientAssumption DEF Requests
<1>3. Plain(request.title) /\ Plain(request.body) /\ Plain(request.route)
  BY <1>1 DEF NothingToReplace
<1>4. /\ <<Word("user")>> \in Seq(Token) /\ Plain(<<Word("user")>>)
      /\ <<Word("email")>> \in Seq(Token) /\ Plain(<<Word("email")>>)
  <2>1. "user" \in Names /\ "email" \in Names
    BY ClientAssumption
  <2> QED
    BY <2>1, PlainWord
<1>5. Plain(Number)
  BY PlainOne DEF Number, IsPlaceholder
<1>6. ASSUME NEW k \in DOMAIN BaseContext
      PROVE  BaseContext[k] \in Seq(Token) \cup {None, Number} /\ Plain(BaseContext[k])
  <2>1. BaseContext[k] \in {Number, <<Word("user")>>, <<Word("email")>>, request.title,
                             request.body, request.route}
    BY DEF BaseContext
  <2> QED
    BY <1>2, <1>3, <1>4, <1>5, <2>1
<1> QED
  BY <1>6, PlainStr DEF PlainValues

\* The prompt means what the template says.
LEMMA PromptMeans ==
  ASSUME profile.instruction_template \in Seq(Token), request \in Requests,
         NothingToReplace, NEW p \in BuildInstructionPrompt(profile)
  PROVE  p = Meaning(profile.instruction_template, BaseContext)
<1> DEFINE text == profile.instruction_template
<1>1. /\ text \in Seq(Token) /\ DOMAIN text = 1..Len(text) /\ Len(text) \in Nat
      /\ text = <<>> <=> Len(text) = 0
  BY LenProperties, EmptySeq
<1>2. PlainValues(DOMAIN BaseContext, BaseContext)
  BY PlainContext
<1> HIDE DEF text
<1>3. CASE text = <<>>
  <2>1. p = <<>>
    BY <1>3 DEF BuildInstructionPrompt, text
  <2>2. Meaning(text, BaseContext) = <<>>
    <3>1. [i \in DOMAIN text |-> IF Means(text, text[i], BaseContext)
                                 THEN Str(BaseContext[text[i].name]) ELSE <<text[i]>>] = <<>>
      BY <1>1, <1>3
    <3> QED
      BY <3>1, FlattenEmpty DEF Meaning
  <2> QED
    BY <2>1, <2>2 DEF text
<1>4. CASE text # <<>>
  <2>1. p = RenderTemplate(text, BaseKeys, BaseContext) /\ p \notin {None, Number}
    BY <1>4 DEF BuildInstructionPrompt, text
  <2>2. CASE IsPlaceholder(text[1]) /\ IsPlaceholder(Last(text))
    <3>1. /\ Len(text) = 1 /\ text[1].name \in ToSet(BaseKeys)
          /\ p = BaseContext[text[1].name] /\ p # None
      BY <1>4, <2>1, <2>2 DEF RenderTemplate
    <3>2. Str(p) = p
      BY <2>1, <3>1 DEF Str
    <3>3. DOMAIN text = {1} /\ text[1].name \in DOMAIN BaseContext
      BY <1>1, <3>1, BaseKeysOfContext
    <3>4. Str(BaseContext[text[1].name]) \in Seq(Token)
      BY <1>2, <3>3 DEF PlainValues
    <3>5. Meaning(text, BaseContext) = Str(BaseContext[text[1].name])
      BY <2>2, <3>1, <3>3, <3>4, MeaningOfOne
    <3> QED
      BY <3>1, <3>2, <3>5 DEF text
  <2>3. CASE ~(IsPlaceholder(text[1]) /\ IsPlaceholder(Last(text)))
    <3>1. p = ReplaceEach(text, BaseKeys, BaseContext)
      BY <2>1, <2>3 DEF RenderTemplate
    <3>2. p = Expand(text, Filling(DOMAIN BaseContext, BaseContext))
      BY <1>1, <1>2, <3>1, BaseKeysOfContext, ReplaceEachFills
    <3>3. Len(text) = 1 => ~IsPlaceholder(text[1])
      BY <2>3 DEF Last
    <3>4. Meaning(text, BaseContext) = Expand(text, Filling(DOMAIN BaseContext, BaseContext))
      BY <1>1, <3>3, MeaningIsExpand
    <3> QED
      BY <3>2, <3>4 DEF text
  <2> QED
    BY <2>2, <2>3
<1> QED
  BY <1>3, <1>4

----------------------------------------------------------------------------
(* The request on its way.                                                  *)

\* Until a reply is there nothing has come back; from the lookup on the profile is
\* enabled and one of its versions; the prompt is one that its template and the
\* request give; what was posted is its payload, with a target and a credential; and
\* only a reply that is a success is recorded as completed, with its answer.
ClientInv ==
  /\ pc \in {"get_api_profile", "build_instruction_prompt", "request", "reply",
             "mark_retry", "mark_completed"}
  /\ pc \in {"get_api_profile", "build_instruction_prompt", "request"} => reply = NoReply
  /\ stored \in versions
  /\ pc \in {"build_instruction_prompt", "request", "reply", "mark_completed"} =>
       profile.enabled /\ profile \in versions
  /\ pc \in {"request", "reply", "mark_completed"} => prompt \in BuildInstructionPrompt(profile)
  /\ pc \in {"reply", "mark_completed"} =>
       /\ sent = Payload(profile, prompt)
       /\ ResolveBaseUrl(profile) # {} /\ ResolveCredential(profile) # {}
       /\ reply \in Replies
  /\ pc = "mark_completed" => result = Answered(profile, reply)
  /\ CompletedIsSuccess

\* What analyze_request makes of a reply that came back.
LEMMA AnswersTaken ==
  ASSUME NEW p, NEW r \in Reply
  PROVE  /\ Answered(p, r) # {} =>
              /\ ~r.raises /\ r.code = 200 /\ r.body = "object"
              /\ p.status_field /\ p.success_values => r.status = "COMPLETED"
              /\ Answered(p, r) = IF p.answer_field /\ r.answer # "absent"
                                  THEN {r.answer} ELSE {"blank"}
         /\ Answered(p, r) = {} /\ ~r.raises /\ r.code = 200 /\ r.body = "object"
              => r.status # "COMPLETED"
         /\ Answered(p, r) \subseteq Answers
<1> DEFINE ok     == p.status_field /\ p.success_values => r.status = "COMPLETED"
           answer == IF p.answer_field /\ r.answer # "absent" THEN r.answer ELSE "blank"
<1>1. /\ r.code \in {200, 403, 500} /\ r.raises \in BOOLEAN
      /\ r.answer \in Answers \cup {"absent"}
  BY DEF Reply
<1>2. NormalizeResponse(p, r) # {} =>
        r.body = "object" /\ ok /\ NormalizeResponse(p, r) = {answer}
  BY DEF NormalizeResponse, Succeeded
<1>3. NormalizeResponse(p, r) = {} => ~(r.body = "object" /\ ok)
  BY DEF NormalizeResponse, Succeeded
<1>4. answer \in Answers
  BY <1>1 DEF Answers
<1>5. Answered(p, r) # {} => /\ ~r.raises /\ r.code = 200
                             /\ Answered(p, r) = NormalizeResponse(p, r)
  BY <1>1 DEF Answered
<1>6. ~r.raises /\ r.code = 200 => Answered(p, r) = NormalizeResponse(p, r)
  BY DEF Answered, IsGatewayBlock
<1>7. ok \/ r.status # "COMPLETED"
  OBVIOUS
<1>8. {answer} = IF p.answer_field /\ r.answer # "absent" THEN {r.answer} ELSE {"blank"}
  OBVIOUS
<1> HIDE DEF ok, answer
<1>9. Answered(p, r) # {} =>
        ~r.raises /\ r.code = 200 /\ r.body = "object" /\ ok /\ Answered(p, r) = {answer}
  BY <1>2, <1>5
<1>10. Answered(p, r) = {} /\ ~r.raises /\ r.code = 200 /\ r.body = "object"
         => r.status # "COMPLETED"
  BY <1>3, <1>6, <1>7
<1>11. Answered(p, r) \subseteq Answers
  BY <1>4, <1>9
<1> QED
  BY <1>8, <1>9, <1>10, <1>11 DEF ok

\* No reply is no answer.
LEMMA NothingCameBack ==
  ASSUME pc # "mark_completed", reply = NoReply PROVE CompletedIsSuccess
BY DEF CompletedIsSuccess, NoReply

LEMMA ClientInit == Init => ClientInv
BY NothingCameBack DEF Init, ClientInv

\* What a profile makes of a request changes with the request and the process only.
LEMMA SameRequest ==
  ASSUME UNCHANGED <<env, request, profile, prompt>>
  PROVE  /\ BuildInstructionPrompt(profile)' = BuildInstructionPrompt(profile)
         /\ Payload(profile, prompt)' = Payload(profile, prompt)
         /\ ResolveBaseUrl(profile)' = ResolveBaseUrl(profile)
         /\ ResolveCredential(profile)' = ResolveCredential(profile)
<1>1. BaseContext' = BaseContext
  BY DEF BaseContext
<1>2. /\ ResolveBaseUrl(profile)' = ResolveBaseUrl(profile)
      /\ ResolveCredential(profile)' = ResolveCredential(profile)
      /\ ResolveVerify(profile)' = ResolveVerify(profile)
  BY DEF ResolveBaseUrl, ResolveCredential, ResolveVerify
<1>3. BuildInstructionPrompt(profile)' = BuildInstructionPrompt(profile)
  BY <1>1 DEF BuildInstructionPrompt
<1>4. Context(prompt)' = Context(prompt)
  BY <1>1 DEF Context
<1>5. Fields(profile, prompt)' = Fields(profile, prompt)
  BY <1>4 DEF Fields
<1> QED
  BY <1>2, <1>3, <1>5 DEF Payload

LEMMA ClientStep ==
  ASSUME ClientInv, [Next]_vars
  PROVE  ClientInv'
<1>1. CASE GetApiProfile
  <2>1. /\ reply' = NoReply /\ stored' \in versions'
        /\ \/ pc' = "mark_retry"
           \/ pc' = "build_instruction_prompt" /\ stored.enabled /\ profile' = stored
    BY <1>1 DEF GetApiProfile, Goto, ClientInv
  <2>2. CompletedIsSuccess'
    BY <2>1 DEF CompletedIsSuccess, NoReply
  <2>3. pc' = "build_instruction_prompt" => profile'.enabled /\ profile' \in versions'
    BY <1>1, <2>1 DEF GetApiProfile, Goto, ClientInv
  <2> QED
    BY <2>1, <2>2, <2>3 DEF ClientInv
<1>2. CASE BuildPrompt
  <2>1. /\ reply' = NoReply /\ profile' = profile /\ profile.enabled /\ profile \in versions
        /\ stored' \in versions' /\ versions' = versions
        /\ pc' = "mark_retry" \/ pc' = "request"
    BY <1>2 DEF BuildPrompt, Goto, ClientInv
  <2>2. CompletedIsSuccess'
    BY <2>1 DEF CompletedIsSuccess, NoReply
  <2>3. pc' = "request" => prompt' \in BuildInstructionPrompt(profile)
    BY <1>2 DEF BuildPrompt, Goto
  <2>4. BuildInstructionPrompt(profile)' = BuildInstructionPrompt(profile)
    BY <1>2 DEF BuildPrompt, Goto, BuildInstructionPrompt, BaseContext
  <2> QED
    BY <2>1, <2>2, <2>3, <2>4 DEF ClientInv
<1>3. CASE Request
  <2>1. /\ reply = NoReply /\ profile.enabled /\ profile \in versions
        /\ prompt \in BuildInstructionPrompt(profile)
        /\ stored' \in versions' /\ versions' = versions
        /\ UNCHANGED <<env, profile, prompt, request>>
    BY <1>3 DEF Request, Goto, ClientInv
  <2>2. CASE pc' = "mark_retry"
    <3>1. reply' = NoReply
      BY <1>3, <2>1, <2>2 DEF Request, Goto
    <3>2. CompletedIsSuccess'
      BY <2>2, <3>1 DEF CompletedIsSuccess, NoReply
    <3> QED
      BY <2>1, <2>2, <3>2 DEF ClientInv
  <2>3. CASE pc' # "mark_retry"
    <3>1. /\ pc' = "reply" /\ sent' = Payload(profile, prompt) /\ reply' \in Replies
          /\ ResolveBaseUrl(profile) # {} /\ ResolveCredential(profile) # {}
      BY <1>3, <2>3 DEF Request, Goto
    <3>2. CompletedIsSuccess'
      BY <3>1 DEF CompletedIsSuccess
    <3> QED
      BY <2>1, <3>1, <3>2, SameRequest DEF ClientInv
  <2> QED
    BY <2>2, <2>3
<1>4. CASE TakeReply
  <2>1. /\ reply \in Reply
        /\ UNCHANGED <<env, stored, versions, profile, prompt, request, sent, reply>>
        /\ result' = Answered(profile, reply)
        /\ pc' = IF Answered(profile, reply) = {} THEN "mark_retry" ELSE "mark_completed"
    BY <1>4, ClientAssumption DEF TakeReply, Goto, ClientInv
  <2>2. CompletedIsSuccess'
    BY <2>1, AnswersTaken DEF CompletedIsSuccess
  <2>3. /\ stored \in versions /\ profile.enabled /\ profile \in versions
        /\ prompt \in BuildInstructionPrompt(profile) /\ sent = Payload(profile, prompt)
        /\ ResolveBaseUrl(profile) # {} /\ ResolveCredential(profile) # {}
        /\ reply \in Replies
    BY <1>4 DEF TakeReply, ClientInv
  <2>4. Answered(profile, reply)' = Answered(profile, reply)
    BY <2>1
  <2> QED
    BY <2>1, <2>2, <2>3, <2>4, SameRequest DEF ClientInv
<1>5. CASE NextRequest
  <2>1. pc' = "get_api_profile" /\ reply' = NoReply /\ stored' \in versions'
    BY <1>5 DEF NextRequest
  <2>2. CompletedIsSuccess'
    BY <2>1 DEF CompletedIsSuccess
  <2> QED
    BY <2>1, <2>2 DEF ClientInv
<1>6. CASE EditProfile \/ UNCHANGED vars
  <2>1. /\ UNCHANGED <<env, profile, request, pc, prompt, sent, reply, result>>
        /\ versions \subseteq versions' /\ stored' \in versions'
    BY <1>6 DEF EditProfile, vars, ClientInv
  <2>2. CompletedIsSuccess' = CompletedIsSuccess
    BY <2>1 DEF CompletedIsSuccess
  <2>3. Answered(profile, reply)' = Answered(profile, reply)
    BY <2>1
  <2> QED
    BY <2>1, <2>2, <2>3, SameRequest DEF ClientInv
<1> QED
  BY <1>1, <1>2, <1>3, <1>4, <1>5, <1>6 DEF Next

LEMMA ClientInvHolds == Spec => []ClientInv
BY ClientInit, ClientStep, PTL DEF Spec

----------------------------------------------------------------------------
(* The theorems.                                                            *)

\* The type of every variable.
THEOREM ClientTypeCorrect == Spec => []TypeOK
<1>1. Init => TypeOK
  BY DEF Init, TypeOK
<1>2. TypeOK /\ ClientInv /\ [Next]_vars => TypeOK'
  <2> SUFFICES ASSUME TypeOK, ClientInv, [Next]_vars PROVE TypeOK'
    OBVIOUS
  <2>1. CASE TakeReply
    <3>1. reply \in Reply
      BY <2>1, ClientAssumption DEF TakeReply, ClientInv
    <3>2. Answered(profile, reply) \subseteq Answers
      BY <3>1, AnswersTaken
    <3> QED
      BY <2>1, <3>2 DEF TakeReply, Goto, TypeOK
  <2>2. CASE EditProfile
    BY <2>2, ClientAssumption DEF EditProfile, TypeOK
  <2>3. CASE ~TakeReply /\ ~EditProfile
    BY <2>3 DEF TypeOK, Next, GetApiProfile, BuildPrompt, Request, NextRequest,
                Goto, vars
  <2> QED
    BY <2>1, <2>2, <2>3
<1> QED
  BY <1>1, <1>2, ClientInvHolds, PTL DEF Spec

\* However often the operator edits the profile while a request is analysed, prompt,
\* target, credential and fields of what is posted, and the reading of the reply, are
\* those of one version that the profile had since the request has its turn, which was
\* enabled and for which nothing is missing.
THEOREM OneVersionFollowed == Spec => []FollowsOneVersion
<1>1. ClientInv => FollowsOneVersion
  <2> SUFFICES ASSUME ClientInv, pc \in {"reply", "mark_completed"}
               PROVE  /\ sent.url # {} /\ sent.credential # {}
                      /\ \E v \in versions :
                           /\ v.enabled
                           /\ \E text \in BuildInstructionPrompt(v) : sent = Payload(v, text)
                           /\ pc = "mark_completed" => result = Answered(v, reply)
    BY DEF FollowsOneVersion
  <2>1. /\ profile \in versions /\ profile.enabled
        /\ prompt \in BuildInstructionPrompt(profile) /\ sent = Payload(profile, prompt)
        /\ ResolveBaseUrl(profile) # {} /\ ResolveCredential(profile) # {}
        /\ pc = "mark_completed" => result = Answered(profile, reply)
    BY DEF ClientInv
  <2>2. sent.url # {} /\ sent.credential # {}
    BY <2>1 DEF Payload
  <2> QED
    BY <2>1, <2>2
<1> QED
  BY <1>1, ClientInvHolds, PTL

\* A field for the title carries it as the requester wrote it, placeholders in it and
\* the instruction of the profile notwithstanding.
THEOREM TitlePosted == Spec => []TitleAsWritten
<1>1. ClientInv => TitleAsWritten
  BY PayloadCarries DEF ClientInv, TitleAsWritten, Payload
<1> QED
  BY <1>1, ClientInvHolds, PTL

\* The prompt means what the template of the profile says: every placeholder of a
\* known key has given way to its value, and nothing else has changed, although
\* _render_template replaces the keys one after another; and a field for it carries
\* it unchanged, whatever it holds.
THEOREM PromptMeant == Spec => []PromptAsMeant
<1>1. ClientInv /\ TypeOK => PromptAsMeant
  <2> SUFFICES ASSUME ClientInv, TypeOK, pc = "reply"
               PROVE  /\ \A f \in FieldsOf("instruction_prompt") : sent.fields[f] = prompt
                      /\ NothingToReplace =>
                           prompt = Meaning(profile.instruction_template, BaseContext)
    BY DEF PromptAsMeant
  <2>1. \A f \in FieldsOf("instruction_prompt") : sent.fields[f] = prompt
    BY PayloadCarries DEF ClientInv, Payload
  <2>2. prompt \in BuildInstructionPrompt(profile)
    BY DEF ClientInv
  <2>3. request \in Requests /\ profile.instruction_template \in Seq(Token)
    BY ClientAssumption DEF TypeOK
  <2> QED
    BY <2>1, <2>2, <2>3, PromptMeans
<1> QED
  BY <1>1, ClientInvHolds, ClientTypeCorrect, PTL

\* COMPLETED is recorded for a reply that the profile counts as a success, with the
\* answer of that reply or a blank where there is none, and every reply that says
\* COMPLETED is recorded so: no page of the gateway, no error and no unexpected status
\* passes for a success, whatever comes back.
THEOREM CompletedSucceeded == Spec => []CompletedIsSuccess
<1>1. ClientInv => CompletedIsSuccess
  BY DEF ClientInv
<1> QED
  BY <1>1, ClientInvHolds, PTL
==============================================================================
