------------------------- MODULE EngineProcessProofs -------------------------
(***************************************************************************)
(* The engine process for any environments, rulesets, requests and number  *)
(* of starts.  What a handler relies on was established by an earlier step *)
(* of boot; the invariant says, stage by stage, what has been established. *)
(***************************************************************************)
EXTENDS EngineProcess, WellFoundedInduction, TLAPS

(* The solver needs a fraction of this; the limit allows for a loaded machine. *)
USE SMTT(60)

Up       == {"serving", "draining", "waiting", "closing"}      \* the goroutines exist
Ready    == {"start"} \cup Up
Loaded   == {"registry", "runners"} \cup Ready
Ensured1 == {"dq_check_results", "view", "load"} \cup Loaded
Ensured2 == {"view", "load"} \cup Loaded
Stages   == {"down", "exited", "readEnv", "placeholders", "gcs", "bigquery", "alerts", "dataset",
             "dq_executions"} \cup Ensured1

Phases   == {"none", "resolving", "attempt", "over"}
Answers  == {Null, "405", "400", "503", "panic", "500", "404", "200", "502", "cut", "lost"}
Reqs     == [phase : Phases, in : Inputs \cup {Null}, version : Versions \cup {Null}, answer : Answers]

(* What is known of a request. *)
ReqOK(r) ==
    /\ r.answer \notin {"500", "503", "cut"}
    /\ r.phase = "resolving" \/ r.answer = "200" =>
          /\ r.in \in Inputs /\ r.version \in Versions
          /\ DecodeRequest(r.in) = "ok" /\ ~WindowPanics(Typed(r.in))
          /\ ~ComputeFails(r.version, Typed(r.in).entity, Typed(r.in).source)

Served(v) == v \in Versions /\ PublishesVersion(v)

Base ==
    /\ pointer = Null \/ Served(pointer)
    /\ held = Null \/ (Served(held) /\ pointer # Null)
    /\ dataset \subseteq {"dataset", "view"} \cup Tables
    /\ boots \in 0 .. MaxBoots
    /\ stage \in Stages
    /\ exit \in {Null, 0, 1, 2, 137}
    /\ environ \in Environments \cup {Null}
    /\ loops \in [Loops -> {"off", "running", "done"}]
    /\ req \in [Requests -> Reqs]

Established ==
    /\ stage \in Loaded => held # Null
    /\ stage \in Ensured1 => "dq_executions" \in dataset
    /\ stage \in Ensured2 => "dq_check_results" \in dataset
    /\ stage \notin Up => /\ \A g \in Loops : loops[g] = "off"
                          /\ \A q \in Requests : req[q].phase \notin {"resolving", "attempt"}

(* The drain had its whole time. *)
Outlasted == drained >= DrainTicks

Answered ==
    /\ \A q \in Requests : ReqOK(req[q])
    /\ stage \in {"waiting", "closing"} => Outlasted \/ \A q \in Requests : req[q].phase # "resolving"

Flags == signalled \in BOOLEAN /\ timer \in Nat /\ drained \in Nat

EngineInv == Base /\ Established /\ Answered /\ Flags

(* Past readEnv the environment is one that readEnv takes. *)
Configured ==
    /\ stage \notin {"down", "exited"} => environ \in Environments
    /\ stage \notin {"down", "exited", "readEnv"} => EnvReadable

-----------------------------------------------------------------------------
(* The checks of a request in their order. *)

(* A set of naturals has a least element. *)
LEMMA LeastNat ==
    ASSUME NEW T, T \subseteq Nat, T # {}
    PROVE  \E x \in T : \A y \in T : x <= y
<1> DEFINE Less == {ss \in Nat \X Nat : ss[1] < ss[2]}
<1>1. OpToRel(<, Nat) = Less
  BY DEF OpToRel
<1>2. IsWellFoundedOn(Less, Nat)
  BY <1>1, NatLessThanWellFounded, Zenon
<1>3. \E x \in T : \A y \in T : ~(<<y, x>> \in Less)
  <2> HIDE DEF Less
  <2> QED  BY <1>2, WFMin, Zenon
<1>4. \A x, y \in Nat : ~(<<y, x>> \in Less) => x <= y
  OBVIOUS
<1> QED  BY <1>3, <1>4, Zenon

(* The fields of a check. *)
LEMMA RefusalIs ==
    ASSUME NEW code, NEW P
    PROVE  Refusal(code, P).code = code /\ Refusal(code, P).refused = P
  BY DEF Refusal

(* A check of membership that does not refuse. *)
LEMMA NotRefused ==
    ASSUME NEW code, NEW e, NEW S, NEW d, d = Refusal(code, e \in S), ~d.refused
    PROVE  e \notin S
  BY Zenon DEF Refusal

(* FirstRefusal gives the code of the first check that refuses. *)
LEMMA FirstRefusalIs ==
    ASSUME NEW checks, Len(checks) \in Nat, DOMAIN checks = 1 .. Len(checks)
    PROVE  \/ /\ FirstRefusal(checks) = "ok"
              /\ \A k \in 1 .. Len(checks) : ~checks[k].refused
           \/ \E i \in 1 .. Len(checks) :
                 /\ checks[i].refused /\ FirstRefusal(checks) = checks[i].code
                 /\ \A k \in 1 .. i - 1 : ~checks[k].refused
<1>1. PICK I : I = {k \in 1 .. Len(checks) : checks[k].refused}
  BY Zenon
<1>2. FirstRefusal(checks) = IF I = {} THEN "ok" ELSE checks[Min(I)].code
  BY <1>1 DEF FirstRefusal
<1>3. PICK i : i = Min(I)
  BY Zenon
<1>5. CASE I = {}
  BY <1>1, <1>2, <1>5
<1>6. CASE I # {}
  <2>1. \E x \in I : \A y \in I : x <= y
    <3>1. I \subseteq Nat
      BY <1>1
    <3> QED  BY <3>1, <1>6, LeastNat, Zenon
  <2>2. i \in I /\ \A y \in I : i <= y
    BY <2>1, <1>3 DEF Min
  <2>3. i \in 1 .. Len(checks) /\ checks[i].refused
    BY <2>2, <1>1
  <2>4. ASSUME NEW k \in 1 .. i - 1, checks[k].refused  PROVE FALSE
    <3>1. k \in I
      BY <2>3, <2>4, <1>1
    <3> QED  BY <3>1, <2>2, <2>3
  <2> QED  BY <2>3, <2>4, <1>2, <1>3, <1>6
<1> QED  BY <1>5, <1>6

(* What a body that decodes is known to carry. *)
LEMMA DecodedIs ==
    ASSUME NEW in, DecodeRequest(in) = "ok"
    PROVE  LET t == Typed(in)
           IN  /\ ~HasPipe(t.entity) /\ t.entity # <<>>
               /\ t.source \in {<<"scheduler">>, <<"manual">>}
               /\ WindowOrdered(t)
               /\ \A shape \in {t.start.shape, t.end.shape} : shape \notin {"missing", "malformed"}
<1>1. PICK t : t = Typed(in)
  BY Zenon
<1>2. validate(t) = "ok"
  BY <1>1 DEF DecodeRequest
<1>3. PICK c : c = <<
        Refusal("MISSING_FIELD", t.entity = <<>>),
        Refusal("MISSING_FIELD", "missing" \in {t.start.shape, t.end.shape}),
        Refusal("MISSING_FIELD", t.source = <<>>),
        Refusal("INVALID_UTF8", "invalid" \in Range(t.entity)),
        Refusal("INVALID_FIELD_LENGTH", Len(t.entity) > MaxStringFieldLen),
        Refusal("INVALID_FIELD_LENGTH", Len(t.source) > MaxStringFieldLen),
        Refusal("PIPE_IN_INPUT", HasPipe(t.entity)),
        Refusal("INVALID_WINDOW_FORMAT", "malformed" \in {t.start.shape, t.end.shape}),
        Refusal("INVALID_WINDOW_ORDER", ~WindowOrdered(t)),
        Refusal("INVALID_TRIGGER_SOURCE", t.source \notin {<<"scheduler">>, <<"manual">>}) >>
  BY Zenon
<1>4. FirstRefusal(c) = "ok"
  BY <1>2, <1>3 DEF validate
<1>5. /\ Len(c) = 10
      /\ c[1] = Refusal("MISSING_FIELD", t.entity = <<>>)
      /\ c[2] = Refusal("MISSING_FIELD", "missing" \in {t.start.shape, t.end.shape})
      /\ c[3] = Refusal("MISSING_FIELD", t.source = <<>>)
      /\ c[4] = Refusal("INVALID_UTF8", "invalid" \in Range(t.entity))
      /\ c[5] = Refusal("INVALID_FIELD_LENGTH", Len(t.entity) > MaxStringFieldLen)
      /\ c[6] = Refusal("INVALID_FIELD_LENGTH", Len(t.source) > MaxStringFieldLen)
      /\ c[7] = Refusal("PIPE_IN_INPUT", HasPipe(t.entity))
      /\ c[8] = Refusal("INVALID_WINDOW_FORMAT", "malformed" \in {t.start.shape, t.end.shape})
      /\ c[9] = Refusal("INVALID_WINDOW_ORDER", ~WindowOrdered(t))
      /\ c[10] = Refusal("INVALID_TRIGGER_SOURCE", t.source \notin {<<"scheduler">>, <<"manual">>})
  BY <1>3
<1>6. \A i \in 1 .. 10 : c[i].code # "ok"
  <2>1. c[1].code # "ok" /\ c[2].code # "ok" /\ c[3].code # "ok" /\ c[4].code # "ok"
    BY <1>5, RefusalIs
  <2>2. c[5].code # "ok" /\ c[6].code # "ok" /\ c[7].code # "ok"
    BY <1>5, RefusalIs
  <2>3. c[8].code # "ok" /\ c[9].code # "ok" /\ c[10].code # "ok"
    BY <1>5, RefusalIs
  <2> QED  BY <2>1, <2>2, <2>3
<1>7. \A i \in 1 .. 10 : ~c[i].refused
  <2>1. ~\E i \in 1 .. 10 : FirstRefusal(c) = c[i].code
    BY <1>4, <1>6
  <2>2. Len(c) \in Nat /\ Len(c) = 10 /\ DOMAIN c = 1 .. Len(c)
    BY <1>5
  <2> QED  BY <2>1, <2>2, FirstRefusalIs, ZenonT(60)
<1>9. t.entity # <<>>
  <2>1. c[1] = Refusal("MISSING_FIELD", t.entity = <<>>) /\ ~c[1].refused
    BY <1>5, <1>7
  <2> QED  BY <2>1, RefusalIs, ZenonT(60)
<1>10. t.source \in {<<"scheduler">>, <<"manual">>}
  <2>1. PICK S : S = {<<"scheduler">>, <<"manual">>}
    BY Zenon
  <2>2. c[10] = Refusal("INVALID_TRIGGER_SOURCE", t.source \notin S) /\ ~c[10].refused
    BY <2>1, <1>5, <1>7
  <2>3. t.source \in S
    BY <2>2, RefusalIs, ZenonT(60)
  <2> QED  BY <2>1, <2>3
<1>11. ~HasPipe(t.entity)
  <2>1. PICK d : d = c[7]
    BY Zenon
  <2>2. d = Refusal("PIPE_IN_INPUT", HasPipe(t.entity)) /\ ~d.refused
    BY <2>1, <1>5, <1>7
  <2> QED  BY <2>2, RefusalIs, ZenonT(60) DEF HasPipe
<1>12. WindowOrdered(t)
  <2>1. c[9] = Refusal("INVALID_WINDOW_ORDER", ~WindowOrdered(t)) /\ ~c[9].refused
    BY <1>5, <1>7
  <2> QED  BY <2>1, RefusalIs, ZenonT(60)
<1>13. PICK shapes : shapes = {t.start.shape, t.end.shape}
  BY Zenon
<1>14. "missing" \notin shapes
  <2>1. c[2] = Refusal("MISSING_FIELD", "missing" \in shapes) /\ ~c[2].refused
    BY <1>5, <1>7, <1>13
  <2> QED  BY <2>1, NotRefused
<1>15. "malformed" \notin shapes
  <2>1. c[8] = Refusal("INVALID_WINDOW_FORMAT", "malformed" \in shapes) /\ ~c[8].refused
    BY <1>5, <1>7, <1>13
  <2> QED  BY <2>1, NotRefused
<1> QED  BY <1>1, <1>9, <1>10, <1>11, <1>12, <1>13, <1>14, <1>15

(* The formula does not fail on what the decoder and the publisher let through. *)
LEMMA ComputeSucceeds ==
    ASSUME NEW v, PublishesVersion(v), NEW in, DecodeRequest(in) = "ok"
    PROVE  ~ComputeFails(v, Typed(in).entity, Typed(in).source)
<1>1. ~HasPipe(Typed(in).entity) /\ Typed(in).source \in {<<"scheduler">>, <<"manual">>}
  BY DecodedIs
<1>2. ~HasPipe(<<"scheduler">>) /\ ~HasPipe(<<"manual">>)
  BY DEF HasPipe, Range
<1>3. ~HasPipe(Typed(in).source)
  BY <1>1, <1>2
<1> QED  BY <1>1, <1>3 DEF ComputeFails, PublishesVersion

(* The answer HandleTrigger gives without resolving the rule. *)
LEMMA HandlerAnswers ==
    ASSUME NEW in, NEW v, v # Null, PublishesVersion(v), NEW answer,
           answer = FirstRefusal(<<
                      Refusal("405", in.method # "POST"),
                      Refusal("400", DecodeRequest(in) # "ok"),
                      Refusal("503", v = Null),
                      Refusal("panic", WindowPanics(Typed(in))),
                      Refusal("500", v # Null /\ ComputeFails(v, Typed(in).entity, Typed(in).source)) >>)
    PROVE  /\ answer \in {"ok", "405", "400", "panic"}
           /\ answer = "ok" => DecodeRequest(in) = "ok" /\ ~WindowPanics(Typed(in))
<1>1. PICK c : c = <<
            Refusal("405", in.method # "POST"),
            Refusal("400", DecodeRequest(in) # "ok"),
            Refusal("503", v = Null),
            Refusal("panic", WindowPanics(Typed(in))),
            Refusal("500", v # Null /\ ComputeFails(v, Typed(in).entity, Typed(in).source)) >>
  OBVIOUS
<1>2. /\ Len(c) = 5
      /\ c[1] = Refusal("405", in.method # "POST")
      /\ c[2] = Refusal("400", DecodeRequest(in) # "ok")
      /\ c[3] = Refusal("503", v = Null)
      /\ c[4] = Refusal("panic", WindowPanics(Typed(in)))
      /\ c[5] = Refusal("500", v # Null /\ ComputeFails(v, Typed(in).entity, Typed(in).source))
  BY <1>1
<1>3. c[1].code = "405" /\ c[2].code = "400" /\ c[4].code = "panic"
  BY <1>2, RefusalIs
<1>4. ~c[2].refused => DecodeRequest(in) = "ok"
  <2>1. c[2] = Refusal("400", DecodeRequest(in) # "ok")
    BY <1>2
  <2> QED  BY <2>1, RefusalIs, ZenonT(60)
<1>5. ~c[3].refused
  <2>1. c[3] = Refusal("503", v = Null)
    BY <1>2
  <2> QED  BY <2>1, RefusalIs, ZenonT(60)
<1>6. ~c[2].refused => ~c[5].refused
  <2> SUFFICES ASSUME ~c[2].refused  PROVE ~c[5].refused
    OBVIOUS
  <2>1. ~ComputeFails(v, Typed(in).entity, Typed(in).source)
    BY <1>4, ComputeSucceeds
  <2>2. PICK d : d = c[5]
    BY Zenon
  <2>3. PICK e : e = Typed(in).entity
    BY Zenon
  <2>4. PICK u : u = Typed(in).source
    BY Zenon
  <2>5. d = Refusal("500", v # Null /\ ComputeFails(v, e, u))
    BY <2>2, <2>3, <2>4, <1>2
  <2>6. ~ComputeFails(v, e, u)
    BY <2>1, <2>3, <2>4
  <2>7. ~d.refused
    BY <2>5, <2>6, RefusalIs, ZenonT(60)
  <2> QED  BY <2>2, <2>7
<1>10. ~c[4].refused => ~WindowPanics(Typed(in))
  <2>1. PICK shapes : shapes = {Typed(in).start.shape, Typed(in).end.shape}
    BY Zenon
  <2>2. WindowPanics(Typed(in)) = ("impossible" \in shapes)
    BY <2>1 DEF WindowPanics
  <2>3. c[4] = Refusal("panic", "impossible" \in shapes)
    BY <1>2, <2>2
  <2> QED  BY <2>2, <2>3, NotRefused, Zenon
<1>7. answer = FirstRefusal(c)
  BY <1>1
<1>8. CASE answer = "ok" /\ \A k \in 1 .. 5 : ~c[k].refused
  BY <1>4, <1>8, <1>10
<1>9. CASE \E i \in 1 .. 5 : /\ c[i].refused /\ answer = c[i].code
                             /\ \A k \in 1 .. i - 1 : ~c[k].refused
  <2>1. PICK i \in 1 .. 5 : /\ c[i].refused /\ answer = c[i].code
                            /\ \A k \in 1 .. i - 1 : ~c[k].refused
    BY <1>9
  <2>2. i # 3
    BY <2>1, <1>5
  <2>3. i # 5
    BY <2>1, <1>6
  <2>4. i \in {1, 2, 4}
    BY <2>2, <2>3
  <2> QED  BY <2>1, <2>4, <1>3
<1>11. \/ answer = "ok" /\ \A k \in 1 .. 5 : ~c[k].refused
       \/ \E i \in 1 .. 5 : /\ c[i].refused /\ answer = c[i].code
                             /\ \A k \in 1 .. i - 1 : ~c[k].refused
  <2>1. Len(c) = 5 /\ DOMAIN c = 1 .. Len(c)
    BY <1>2
  <2>2. Len(c) \in Nat
    BY <2>1
  <2> QED  BY <2>1, <2>2, <1>7, FirstRefusalIs, ZenonT(60)
<1> QED  BY <1>8, <1>9, <1>11

-----------------------------------------------------------------------------
(* The formula. *)

(* Strings with the same symbols are one string. *)
LEMMA SameSymbols ==
    ASSUME NEW S, NEW a \in Seq(S), NEW b \in Seq(S),
           Len(a) = Len(b), \A i \in 1 .. Len(a) : a[i] = b[i]
    PROVE  a = b
  OBVIOUS

(* What precedes the first "|" of a string, and what follows it. *)
LEMMA SplitPipe ==
    ASSUME NEW S, NEW a \in Seq(S), NEW b \in Seq(S), NEW x \in Seq(S), NEW y \in Seq(S),
           ~HasPipe(a), ~HasPipe(b), (a \o <<"|">>) \o x = (b \o <<"|">>) \o y
    PROVE  a = b /\ x = y
<1>1. PICK s : s = (a \o <<"|">>) \o x
  BY Zenon
<1>2. ASSUME NEW c \in Seq(S), NEW z \in Seq(S), s = (c \o <<"|">>) \o z
      PROVE  /\ Len(s) = Len(c) + 1 + Len(z) /\ s[Len(c) + 1] = "|"
             /\ \A i \in 1 .. Len(c) : s[i] = c[i]
             /\ \A i \in 1 .. Len(z) : s[Len(c) + 1 + i] = z[i]
  BY <1>2
<1>3. \A i \in 1 .. Len(a) : a[i] # "|"
  BY DEF HasPipe, Range
<1>4. \A i \in 1 .. Len(b) : b[i] # "|"
  BY DEF HasPipe, Range
<1>5. /\ Len(s) = Len(a) + 1 + Len(x) /\ s[Len(a) + 1] = "|"
      /\ \A i \in 1 .. Len(a) : s[i] = a[i]
      /\ \A i \in 1 .. Len(x) : s[Len(a) + 1 + i] = x[i]
  BY <1>1, <1>2
<1>6. /\ Len(s) = Len(b) + 1 + Len(y) /\ s[Len(b) + 1] = "|"
      /\ \A i \in 1 .. Len(b) : s[i] = b[i]
      /\ \A i \in 1 .. Len(y) : s[Len(b) + 1 + i] = y[i]
  BY <1>1, <1>2, Zenon
<1>7. Len(a) \in Nat /\ Len(b) \in Nat /\ Len(x) \in Nat /\ Len(y) \in Nat
  OBVIOUS
<1>8. ~(Len(a) < Len(b))
  <2> SUFFICES ASSUME Len(a) < Len(b)  PROVE FALSE
    OBVIOUS
  <2>1. Len(a) + 1 \in 1 .. Len(b)
    BY <1>7
  <2> QED  BY <2>1, <1>4, <1>5, <1>6, Zenon
<1>9. ~(Len(b) < Len(a))
  <2> SUFFICES ASSUME Len(b) < Len(a)  PROVE FALSE
    OBVIOUS
  <2>1. Len(b) + 1 \in 1 .. Len(a)
    BY <1>7
  <2> QED  BY <2>1, <1>3, <1>5, <1>6
<1>10. Len(a) = Len(b) /\ Len(x) = Len(y)
  BY <1>5, <1>6, <1>7, <1>8, <1>9
<1>11. \A i \in 1 .. Len(a) : a[i] = b[i]
  BY <1>5, <1>6, <1>10
<1>12. \A i \in 1 .. Len(x) : x[i] = y[i]
  BY <1>5, <1>6, <1>10
<1>13. a = b
  BY <1>10, <1>11, SameSymbols
<1>14. x = y
  BY <1>10, <1>12, SameSymbols
<1> QED  BY <1>13, <1>14

(* Concatenation and the strings, as the following lemmas use them: by
   these facts only. *)
Cat(a, b) == a \o b
Symbols   == STRING \cup {"|", "replacement"}
Strings   == Seq(Symbols)

(* Two strings joined. *)
LEMMA CatIs ==
    ASSUME NEW a \in Strings, NEW b \in Strings
    PROVE  Cat(a, b) \in Strings
  BY DEF Cat, Strings

(* Three strings joined. *)
LEMMA CatAssociative ==
    ASSUME NEW a \in Strings, NEW b \in Strings, NEW c \in Strings
    PROVE  Cat(Cat(a, b), c) = Cat(a, Cat(b, c))
  BY DEF Cat, Strings

(* The two sides of a separator. *)
LEMMA CatSplits ==
    ASSUME NEW a \in Strings, NEW b \in Strings, NEW x \in Strings, NEW y \in Strings,
           ~HasPipe(a), ~HasPipe(b), Cat(Cat(a, pipeSeparator), x) = Cat(Cat(b, pipeSeparator), y)
    PROVE  a = b /\ x = y
  BY SplitPipe, Zenon DEF Cat, Strings, pipeSeparator

(* The joined string, one separator at a time. *)
LEMMA JoinedIs ==
    ASSUME NEW p \in Strings, NEW v \in Strings, NEW e \in Strings,
           NEW f \in Strings, NEW g \in Strings, NEW u \in Strings
    PROVE  Cat(Cat(Cat(Cat(Cat(Cat(Cat(Cat(v, p), e), p), f), p), g), p), u)
             = Cat(Cat(v, p), Cat(Cat(e, p), Cat(Cat(f, p), Cat(Cat(g, p), u))))
<1>1. PICK A \in Strings, B \in Strings, C \in Strings, D \in Strings :
        A = Cat(v, p) /\ B = Cat(e, p) /\ C = Cat(f, p) /\ D = Cat(g, p)
  BY CatIs
<1>2. Cat(Cat(A, e), p) = Cat(A, B)
  BY <1>1, CatAssociative
<1>3. PICK E \in Strings : E = Cat(A, B)
  BY CatIs
<1>4. Cat(Cat(E, f), p) = Cat(E, C)
  BY <1>1, CatAssociative
<1>5. PICK F \in Strings : F = Cat(E, C)
  BY CatIs
<1>6. Cat(Cat(F, g), p) = Cat(F, D)
  BY <1>1, CatAssociative
<1>7. PICK x \in Strings : x = Cat(D, u)
  BY CatIs
<1>8. PICK y \in Strings : y = Cat(C, x)
  BY CatIs
<1>9. Cat(Cat(F, D), u) = Cat(F, x)
  BY <1>7, CatAssociative
<1>10. Cat(F, x) = Cat(E, y)
  BY <1>5, <1>8, CatAssociative
<1>11. Cat(E, y) = Cat(A, Cat(B, y))
  BY <1>3, CatAssociative
<1> QED  BY <1>1, <1>2, <1>3, <1>4, <1>5, <1>6, <1>7, <1>8, <1>9, <1>10, <1>11

(* A formatted bound. *)
BoundText(i) == <<Format[i]>>

(* It is a string without a separator. *)
LEMMA BoundTextIs ==
    ASSUME NEW i \in Instants
    PROVE  BoundText(i) \in Strings /\ ~HasPipe(BoundText(i))
<1>1. PICK f : f = Format[i]
  BY Zenon
<1>2. f \in Symbols /\ f # "|"
  BY <1>1, FormatAssumption, Zenon DEF Symbols
<1>3. <<f>> \in Strings /\ ~HasPipe(<<f>>)
  BY <1>2 DEF Strings, HasPipe, Range
<1> QED  BY <1>1, <1>3 DEF BoundText

(* Two bounds with one text. *)
LEMMA BoundTextInjective ==
    ASSUME NEW m \in Instants, NEW n \in Instants, BoundText(m) = BoundText(n)
    PROVE  m = n
<1>1. Format[m] = Format[n]
  BY DEF BoundText
<1> QED  BY <1>1, FormatAssumption

(* The hashed string of a version, an entity, a source and two formatted bounds. *)
JoinedText(v, e, f, g, u) ==
    Cat(Cat(v, pipeSeparator),
        Cat(Cat(e, pipeSeparator), Cat(Cat(f, pipeSeparator), Cat(Cat(g, pipeSeparator), u))))

(* The formula gives that string. *)
LEMMA JoinedTextIs ==
    ASSUME NEW v \in Strings, NEW e \in Strings, NEW u \in Strings,
           NEW m \in Instants, NEW n \in Instants
    PROVE  Joined(v, e, 1000 * m, 1000 * n, u) = JoinedText(v, e, BoundText(m), BoundText(n), u)
<1>1. PICK p : p = pipeSeparator
  BY Zenon
<1>2. p \in Strings
  BY <1>1 DEF pipeSeparator, Strings, Symbols
<1>3. PICK f, g : f = BoundText(m) /\ g = BoundText(n)
  OBVIOUS
<1>4. f \in Strings /\ g \in Strings
  BY <1>3, BoundTextIs
<1>5. PICK s, t : s = 1000 * m /\ t = 1000 * n
  OBVIOUS
<1>6. <<Truncated(s)>> = f /\ <<Truncated(t)>> = g
  <2>1. s \div 1000 = m /\ t \div 1000 = n
    BY <1>5, FormatAssumption
  <2> QED  BY <2>1, <1>3 DEF Truncated, BoundText
<1>7. Joined(v, e, s, t, u)
        = Cat(Cat(Cat(Cat(Cat(Cat(Cat(Cat(v, pipeSeparator), e), pipeSeparator), <<Truncated(s)>>), pipeSeparator),
                          <<Truncated(t)>>), pipeSeparator), u)
  BY DEF Joined, Cat
<1>8. Joined(v, e, s, t, u) = Cat(Cat(Cat(Cat(Cat(Cat(Cat(Cat(v, p), e), p), f), p), g), p), u)
  BY <1>1, <1>6, <1>7, Zenon
<1>9. Cat(Cat(Cat(Cat(Cat(Cat(Cat(Cat(v, p), e), p), f), p), g), p), u)
        = Cat(Cat(v, p), Cat(Cat(e, p), Cat(Cat(f, p), Cat(Cat(g, p), u))))
  BY <1>2, <1>4, JoinedIs
<1> QED  BY <1>1, <1>3, <1>5, <1>8, <1>9 DEF JoinedText

(* The five parts of the string. *)
Parts == [v : Strings, e : Strings, m : Instants, n : Instants, u : Strings]
PartsText(x) == JoinedText(x.v, x.e, BoundText(x.m), BoundText(x.n), x.u)

(* That string has the five parts in it, though the formula escapes nothing, when
   Compute accepts them. *)
LEMMA JoinedTextSplits ==
    ASSUME NEW x \in Parts, NEW y \in Parts, ~ComputeFails(x.v, x.e, x.u), ~ComputeFails(y.v, y.e, y.u),
           PartsText(x) = PartsText(y)
    PROVE  x = y
<1>p. PICK v \in Strings, e \in Strings, m \in Instants, n \in Instants, u \in Strings :
        x = [v |-> v, e |-> e, m |-> m, n |-> n, u |-> u]
  BY DEF Parts
<1>q. PICK v2 \in Strings, e2 \in Strings, m2 \in Instants, n2 \in Instants, u2 \in Strings :
        y = [v |-> v2, e |-> e2, m |-> m2, n |-> n2, u |-> u2]
  BY DEF Parts
<1>h. /\ ~ComputeFails(v, e, u) /\ ~ComputeFails(v2, e2, u2)
      /\ JoinedText(v, e, BoundText(m), BoundText(n), u) = JoinedText(v2, e2, BoundText(m2), BoundText(n2), u2)
  BY <1>p, <1>q DEF PartsText
<1> SUFFICES v = v2 /\ e = e2 /\ u = u2 /\ m = m2 /\ n = n2
  BY <1>p, <1>q
<1> DEFINE p == pipeSeparator
           f == BoundText(m)   f2 == BoundText(m2)   g == BoundText(n)   g2 == BoundText(n2)
<1>1. ~HasPipe(v) /\ ~HasPipe(e) /\ ~HasPipe(v2) /\ ~HasPipe(e2)
  BY <1>h DEF ComputeFails
<1>2. /\ f \in Strings /\ g \in Strings /\ f2 \in Strings /\ g2 \in Strings
      /\ ~HasPipe(f) /\ ~HasPipe(g) /\ ~HasPipe(f2) /\ ~HasPipe(g2)
  BY BoundTextIs
<1>3. JoinedText(v, e, f, g, u) = JoinedText(v2, e2, f2, g2, u2)
  BY <1>h
<1>4. (f = f2 => m = m2) /\ (g = g2 => n = n2)
  BY BoundTextInjective
<1> HIDE DEF f, g, f2, g2
<1> DEFINE c == Cat(Cat(g, p), u)    c2 == Cat(Cat(g2, p), u2)
           b == Cat(Cat(f, p), c)    b2 == Cat(Cat(f2, p), c2)
           a == Cat(Cat(e, p), b)    a2 == Cat(Cat(e2, p), b2)
<1>5. p \in Strings
  BY DEF pipeSeparator, Strings, Symbols
<1>6. c \in Strings /\ c2 \in Strings
  BY <1>2, <1>5, CatIs
<1>7. b \in Strings /\ b2 \in Strings
  BY <1>2, <1>5, <1>6, CatIs
<1>8. a \in Strings /\ a2 \in Strings
  BY <1>5, <1>7, CatIs
<1>9. Cat(Cat(v, p), a) = Cat(Cat(v2, p), a2)
  BY <1>3 DEF JoinedText
<1>10. v = v2 /\ a = a2
  <2> HIDE DEF a, a2
  <2> QED  BY <1>1, <1>8, <1>9, CatSplits
<1>11. e = e2 /\ b = b2
  <2>1. Cat(Cat(e, p), b) = Cat(Cat(e2, p), b2)
    BY <1>10
  <2> HIDE DEF b, b2
  <2> QED  BY <2>1, <1>1, <1>7, CatSplits
<1>12. f = f2 /\ c = c2
  <2>1. Cat(Cat(f, p), c) = Cat(Cat(f2, p), c2)
    BY <1>11
  <2> HIDE DEF c, c2
  <2> QED  BY <2>1, <1>2, <1>6, CatSplits
<1>13. g = g2 /\ u = u2
  <2>1. Cat(Cat(g, p), u) = Cat(Cat(g2, p), u2)
    BY <1>12
  <2> QED  BY <2>1, <1>2, CatSplits
<1> QED  BY <1>4, <1>10, <1>11, <1>12, <1>13

(* The typed request of a trigger that the handler goes on with. *)
LEMMA AcceptedIs ==
    ASSUME NEW in \in Inputs, DecodeRequest(in) = "ok", ~WindowPanics(Typed(in)), NEW t, t = Typed(in)
    PROVE  /\ t.entity \in Strings /\ t.source \in Strings
           /\ t.start = [shape |-> "calendar", at |-> t.start.at] /\ t.start.at \in Instants
           /\ t.end = [shape |-> "calendar", at |-> t.end.at] /\ t.end.at \in Instants
           /\ t = [entity |-> t.entity, start |-> t.start, end |-> t.end, source |-> t.source]
<1>1. /\ t.entity = Unmarshal(in.entity) /\ t.source = Unmarshal(in.source)
      /\ t.start = in.start /\ t.end = in.end
      /\ t = [entity |-> t.entity, start |-> t.start, end |-> t.end, source |-> t.source]
  BY DEF Typed
<1>2. in.entity \in Seq(STRING) /\ in.source \in Seq(STRING) /\ in.start \in BoundType /\ in.end \in BoundType
  BY InputsAssumption DEF RequestType
<1>3. ASSUME NEW s \in Seq(STRING)  PROVE Unmarshal(s) \in Strings
  <2>1. ASSUME NEW i \in 1 .. Len(s)  PROVE (IF s[i] = "invalid" THEN "replacement" ELSE s[i]) \in Symbols
    BY DEF Symbols
  <2>2. Unmarshal(s) \in [1 .. Len(s) -> Symbols]
    BY <2>1 DEF Unmarshal
  <2> QED  BY <2>2 DEF Strings
<1>4. ASSUME NEW b \in BoundType, b.shape \notin {"missing", "malformed", "impossible"}
      PROVE  b = [shape |-> "calendar", at |-> b.at] /\ b.at \in Instants
  BY <1>4 DEF BoundType, Shapes
<1>5. \A shape \in {t.start.shape, t.end.shape} : shape \notin {"missing", "malformed"}
  BY DecodedIs
<1>6. \A shape \in {t.start.shape, t.end.shape} : shape # "impossible"
  BY DEF WindowPanics
<1> QED  BY <1>1, <1>2, <1>3, <1>4, <1>5, <1>6

(* Two triggers with one execution_id. *)
LEMMA IdentitySplits ==
    ASSUME NEW in \in Inputs, DecodeRequest(in) = "ok", ~WindowPanics(Typed(in)), NEW t, t = Typed(in),
           NEW in2 \in Inputs, DecodeRequest(in2) = "ok", ~WindowPanics(Typed(in2)), NEW t2, t2 = Typed(in2),
           NEW v \in Versions, ~ComputeFails(v, t.entity, t.source),
           NEW v2 \in Versions, ~ComputeFails(v2, t2.entity, t2.source),
           ExecutionID(v, t) = ExecutionID(v2, t2)
    PROVE  t = t2 /\ v = v2
<1>1. /\ t.entity \in Strings /\ t.source \in Strings
      /\ t.start = [shape |-> "calendar", at |-> t.start.at] /\ t.start.at \in Instants
      /\ t.end = [shape |-> "calendar", at |-> t.end.at] /\ t.end.at \in Instants
      /\ t = [entity |-> t.entity, start |-> t.start, end |-> t.end, source |-> t.source]
  BY AcceptedIs
<1>2. /\ t2.entity \in Strings /\ t2.source \in Strings
      /\ t2.start = [shape |-> "calendar", at |-> t2.start.at] /\ t2.start.at \in Instants
      /\ t2.end = [shape |-> "calendar", at |-> t2.end.at] /\ t2.end.at \in Instants
      /\ t2 = [entity |-> t2.entity, start |-> t2.start, end |-> t2.end, source |-> t2.source]
  BY AcceptedIs
<1>3. v \in Strings /\ v2 \in Strings
  BY InputsAssumption DEF Strings, Symbols
<1>4. PICK e \in Strings, u \in Strings, m \in Instants, n \in Instants :
        e = t.entity /\ u = t.source /\ m = t.start.at /\ n = t.end.at
  BY <1>1
<1>5. PICK e2 \in Strings, u2 \in Strings, m2 \in Instants, n2 \in Instants :
        e2 = t2.entity /\ u2 = t2.source /\ m2 = t2.start.at /\ n2 = t2.end.at
  BY <1>2
<1>6. Parsed(t.start) = m /\ Parsed(t.end) = n
  BY <1>1, <1>4 DEF Parsed
<1>7. Parsed(t2.start) = m2 /\ Parsed(t2.end) = n2
  BY <1>2, <1>5 DEF Parsed
<1>8. Joined(v, e, 1000 * m, 1000 * n, u) = Joined(v2, e2, 1000 * m2, 1000 * n2, u2)
  BY <1>4, <1>5, <1>6, <1>7 DEF ExecutionID
<1>9. JoinedText(v, e, BoundText(m), BoundText(n), u) = JoinedText(v2, e2, BoundText(m2), BoundText(n2), u2)
  BY <1>3, <1>8, JoinedTextIs
<1>10. ~ComputeFails(v, e, u) /\ ~ComputeFails(v2, e2, u2)
  BY <1>4, <1>5
<1>11. v = v2 /\ e = e2 /\ u = u2 /\ m = m2 /\ n = n2
  <2>1. PICK x : x = [v |-> v, e |-> e, m |-> m, n |-> n, u |-> u]
    BY Zenon
  <2>2. PICK y : y = [v |-> v2, e |-> e2, m |-> m2, n |-> n2, u |-> u2]
    BY Zenon
  <2>3. x \in Parts /\ y \in Parts
    BY <1>3, <2>1, <2>2 DEF Parts
  <2>4. ~ComputeFails(x.v, x.e, x.u) /\ ~ComputeFails(y.v, y.e, y.u)
    BY <1>10, <2>1, <2>2
  <2>5. PartsText(x) = PartsText(y)
    BY <1>9, <2>1, <2>2 DEF PartsText
  <2>6. x = y
    BY <2>3, <2>4, <2>5, JoinedTextSplits
  <2> QED  BY <2>1, <2>2, <2>6
<1>12. t.start = t2.start /\ t.end = t2.end
  BY <1>1, <1>2, <1>4, <1>5, <1>11
<1> QED  BY <1>1, <1>2, <1>4, <1>5, <1>11, <1>12, Zenon

-----------------------------------------------------------------------------
(* Log levels. *)

(* The shortening of a component, as a function of what is left of it: found is where
   levels has an entry, val the entry. *)
Shorten(g, N, found, val, root) ==
    [n \in 0 .. N |-> IF n = 0 THEN root ELSE IF n \in found THEN val[n] ELSE g[n - 1]]

(* It is a function. *)
LEMMA ShortenExists ==
    ASSUME NEW N \in Nat, NEW found, found \subseteq 1 .. N, NEW val, NEW root
    PROVE  \E g : g = Shorten(g, N, found, val, root)
<1> DEFINE below(n) == {k \in found : k <= n}
           last(B)  == CHOOSE k \in B : \A j \in B : j <= k
           g        == [n \in 0 .. N |-> IF below(n) = {} THEN root ELSE val[last(below(n))]]
<1>1. ASSUME NEW B, NEW n \in B, B \subseteq Nat, \A j \in B : j <= n  PROVE last(B) = n
  <2>1. \A k \in B : (\A j \in B : j <= k) => k = n
    BY <1>1
  <2> QED  BY <2>1, <1>1, Zenon
<1> HIDE DEF last
<1>2. \A k \in found : k \in Nat /\ k # 0
  OBVIOUS
<1>3. ASSUME NEW n \in 0 .. N
      PROVE  g[n] = IF n = 0 THEN root ELSE IF n \in found THEN val[n] ELSE g[n - 1]
  <2>1. PICK B : B = below(n)
    BY Zenon
  <2>2. g[n] = IF B = {} THEN root ELSE val[last(B)]
    BY <2>1
  <2> HIDE DEF g
  <2>6. \A k : k \in B <=> k \in found /\ k <= n
    BY <2>1, Zenon
  <2>7. B \subseteq Nat
    BY <2>6, <1>2, Zenon
  <2>3. CASE n = 0
    <3>1. ASSUME NEW k \in B  PROVE FALSE
      <4>1. k \in found /\ k <= n
        BY <2>6, Zenon
      <4>2. k \in Nat /\ k # 0
        BY <4>1, <1>2
      <4> QED  BY <4>1, <4>2, <2>3
    <3> QED  BY <2>2, <2>3, <3>1
  <2>4. CASE n # 0 /\ n \in found
    <3>1. n \in B /\ \A j \in B : j <= n
      BY <2>6, <2>4
    <3>2. last(B) = n
      BY <3>1, <2>7, <1>1, Zenon
    <3> QED  BY <2>2, <2>4, <3>1, <3>2
  <2>5. CASE n # 0 /\ n \notin found
    <3>1. n - 1 \in 0 .. N
      BY <2>5
    <3>2. PICK C : C = below(n - 1)
      BY Zenon
    <3>3. g[n - 1] = IF C = {} THEN root ELSE val[last(C)]
      BY <3>1, <3>2, Zenon DEF g
    <3>4. \A k \in found : k <= n <=> k <= n - 1
      BY <2>5, <1>2
    <3>5. B = C
      BY <2>1, <3>2, <3>4, Zenon
    <3> QED  BY <2>2, <2>5, <3>3, <3>5
  <2> QED  BY <2>3, <2>4, <2>5
<1>4. PICK h : h = g
  BY Zenon
<1>5. h = [n \in 0 .. N |-> h[n]]
  BY <1>4
<1>6. \A n \in 0 .. N : h[n] = IF n = 0 THEN root ELSE IF n \in found THEN val[n] ELSE h[n - 1]
  <2> HIDE DEF g
  <2> QED  BY <1>3, <1>4
<1>7. h = Shorten(h, N, found, val, root)
  BY <1>5, <1>6 DEF Shorten
<1> QED  BY <1>7

(* An entry no other comes after, or root without one. *)
EndsWithLast(level, found, val, root) ==
    \/ found = {} /\ level = root
    \/ \E k \in found : (\A j \in found : j <= k) /\ level = val[k]

(* It ends with the last entry, or with root. *)
LEMMA ShortenIs ==
    ASSUME NEW N \in Nat, NEW found, found \subseteq 1 .. N, NEW val, NEW root,
           NEW f, f = Shorten(f, N, found, val, root)
    PROVE  EndsWithLast(f[N], found, val, root)
<1> USE DEF EndsWithLast
<1>1. \A n \in 0 .. N : f[n] = IF n = 0 THEN root ELSE IF n \in found THEN val[n] ELSE f[n - 1]
  BY DEF Shorten
<1>2. PICK T : T = {n \in 0 .. N : f[n] = f[N] /\ \A j \in found : j <= n}
  BY Zenon
<1>3. N \in T /\ T \subseteq Nat
  BY <1>2
<1>4. PICK n \in T : \A m \in T : n <= m
  BY <1>3, LeastNat, Zenon
<1>5. n \in 0 .. N /\ f[n] = f[N] /\ \A j \in found : j <= n
  BY <1>2, <1>4
<1>6. CASE n = 0
  BY <1>1, <1>5, <1>6
<1>7. CASE n # 0 /\ n \in found
  BY <1>1, <1>5, <1>7
<1>8. CASE n # 0 /\ n \notin found
  <2>1. f[n - 1] = f[N] /\ n - 1 \in 0 .. N
    BY <1>1, <1>5, <1>8
  <2>2. \A j \in found : j <= n - 1
    BY <1>5, <1>8
  <2>3. n - 1 \in T
    BY <1>2, <2>1, <2>2
  <2> QED  BY <1>4, <1>5, <2>3
<1> QED  BY <1>6, <1>7, <1>8, Zenon

(* resolveLevel: the entry of the longest prefix that has one. *)
LEMMA ResolveLevelIs ==
    ASSUME NEW levels, NEW root, NEW c \in Seq(STRING), NEW found,
           found = {k \in 1 .. Len(c) : SubSeq(c, 1, k) \in DOMAIN levels}
    PROVE  \/ found = {} /\ resolveLevel(levels, root, c) = root
           \/ \E k \in found : /\ \A j \in found : j <= k
                               /\ resolveLevel(levels, root, c) = levels[SubSeq(c, 1, k)]
<1>1. PICK N \in Nat : N = Len(c)
  OBVIOUS
<1>2. found \subseteq 1 .. N
  BY <1>1
<1> DEFINE val == [k \in 1 .. N |-> levels[SubSeq(c, 1, k)]]
           Body(g) == [n \in 0 .. Len(c) |->
                         LET name == SubSeq(c, 1, n)
                         IN  IF n = 0 THEN root
                             ELSE IF name \in DOMAIN levels THEN levels[name] ELSE g[n - 1]]
<1>3. ASSUME NEW g  PROVE Body(g) = Shorten(g, N, found, val, root)
  <2>1. ASSUME NEW n \in 0 .. N
        PROVE  Body(g)[n] = IF n = 0 THEN root ELSE IF n \in found THEN val[n] ELSE g[n - 1]
    <3>1. n # 0 => n \in 1 .. N
      OBVIOUS
    <3> QED  BY <1>1, <3>1
  <2> QED  BY <2>1, <1>1 DEF Shorten
<1>4. resolveLevel(levels, root, c) = (CHOOSE g : g = Body(g))[Len(c)]
  BY DEF resolveLevel
<1>5. PICK f : f = CHOOSE g : g = Body(g)
  BY Zenon
<1> HIDE DEF Body
<1>6. \E g : g = Body(g)
  <2> HIDE DEF val
  <2> QED  BY <1>2, <1>3, ShortenExists, Zenon
<1>7. f = Body(f)
  BY <1>5, <1>6, Zenon
<1>8. f = Shorten(f, N, found, val, root)
  BY <1>3, <1>7
<1>9. EndsWithLast(f[N], found, val, root)
  <2> HIDE DEF val
  <2> QED  BY <1>2, <1>8, ShortenIs
<1>10. \A k \in found : val[k] = levels[SubSeq(c, 1, k)]
  BY <1>2
<1> QED  BY <1>1, <1>4, <1>5, <1>9, <1>10 DEF EndsWithLast

(* The entries of a component, by their lengths. *)
LEMMA EntriesAre ==
    ASSUME NEW levels, NEW c \in Seq(STRING), \A p \in DOMAIN levels : p \in Seq(STRING) /\ p # <<>>
    PROVE  /\ \A p \in DOMAIN levels : Covers(p, c) =>
                 Len(p) \in 1 .. Len(c) /\ SubSeq(c, 1, Len(p)) = p
           /\ \A k \in 1 .. Len(c) : SubSeq(c, 1, k) \in DOMAIN levels =>
                 Covers(SubSeq(c, 1, k), c) /\ Len(SubSeq(c, 1, k)) = k
<1>1. ASSUME NEW p \in DOMAIN levels, Covers(p, c)
      PROVE  Len(p) \in 1 .. Len(c) /\ SubSeq(c, 1, Len(p)) = p
  <2>1. p \in Seq(STRING) /\ p # <<>>
    OBVIOUS
  <2>2. Len(p) \in Nat /\ Len(p) # 0 /\ Len(c) \in Nat
    BY <2>1
  <2> QED  BY <2>2, <1>1 DEF Covers
<1>2. ASSUME NEW k \in 1 .. Len(c)
      PROVE  Covers(SubSeq(c, 1, k), c) /\ Len(SubSeq(c, 1, k)) = k
  <2>1. PICK p : p = SubSeq(c, 1, k)
    BY Zenon
  <2>2. p \in Seq(STRING) /\ Len(p) = k /\ Len(c) \in Nat
    BY <2>1
  <2> QED  BY <2>1, <2>2 DEF Covers
<1> QED  BY <1>1, <1>2

-----------------------------------------------------------------------------
(* Boot. *)

(* The stages of boot follow each other as BootStages lists them. *)
LEMMA NextStageIs ==
           /\ stage = "readEnv" => NextStage = "placeholders"
           /\ stage = "placeholders" => NextStage = "gcs"
           /\ stage = "gcs" => NextStage = "bigquery"
           /\ stage = "bigquery" => NextStage = "alerts"
           /\ stage = "alerts" => NextStage = "dataset"
           /\ stage = "dataset" => NextStage = "dq_executions"
           /\ stage = "dq_executions" => NextStage = "dq_check_results"
           /\ stage = "dq_check_results" => NextStage = "view"
           /\ stage = "view" => NextStage = "load"
           /\ stage = "load" => NextStage = "registry"
           /\ stage = "registry" => NextStage = "runners"
           /\ stage = "runners" => NextStage = "start"
<1>1. stage = "readEnv" => NextStage = "placeholders"
  BY DEF NextStage, BootStages
<1>2. stage = "placeholders" => NextStage = "gcs"
  BY DEF NextStage, BootStages
<1>3. stage = "gcs" => NextStage = "bigquery"
  BY DEF NextStage, BootStages
<1>4. stage = "bigquery" => NextStage = "alerts"
  BY DEF NextStage, BootStages
<1>5. stage = "alerts" => NextStage = "dataset"
  BY DEF NextStage, BootStages
<1>6. stage = "dataset" => NextStage = "dq_executions"
  BY DEF NextStage, BootStages
<1>7. stage = "dq_executions" => NextStage = "dq_check_results"
  BY DEF NextStage, BootStages
<1>8. stage = "dq_check_results" => NextStage = "view"
  BY DEF NextStage, BootStages
<1>9. stage = "view" => NextStage = "load"
  BY DEF NextStage, BootStages
<1>10. stage = "load" => NextStage = "registry"
  BY DEF NextStage, BootStages
<1>11. stage = "registry" => NextStage = "runners"
  BY DEF NextStage, BootStages
<1>12. stage = "runners" => NextStage = "start"
  BY DEF NextStage, BootStages
<1> QED  BY <1>1, <1>2, <1>3, <1>4, <1>5, <1>6, <1>7, <1>8, <1>9, <1>10, <1>11, <1>12

(* The stages as a set. *)
LEMMA StagesAre == Range(BootStages) \cup {"down", "exited"} \cup Ready = Stages
  BY DEF Range, BootStages, Stages, Ensured1, Loaded, Ready, Up

(* A step of main that leaves the environment, the manifests and the requests alone
   keeps their types and what a served manifest is. *)
LEMMA BaseKept ==
    ASSUME Base, UNCHANGED <<pointer, held, environ, req>>, dataset' \subseteq {"dataset", "view"} \cup Tables,
           boots' \in 0 .. MaxBoots, stage' \in Stages, exit' \in {Null, 0, 1, 2, 137},
           loops' \in [Loops -> {"off", "running", "done"}]
    PROVE  Base'
<1>1. pointer' = Null \/ Served(pointer)'
  BY DEF Base, Served, PublishesVersion, HasPipe
<1>2. held' = Null \/ (Served(held)' /\ pointer' # Null)
  BY DEF Base, Served, PublishesVersion, HasPipe
<1> QED  BY <1>1, <1>2 DEF Base

(* Shutdown goes through stages that are all past boot: what boot has established
   (tables, manifest, loops) stays so. *)
LEMMA EstablishedKept ==
    ASSUME Established, UNCHANGED <<held, dataset, req>>,
           \/ stage' = stage /\ loops' = loops
           \/ stage \in Up /\ stage' \in Up
    PROVE  Established'
  BY DEF Established, Ensured1, Ensured2, Loaded, Ready

(* The answers given stay true of a step that answers no request. *)
LEMMA AnsweredKept ==
    ASSUME Answered, UNCHANGED <<req, drained>>,
           stage' \in {"waiting", "closing"} => stage \in {"waiting", "closing"}
    PROVE  Answered'
<1>1. \A q \in Requests : ReqOK(req[q])'
  BY DEF Answered, ReqOK
<1>2. Outlasted' <=> Outlasted
  BY DEF Outlasted
<1> QED  BY <1>1, <1>2 DEF Answered

(* What stays as it is when main has passed a stage of boot. *)
LEMMA PassesInv ==
    ASSUME EngineInv, stage \in Range(BootStages), Passes,
           pointer' = pointer, boots' = boots, environ' = environ,
           signalled' = signalled, clocks' = clocks,
           dataset \subseteq dataset', dataset' \subseteq {"dataset", "view"} \cup Tables,
           IF stage = "load" THEN Served(held') /\ pointer # Null ELSE held' = held,
           stage \in Tables => stage \in dataset'
    PROVE  EngineInv'
<1> USE DEF EngineInv
<1>1. stage' = NextStage /\ exit' = exit /\ loops' = loops /\ req' = req
  BY DEF Passes
<1>2. stage \in {"readEnv", "placeholders", "gcs", "bigquery", "alerts", "dataset",
                 "dq_executions", "dq_check_results", "view", "load", "registry", "runners"}
  BY DEF Range, BootStages
<1>3. /\ stage' \in Stages /\ stage' \notin Up
      /\ stage' \in Loaded => stage = "load" \/ stage \in Loaded
      /\ stage' \in Ensured1 => stage = "dq_executions" \/ stage \in Ensured1
      /\ stage' \in Ensured2 => stage = "dq_check_results" \/ stage \in Ensured2
      /\ stage \notin Up
  BY <1>1, <1>2, NextStageIs DEF Stages, Ensured1, Ensured2, Loaded, Ready, Up
<1>4. held' = Null \/ (Served(held') /\ pointer # Null)
  BY DEF Base
<1>5. Base'
  BY <1>1, <1>3, <1>4 DEF Base, Served, PublishesVersion, HasPipe
<1>6. stage' \in Loaded => held' # Null
  <2>1. CASE stage = "load"
    BY <2>1, ProcessAssumption DEF Served
  <2>2. CASE stage # "load"
    BY <2>2, <1>3 DEF Established
  <2> QED  BY <2>1, <2>2
<1>7. Established'
  BY <1>1, <1>3, <1>6 DEF Established, Tables
<1>8. Answered'
  BY <1>1, <1>3, Zenon DEF Answered, Up, ReqOK
<1>9. Flags'
  BY DEF Flags, clocks
<1> QED  BY <1>5, <1>7, <1>8, <1>9

(* The end of the process, at whatever stage: a handler is cut off only after the
   drain has given up on it. *)
LEMMA EndsInv ==
    ASSUME EngineInv, NEW code \in {0, 1, 2, 137}, Ends(code), code = 0 => stage = "closing",
           pointer' = pointer, boots' = boots, environ' = environ,
           signalled' = signalled, clocks' = clocks, dataset' = dataset
    PROVE  EngineInv'
<1> USE DEF EngineInv
<1>1. stage' = "exited" /\ exit' = code /\ held' = Null /\ req' = Abandoned(code)
      /\ loops' = [g \in Loops |-> "off"]
  BY DEF Ends
<1>2. ASSUME NEW q \in Requests
      PROVE  /\ req'[q] \in Reqs /\ req'[q].phase \notin {"resolving", "attempt"} /\ ReqOK(req'[q])
  <2>1. req'[q] = CASE req[q].phase = "resolving" ->
                        [req[q] EXCEPT !.phase = "over", !.answer = IF code = 0 /\ drained < DrainTicks THEN "cut" ELSE "lost"]
                    [] req[q].phase = "attempt" -> [req[q] EXCEPT !.phase = "over"]
                    [] OTHER -> req[q]
    BY <1>1, Zenon DEF Abandoned
  <2>2. req[q] \in Reqs /\ ReqOK(req[q])
    BY DEF Base, Answered
  <2>3. CASE req[q].phase = "resolving"
    <3>1. ~(code = 0 /\ drained < DrainTicks)
      <4>1. code = 0 => Outlasted
        BY <2>3, Zenon DEF Answered
      <4> QED  BY <4>1, ProcessAssumption DEF Outlasted, Flags
    <3>2. req'[q] = [req[q] EXCEPT !.phase = "over", !.answer = "lost"]
      BY <2>1, <2>3, <3>1, Zenon
    <3>3. req'[q] \in Reqs /\ req'[q].phase = "over" /\ req'[q].answer = "lost"
      BY <3>2, <2>2, ZenonT(60) DEF Reqs, Phases, Answers
    <3> QED  BY <3>3 DEF ReqOK
  <2>4. CASE req[q].phase = "attempt"
    <3>1. req'[q] = [req[q] EXCEPT !.phase = "over"]
      BY <2>1, <2>4
    <3>2. /\ req'[q] \in Reqs /\ req'[q].phase = "over" /\ req'[q].answer = req[q].answer
          /\ req'[q].in = req[q].in /\ req'[q].version = req[q].version
      BY <3>1, <2>2 DEF Reqs, Phases
    <3> QED  BY <3>2, <2>2 DEF ReqOK
  <2>5. CASE req[q].phase \notin {"resolving", "attempt"}
    BY <2>1, <2>2, <2>5
  <2> QED  BY <2>3, <2>4, <2>5
<1>3. req' \in [Requests -> Reqs]
  <2>1. \A q \in Requests : req'[q] \in Reqs
    BY <1>2
  <2>2. req' = [q \in Requests |-> req'[q]]
    BY <1>1, Zenon DEF Abandoned
  <2> QED  BY <2>1, <2>2
<1>4. Base'
  BY <1>1, <1>3 DEF Base, Stages, Served, PublishesVersion, HasPipe
<1>5. Established'
  BY <1>1, <1>2 DEF Established, Ensured1, Ensured2, Loaded, Ready, Up
<1>6. Answered'
  BY <1>1, <1>2, Zenon DEF Answered, ReqOK
<1>7. Flags'
  BY DEF Flags, clocks
<1> QED  BY <1>4, <1>5, <1>6, <1>7

(* A step of boot passes its stage or ends the process. *)
LEMMA BootStepInv == EngineInv /\ BootStep => EngineInv'
<1> SUFFICES ASSUME EngineInv, BootStep  PROVE EngineInv'
  OBVIOUS
<1>1. dataset \subseteq {"dataset", "view"} \cup Tables
  BY DEF EngineInv, Base
<1>2. Range(BootStages) = {"readEnv", "placeholders", "gcs", "bigquery", "alerts", "dataset",
                           "dq_executions", "dq_check_results", "view", "load", "registry", "runners"}
  BY DEF Range, BootStages
<1>3. CASE Configure
  BY <1>1, <1>2, <1>3, PassesInv, EndsInv DEF Configure, Tables
<1>4. ASSUME NEW made \in BOOLEAN, NewClient(made)  PROVE EngineInv'
  <2>1. /\ stage \in {"gcs", "bigquery", "alerts"}
        /\ (Passes /\ held' = held) \/ Ends(1)
        /\ UNCHANGED <<pointer, dataset, boots, environ, signalled, clocks>>
    BY <1>4, Zenon DEF NewClient
  <2>2. CASE Passes /\ held' = held
    BY <2>1, <2>2, <1>1, <1>2, PassesInv DEF Tables
  <2>3. CASE Ends(1)
    BY <2>1, <2>3, EndsInv
  <2> QED  BY <2>1, <2>2, <2>3
<1>5. ASSUME NEW made \in BOOLEAN, EnsureView(made)  PROVE EngineInv'
  BY <1>1, <1>2, <1>5, PassesInv DEF EnsureView, Tables
<1>6. ASSUME NEW made \in BOOLEAN, Load(made)  PROVE EngineInv'
  <2>1. pointer = Null \/ Served(pointer)
    BY DEF EngineInv, Base
  <2> QED  BY <2>1, <1>1, <1>2, <1>6, PassesInv, EndsInv DEF Load, Tables
<1>7. ASSUME NEW made \in BOOLEAN, BuildRunners(made)  PROVE EngineInv'
  BY <1>1, <1>2, <1>7, PassesInv, EndsInv DEF BuildRunners, Tables
<1>8. ASSUME NEW outcome \in {"created", "exists", "error"}, Ensure(outcome)  PROVE EngineInv'
  <2>1. CASE outcome = "error"
    <3>1. dataset' = dataset
      BY <2>1, <1>8 DEF Ensure
    <3> QED  BY <2>1, <3>1, <1>8, EndsInv DEF Ensure
  <2>2. CASE outcome # "error"
    <3>1. stage \in dataset' /\ dataset \subseteq dataset' /\ dataset' \subseteq {"dataset", "view"} \cup Tables
      BY <2>2, <1>1, <1>8 DEF Ensure
    <3> QED  BY <2>2, <3>1, <1>2, <1>8, PassesInv DEF Ensure, Tables
  <2> QED  BY <2>1, <2>2
<1>9. CASE VerifyRegistry
  BY <1>1, <1>2, <1>9, PassesInv, EndsInv DEF VerifyRegistry, Tables
<1>10. CASE StartLoops
  <2>1. /\ stage = "start" /\ stage' = "serving" /\ loops' = [g \in Loops |-> "running"]
        /\ UNCHANGED <<pointer, dataset, boots, exit, environ, signalled, held, clocks, req>>
    BY <1>10, Zenon DEF StartLoops
  <2>2. Base /\ Established /\ Answered /\ Flags
    BY Zenon DEF EngineInv
  <2>3. Base'
    <3>1. boots \in 0 .. MaxBoots /\ exit \in {Null, 0, 1, 2, 137}
      BY <2>2, Zenon DEF Base
    <3>2. stage' \in Stages
      BY <2>1 DEF Stages, Ensured1, Loaded, Ready, Up
    <3>3. loops' \in [Loops -> {"off", "running", "done"}]
      BY <2>1
    <3> QED  BY <2>1, <2>2, <3>1, <3>2, <3>3, <1>1, BaseKept
  <2>4. Established'
    BY <2>1, <2>2 DEF Established, Ensured1, Ensured2, Loaded, Ready, Up
  <2>5. Answered'
    BY <2>1, <2>2, AnsweredKept DEF clocks
  <2>6. Flags'
    BY <2>1, <2>2, Zenon DEF Flags, clocks
  <2> QED  BY <2>3, <2>4, <2>5, <2>6, Zenon DEF EngineInv
<1> QED  BY <1>3, <1>4, <1>5, <1>6, <1>7, <1>8, <1>9, <1>10 DEF BootStep

-----------------------------------------------------------------------------
(* Requests. *)

(* A handler's step changes one request, while the goroutines exist. *)
LEMMA RequestInv ==
    ASSUME EngineInv, NEW q \in Requests, NEW r \in Reqs, req' = [req EXCEPT ![q] = r],
           UNCHANGED <<pointer, dataset, boots, stage, exit, environ, signalled, held, loops, clocks>>,
           stage \in Up, ReqOK(r),
           r.phase = "resolving" => stage = "serving"
    PROVE  EngineInv'
<1> USE DEF EngineInv
<1>1. req \in [Requests -> Reqs]
  BY DEF Base
<1>2. req' \in [Requests -> Reqs] /\ \A x \in Requests : req'[x] = IF x = q THEN r ELSE req[x]
  BY <1>1
<1>3. Base'
  BY <1>2 DEF Base, Served, PublishesVersion, HasPipe
<1>4. Established'
  BY DEF Established
<1>5. Answered'
  BY <1>2 DEF Answered, ReqOK, Outlasted, clocks
<1> QED  BY <1>3, <1>4, <1>5 DEF Flags, clocks

(* HandleTrigger: the manifest is there, and Compute does not fail on what the
   decoder has let through. *)
LEMMA HandleTriggerInv ==
    ASSUME EngineInv, NEW q \in Requests, NEW in \in Inputs, HandleTrigger(q, in)
    PROVE  EngineInv'
<1>1. PICK answer : answer = FirstRefusal(<<
                      Refusal("405", in.method # "POST"),
                      Refusal("400", DecodeRequest(in) # "ok"),
                      Refusal("503", held = Null),
                      Refusal("panic", WindowPanics(Typed(in))),
                      Refusal("500", held # Null /\ ComputeFails(held, Typed(in).entity, Typed(in).source)) >>)
  OBVIOUS
<1>2. PICK r : r = IF answer = "ok"
                   THEN [phase |-> "resolving", in |-> in, version |-> held, answer |-> Null]
                   ELSE [Unserved EXCEPT !.phase = "over", !.answer = answer]
  BY Zenon
<1>3. /\ stage = "serving" /\ req' = [req EXCEPT ![q] = r]
      /\ UNCHANGED <<pointer, dataset, boots, stage, exit, environ, signalled, held, loops, clocks>>
  BY <1>1, <1>2 DEF HandleTrigger
<1>4. held # Null /\ Served(held)
  BY <1>3 DEF EngineInv, Base, Established, Loaded, Ready, Up
<1>5. PublishesVersion(held) /\ held \in Versions
  BY <1>4 DEF Served
<1>6. /\ answer \in {"ok", "405", "400", "panic"}
      /\ answer = "ok" => DecodeRequest(in) = "ok" /\ ~WindowPanics(Typed(in))
  BY <1>1, <1>4, <1>5, HandlerAnswers
<1>7. CASE answer = "ok"
  <2>1. r = [phase |-> "resolving", in |-> in, version |-> held, answer |-> Null]
    BY <1>2, <1>7
  <2>2. ~ComputeFails(held, Typed(in).entity, Typed(in).source)
    BY <1>5, <1>6, <1>7, ComputeSucceeds
  <2>3. r \in Reqs
    BY <2>1, <1>5 DEF Reqs, Phases, Answers
  <2>4. ReqOK(r)
    BY <2>1, <2>2, <1>5, <1>6, <1>7, ProcessAssumption DEF ReqOK
  <2>5. stage \in Up
    BY <1>3 DEF Up
  <2> QED  BY <2>3, <2>4, <2>5, <1>3, RequestInv, Zenon
<1>8. CASE answer # "ok"
  <2>1. r = [phase |-> "over", in |-> Null, version |-> Null, answer |-> answer]
    BY <1>2, <1>8, Zenon DEF Unserved
  <2>2. r \in Reqs
    BY <2>1, <1>6, <1>8 DEF Reqs, Phases, Answers
  <2>3. ReqOK(r)
    BY <2>1, <1>6, <1>8 DEF ReqOK
  <2>4. stage \in Up
    BY <1>3 DEF Up
  <2> QED  BY <2>1, <2>2, <2>3, <2>4, <1>3, RequestInv, Zenon
<1> QED  BY <1>7, <1>8

(* resolveChecks, and the end of an attempt. *)
LEMMA ResolveInv ==
    ASSUME EngineInv, NEW q \in Requests, (\E read \in BOOLEAN : Resolve(q, read)) \/ AttemptEnds(q)
    PROVE  EngineInv'
<1>1. req \in [Requests -> Reqs] /\ req[q] \in Reqs /\ ReqOK(req[q])
  BY DEF EngineInv, Base, Answered
<1>2. UNCHANGED <<pointer, dataset, boots, stage, exit, environ, signalled, held, loops, clocks>>
  BY Zenon DEF Resolve, AttemptEnds
<1>3. req[q].phase \in {"resolving", "attempt"}
  BY Zenon DEF Resolve, AttemptEnds
<1>4. stage \in Up
  BY <1>3 DEF EngineInv, Established
<1>5. CASE \E read \in BOOLEAN : Resolve(q, read)
  <2>1. PICK phase \in {"attempt", "over"}, answer \in {"404", "200", "502"} :
           req[q].phase = "resolving"
           /\ req' = [req EXCEPT ![q] = [req[q] EXCEPT !.phase = phase, !.answer = answer]]
    <3>1. PICK read \in BOOLEAN : Resolve(q, read)
      BY <1>5
    <3>2. PICK phase : phase = IF read /\ Typed(req[q].in).entity \in EntitiesOf[held] THEN "attempt" ELSE "over"
      BY Zenon
    <3>3. PICK answer : answer = IF Typed(req[q].in).entity \notin EntitiesOf[held] THEN "404"
                                 ELSE IF read THEN "200" ELSE "502"
      OBVIOUS
    <3>4. req' = [req EXCEPT ![q].phase = phase, ![q].answer = answer] /\ req[q].phase = "resolving"
      BY <3>1, <3>2, <3>3 DEF Resolve
    <3>5. req' = [req EXCEPT ![q] = [req[q] EXCEPT !.phase = phase, !.answer = answer]]
      BY <3>4, <1>1, Zenon
    <3> QED  BY <3>2, <3>3, <3>4, <3>5, Zenon
  <2>2. PICK r : r = [req[q] EXCEPT !.phase = phase, !.answer = answer]
    BY Zenon
  <2>3. /\ r \in Reqs /\ r.phase = phase /\ r.answer = answer
        /\ r.in = req[q].in /\ r.version = req[q].version
    BY <2>2, <1>1, Zenon DEF Reqs, Phases, Answers
  <2>4. ReqOK(r) /\ r.phase # "resolving"
    BY <2>1, <2>3, <1>1 DEF ReqOK
  <2> QED  BY <2>1, <2>2, <2>3, <2>4, <1>2, <1>4, RequestInv, Zenon
<1>6. CASE AttemptEnds(q)
  <2>1. PICK r : r = [req[q] EXCEPT !.phase = "over"]
    BY Zenon
  <2>2. req' = [req EXCEPT ![q] = r]
    BY <2>1, <1>6 DEF AttemptEnds
  <2>3. /\ r \in Reqs /\ r.phase = "over" /\ r.answer = req[q].answer
        /\ r.in = req[q].in /\ r.version = req[q].version
    BY <2>1, <1>1 DEF Reqs, Phases
  <2>4. ReqOK(r)
    BY <2>3, <1>1 DEF ReqOK
  <2> QED  BY <2>2, <2>3, <2>4, <1>2, <1>4, RequestInv, Zenon
<1> QED  BY <1>5, <1>6

-----------------------------------------------------------------------------
(* The properties. *)

(* A process that has not been started. *)
LEMMA EngineInit == Init => EngineInv
<1> SUFFICES ASSUME Init  PROVE EngineInv
  OBVIOUS
<1> USE DEF Init
<1>1. \A q \in Requests : req[q] = Unserved
  OBVIOUS
<1>2. Unserved \in Reqs /\ Unserved.phase = "none" /\ Unserved.answer = Null
  BY DEF Unserved, Reqs, Phases, Answers
<1>3. Base
  BY <1>2, ProcessAssumption DEF Base, Stages
<1>4. Established
  BY <1>1, <1>2 DEF Established, Ensured1, Ensured2, Loaded, Ready, Up
<1>5. Answered
  BY <1>1, <1>2, ProcessAssumption DEF Answered, ReqOK
<1> QED  BY <1>3, <1>4, <1>5, Zenon DEF EngineInv, Flags

(* Every step of the process keeps what its stage has established. *)
LEMMA EngineStep == EngineInv /\ [Next]_vars => EngineInv'
<1> SUFFICES ASSUME EngineInv, [Next]_vars  PROVE EngineInv'
  OBVIOUS
<1>a. Base /\ Established /\ Answered /\ Flags
  BY Zenon DEF EngineInv
<1>b. /\ boots \in 0 .. MaxBoots /\ stage \in Stages /\ exit \in {Null, 0, 1, 2, 137}
      /\ loops \in [Loops -> {"off", "running", "done"}]
      /\ dataset \subseteq {"dataset", "view"} \cup Tables
  BY <1>a, Zenon DEF Base
<1>c. Up \subseteq Stages /\ "readEnv" \in Stages /\ "down" \notin Up /\ "exited" \notin Up
  BY DEF Stages, Ensured1, Loaded, Ready, Up
<1>1. CASE \E v \in Versions : Publish(v)
  <2>1. PICK v \in Versions : Publish(v)
    BY <1>1
  <2>2. /\ PublishesVersion(v) /\ pointer' = v
        /\ UNCHANGED <<dataset, boots, stage, exit, environ, signalled, held, loops, clocks, req>>
    BY <2>1, Zenon DEF Publish
  <2>3. v # Null
    BY ProcessAssumption
  <2>4. Base'
    BY <1>a, <2>2, <2>3 DEF Base, Served, PublishesVersion, HasPipe
  <2>5. Established' /\ Answered'
    BY <1>a, <2>2, EstablishedKept, AnsweredKept DEF clocks
  <2>6. Flags'
    BY <1>a, <2>2, Zenon DEF Flags, clocks
  <2> QED  BY <2>4, <2>5, <2>6, Zenon DEF EngineInv
<1>2. CASE Boot
  <2>1. /\ stage \in {"down", "exited"} /\ boots < MaxBoots /\ boots' = boots + 1 /\ stage' = Head(BootStages)
        /\ exit' = Null /\ signalled' = FALSE /\ timer' = 0 /\ drained' = 0 /\ environ' \in Environments
        /\ UNCHANGED <<pointer, dataset, held, loops, req>>
    BY <1>2, Zenon DEF Boot
  <2>2. stage' = "readEnv" /\ stage \notin Up
    BY <2>1 DEF BootStages, Up
  <2>3. boots' \in 0 .. MaxBoots
    BY <1>b, <2>1, ProcessAssumption
  <2>4. Base'
    <3>1. pointer' = Null \/ Served(pointer)'
      BY <1>a, <2>1 DEF Base, Served, PublishesVersion, HasPipe
    <3>2. held' = Null \/ (Served(held)' /\ pointer' # Null)
      BY <1>a, <2>1 DEF Base, Served, PublishesVersion, HasPipe
    <3>3. req' \in [Requests -> Reqs]
      BY <1>a, <2>1, Zenon DEF Base
    <3> QED  BY <3>1, <3>2, <3>3, <1>b, <1>c, <2>1, <2>2, <2>3 DEF Base
  <2>5. Established'
    BY <1>a, <2>1, <2>2, Zenon DEF Established, Ensured1, Ensured2, Loaded, Ready, Up
  <2>6. Answered'
    <3>1. \A q \in Requests : ReqOK(req[q])'
      BY <1>a, <2>1, Zenon DEF Answered, ReqOK
    <3> QED  BY <3>1, <2>2 DEF Answered
  <2>7. Flags'
    <3>1. signalled' \in BOOLEAN
      BY <2>1, Zenon
    <3>2. timer' \in Nat /\ drained' \in Nat
      BY <2>1
    <3> QED  BY <3>1, <3>2, Zenon DEF Flags
  <2> QED  BY <2>4, <2>5, <2>6, <2>7, Zenon DEF EngineInv
<1>3. CASE Crash
  BY <1>3, EndsInv DEF Crash
<1>4. CASE Signal
  <2>1. /\ signalled' = TRUE
        /\ UNCHANGED <<pointer, dataset, boots, stage, exit, environ, held, loops, clocks, req>>
    BY <1>4, Zenon DEF Signal
  <2>2. Base'
    BY <1>a, <1>b, <2>1, BaseKept
  <2>3. Established' /\ Answered'
    BY <1>a, <2>1, EstablishedKept, AnsweredKept DEF clocks
  <2>4. Flags'
    BY <1>a, <2>1, Zenon DEF Flags, clocks
  <2> QED  BY <2>2, <2>3, <2>4, Zenon DEF EngineInv
<1>5. CASE BootStep
  BY <1>5, BootStepInv
<1>6. CASE RequestStep
  BY <1>6, HandleTriggerInv, ResolveInv DEF RequestStep
<1>7. CASE Refresh
  <2>1. /\ loops["refresh"] = "running" /\ held' = pointer
        /\ UNCHANGED <<pointer, dataset, boots, stage, exit, environ, signalled, loops, clocks, req>>
    BY <1>7, Zenon DEF Refresh
  <2>2. stage \in Up
    BY <1>a, <2>1, Zenon DEF Established, Loops
  <2>3. held # Null
    BY <1>a, <2>2 DEF Established, Loaded, Ready
  <2>4. pointer # Null /\ Served(pointer)
    BY <1>a, <2>3, Zenon DEF Base
  <2>5. Base'
    BY <1>a, <2>1, <2>4 DEF Base, Served, PublishesVersion, HasPipe
  <2>6. Established'
    BY <1>a, <2>1, <2>4, Zenon DEF Established
  <2>7. Answered'
    BY <1>a, <2>1, AnsweredKept DEF clocks
  <2>8. Flags'
    BY <1>a, <2>1, Zenon DEF Flags, clocks
  <2> QED  BY <2>5, <2>6, <2>7, <2>8, Zenon DEF EngineInv
<1>8. CASE \E g \in Loops : LoopFails(g) \/ LoopEnds(g)
  <2>1. PICK g \in Loops : LoopFails(g) \/ LoopEnds(g)
    BY <1>8
  <2>2. /\ loops[g] = "running" /\ loops' = [loops EXCEPT ![g] = "done"]
        /\ UNCHANGED <<pointer, dataset, boots, stage, exit, environ, signalled, held, clocks, req>>
    BY <2>1, Zenon DEF LoopFails, LoopEnds
  <2>3. stage \in Up
    BY <1>a, <2>2 DEF Established
  <2>4. loops' \in [Loops -> {"off", "running", "done"}]
    BY <1>b, <2>2
  <2>5. Base'
    BY <1>a, <1>b, <2>2, <2>4, BaseKept
  <2>6. Established' /\ Answered'
    BY <1>a, <2>2, <2>3, EstablishedKept, AnsweredKept DEF clocks
  <2>7. Flags'
    BY <1>a, <2>2, Zenon DEF Flags, clocks
  <2> QED  BY <2>5, <2>6, <2>7, Zenon DEF EngineInv
<1>9. CASE Shutdown \/ Tick
  <2>1. /\ stage \in {"serving", "draining", "waiting"}
        /\ stage' = "draining" \/ stage' = stage
        /\ timer' = 0 \/ timer' = timer + 1
        /\ UNCHANGED <<pointer, dataset, boots, exit, environ, signalled, held, loops, drained, req>>
    BY <1>9, Zenon DEF Shutdown, Tick
  <2>2. stage \in Up /\ stage' \in Up /\ (stage' = "waiting" => stage = "waiting") /\ stage' # "closing"
    BY <2>1 DEF Up
  <2>3. Base'
    BY <1>a, <1>b, <1>c, <2>1, <2>2, BaseKept
  <2>4. Established' /\ Answered'
    BY <1>a, <2>1, <2>2, EstablishedKept, AnsweredKept
  <2>5. Flags'
    BY <1>a, <2>1 DEF Flags
  <2> QED  BY <2>3, <2>4, <2>5, Zenon DEF EngineInv
<1>10. CASE Drained
  <2>1. /\ stage = "draining" /\ stage' = "waiting" /\ timer' = 0 /\ drained' = timer
        /\ (\A q \in Requests : req[q].phase # "resolving") \/ timer = DrainTicks
        /\ UNCHANGED <<pointer, dataset, boots, exit, environ, signalled, held, loops, req>>
    BY <1>10, Zenon DEF Drained
  <2>2. stage \in Up /\ stage' \in Up
    BY <2>1 DEF Up
  <2>3. Base'
    BY <1>a, <1>b, <1>c, <2>1, <2>2, BaseKept
  <2>4. Established'
    BY <1>a, <2>1, <2>2, EstablishedKept
  <2>5. Answered'
    <3>1. \A q \in Requests : ReqOK(req[q])'
      BY <1>a, <2>1, Zenon DEF Answered, ReqOK
    <3>2. timer = DrainTicks => Outlasted'
      BY <2>1, ProcessAssumption DEF Outlasted
    <3>3. Outlasted' \/ \A q \in Requests : req'[q].phase # "resolving"
      BY <2>1, <3>2, Zenon
    <3> QED  BY <3>1, <3>3, Zenon DEF Answered
  <2>6. Flags'
    BY <1>a, <2>1 DEF Flags
  <2> QED  BY <2>3, <2>4, <2>5, <2>6, Zenon DEF EngineInv
<1>11. CASE Exit \/ Close
  <2>1. CASE Close
    BY <2>1, EndsInv DEF Close
  <2>2. CASE Exit
    <3>1. /\ stage = "waiting" /\ stage' = "closing"
          /\ UNCHANGED <<pointer, dataset, boots, exit, environ, signalled, held, loops, clocks, req>>
      BY <2>2, Zenon DEF Exit
    <3>2. stage \in Up /\ stage' \in Up
      BY <3>1 DEF Up
    <3>3. Base'
      BY <1>a, <1>b, <1>c, <3>1, <3>2, BaseKept
    <3>4. Established' /\ Answered'
      BY <1>a, <3>1, <3>2, EstablishedKept, AnsweredKept DEF clocks
    <3>5. Flags'
      BY <1>a, <3>1, Zenon DEF Flags, clocks
    <3> QED  BY <3>3, <3>4, <3>5, Zenon DEF EngineInv
  <2> QED  BY <1>11, <2>1, <2>2
<1>12. CASE UNCHANGED vars
  <2>1. UNCHANGED <<pointer, dataset, boots, stage, exit, environ, signalled, held, loops, clocks, req>>
    BY <1>12, Zenon DEF vars
  <2>2. Base'
    BY <1>a, <1>b, <2>1, BaseKept
  <2>3. Established' /\ Answered'
    BY <1>a, <2>1, EstablishedKept, AnsweredKept DEF clocks
  <2>4. Flags'
    BY <1>a, <2>1, Zenon DEF Flags, clocks
  <2> QED  BY <2>2, <2>3, <2>4, Zenon DEF EngineInv
<1> QED  BY <1>1, <1>2, <1>3, <1>4, <1>5, <1>6, <1>7, <1>8, <1>9, <1>10, <1>11, <1>12, Zenon DEF Next, LoopStep

(* main.go, handler.go and the loader's holder, taken together: at every stage the
   process has what the stage relies on. *)
THEOREM EngineInvCorrect == Spec => []EngineInv
  BY EngineInit, EngineStep, PTL DEF Spec

(* The holder is filled before the listener is bound (main.go:208-225). *)
THEOREM EngineTypesCorrect == Spec => []TypeOK
<1>1. EngineInv => TypeOK
  <2> SUFFICES ASSUME EngineInv  PROVE TypeOK
    OBVIOUS
  <2>1. stage \in {"down", "start", "serving", "draining", "waiting", "closing", "exited"} \cup Range(BootStages)
    BY StagesAre DEF EngineInv, Base, Ready, Up
  <2>2. held \in Versions \cup (IF stage \in {"start", "serving", "draining", "waiting", "closing"} THEN {} ELSE {Null})
    BY DEF EngineInv, Base, Established, Loaded, Ready, Up, Served
  <2>3. pointer \in Versions \cup {Null}
    BY DEF EngineInv, Base, Served
  <2>4. \A q \in Requests : req[q].phase \in {"none", "resolving", "attempt", "over"}
    BY DEF EngineInv, Base, Reqs, Phases
  <2> QED  BY <2>1, <2>2, <2>3, <2>4 DEF EngineInv, Base, Flags, TypeOK
<1> QED  BY <1>1, EngineInvCorrect, PTL

(* No request meets a 500 or a 503 (handler.go:214-256). *)
THEOREM NoInternalErrorCorrect == Spec => []NoInternalError
<1>1. EngineInv => NoInternalError
  BY Zenon DEF EngineInv, Answered, ReqOK, NoInternalError
<1> QED  BY <1>1, EngineInvCorrect, PTL

(* An orderly stop leaves a handler without an answer only when the drain has had its
   whole time (main.go:405-412): a handler that still resolves at the end was there
   when the drain returned, for none is taken on after it began. *)
THEOREM NoHandlerCutCorrect == Spec => []NoHandlerCut
<1>1. EngineInv => NoHandlerCut
  BY DEF EngineInv, Answered, ReqOK, NoHandlerCut
<1> QED  BY <1>1, EngineInvCorrect, PTL

(* A trigger answered with status running is one the runner takes
   (runner.go:294-319). *)
THEOREM AcceptedTriggersRunCorrect == Spec => []AcceptedTriggersRun
<1>1. EngineInv => AcceptedTriggersRun
  <2> SUFFICES ASSUME EngineInv, NEW q \in Requests, req[q].answer = "200"
               PROVE  /\ validateTrigger(Typed(req[q].in))
                      /\ ~ComputeFails(req[q].version, Typed(req[q].in).entity, Typed(req[q].in).source)
    BY Zenon DEF AcceptedTriggersRun, Accepted
  <2>1. /\ DecodeRequest(req[q].in) = "ok"
        /\ ~ComputeFails(req[q].version, Typed(req[q].in).entity, Typed(req[q].in).source)
    BY Zenon DEF EngineInv, Answered, ReqOK
  <2> QED  BY <2>1, DecodedIs, Zenon DEF validateTrigger, WindowOrdered
<1> QED  BY <1>1, EngineInvCorrect, PTL

(* No goroutine and no attempt runs before both tables exist (main.go:181-185). *)
THEOREM TablesBeforeWritersCorrect == Spec => []TablesBeforeWriters
<1>1. EngineInv => TablesBeforeWriters
  <2> SUFFICES ASSUME EngineInv,
                      (\E g \in Loops : loops[g] = "running") \/ (\E q \in Requests : req[q].phase = "attempt")
               PROVE  Tables \subseteq dataset
    BY Zenon DEF TablesBeforeWriters
  <2>1. stage \in Up
    BY DEF EngineInv, Established
  <2> QED  BY <2>1 DEF EngineInv, Established, Ensured1, Ensured2, Loaded, Ready, Tables
<1> QED  BY <1>1, EngineInvCorrect, PTL

(* What the handler has checked of a trigger it answered with status running
   (handler.go:196-232). *)
LEMMA AcceptedReq ==
    ASSUME NEW r, ReqOK(r), r.answer = "200"
    PROVE  \E in \in Inputs, v \in Versions :
               /\ in = r.in /\ v = r.version
               /\ DecodeRequest(in) = "ok" /\ ~WindowPanics(Typed(in))
               /\ ~ComputeFails(v, Typed(in).entity, Typed(in).source)
<1>1. /\ r.in \in Inputs /\ r.version \in Versions
      /\ DecodeRequest(r.in) = "ok" /\ ~WindowPanics(Typed(r.in))
      /\ ~ComputeFails(r.version, Typed(r.in).entity, Typed(r.in).source)
  BY Zenon DEF ReqOK
<1> QED  BY <1>1, Zenon

(* The formula on two accepted triggers (execution_id.go:54-79). *)
LEMMA SameIdentity ==
    ASSUME NEW r, ReqOK(r), r.answer = "200", NEW s, ReqOK(s), s.answer = "200",
           ExecutionID(r.version, Typed(r.in)) = ExecutionID(s.version, Typed(s.in))
    PROVE  Typed(r.in) = Typed(s.in) /\ r.version = s.version
<1>1. PICK in \in Inputs, v \in Versions :
          /\ in = r.in /\ v = r.version
          /\ DecodeRequest(in) = "ok" /\ ~WindowPanics(Typed(in))
          /\ ~ComputeFails(v, Typed(in).entity, Typed(in).source)
  BY AcceptedReq, Zenon
<1>2. PICK in2 \in Inputs, v2 \in Versions :
          /\ in2 = s.in /\ v2 = s.version
          /\ DecodeRequest(in2) = "ok" /\ ~WindowPanics(Typed(in2))
          /\ ~ComputeFails(v2, Typed(in2).entity, Typed(in2).source)
  BY AcceptedReq, Zenon
<1>3. ExecutionID(v, Typed(in)) = ExecutionID(v2, Typed(in2))
  BY <1>1, <1>2, Zenon
<1>4. PICK t, u : t = Typed(in) /\ u = Typed(in2)
  BY Zenon
<1>5. /\ ~ComputeFails(v, t.entity, t.source) /\ ~ComputeFails(v2, u.entity, u.source)
      /\ ExecutionID(v, t) = ExecutionID(v2, u)
  BY <1>1, <1>2, <1>3, <1>4, Zenon
<1>6. t = u /\ v = v2
  BY <1>1, <1>2, <1>4, <1>5, IdentitySplits
<1> QED  BY <1>1, <1>2, <1>4, <1>6, Zenon

(* Two accepted triggers with one execution_id ask for the same thing: nothing the
   formula joins can be taken for its neighbour (execution_id.go:54-79). *)
THEOREM IdentityInjectiveCorrect == Spec => []IdentityInjective
<1>1. EngineInv => IdentityInjective
  <2> SUFFICES ASSUME EngineInv, NEW q \in Requests, NEW r \in Requests,
                      req[q].answer = "200", req[r].answer = "200",
                      ExecutionID(req[q].version, Typed(req[q].in)) = ExecutionID(req[r].version, Typed(req[r].in))
               PROVE  Typed(req[q].in) = Typed(req[r].in) /\ req[q].version = req[r].version
    BY Zenon DEF IdentityInjective, Accepted
  <2>1. ReqOK(req[q]) /\ ReqOK(req[r])
    BY Zenon DEF EngineInv, Answered
  <2> QED  BY <2>1, SameIdentity, Zenon
<1> QED  BY <1>1, EngineInvCorrect, PTL

(* A step other than Boot leaves the environment as it is, and passes readEnv only
   with one that readEnv takes. *)
LEMMA ConfiguredStep == EngineInv /\ Configured /\ [Next]_vars => Configured'
<1> SUFFICES ASSUME EngineInv, Configured, [Next]_vars  PROVE Configured'
  OBVIOUS
<1>1. ASSUME environ' = environ,
             \/ stage' = stage \/ stage' \in {"down", "exited"}
             \/ stage \notin {"down", "exited", "readEnv"}
             \/ stage = "readEnv" /\ EnvReadable
      PROVE  Configured'
  <2>1. EnvReadable' <=> EnvReadable
    BY <1>1, Zenon DEF EnvReadable, Config
  <2> QED  BY <2>1, <1>1 DEF Configured
<1>2. CASE Boot
  <2>1. stage' = "readEnv" /\ environ' \in Environments
    BY <1>2 DEF Boot, BootStages
  <2> QED  BY <2>1 DEF Configured
<1>3. CASE Configure
  BY <1>1, <1>3 DEF Configure, Ends
<1>4. CASE BootStep /\ ~Configure
  <2>1. environ' = environ /\ stage \notin {"down", "exited", "readEnv"}
    BY <1>4, Zenon DEF BootStep, NewClient, EnsureView, Load, BuildRunners, Ensure, VerifyRegistry, StartLoops, Tables
  <2> QED  BY <1>1, <2>1
<1>5. CASE (\E v \in Versions : Publish(v)) \/ Crash \/ Signal
  BY <1>1, <1>5, Zenon DEF Publish, Crash, Signal, Ends
<1>6. CASE RequestStep
  <2>1. environ' = environ /\ stage' = stage
    BY <1>6, Zenon DEF RequestStep, HandleTrigger, Resolve, AttemptEnds
  <2> QED  BY <1>1, <2>1
<1>7. CASE LoopStep
  BY <1>1, <1>7, Zenon DEF LoopStep, Refresh, LoopFails, LoopEnds
<1>8. CASE Shutdown \/ Tick \/ Drained \/ Exit \/ Close
  BY <1>1, <1>8, Zenon DEF Shutdown, Tick, Drained, Exit, Close, Ends
<1>9. CASE UNCHANGED vars
  BY <1>1, <1>9 DEF vars
<1> QED  BY <1>2, <1>3, <1>4, <1>5, <1>6, <1>7, <1>8, <1>9 DEF Next

(* Past readEnv the environment is readable (main.go:110-140). *)
THEOREM ConfiguredCorrect == Spec => []Configured
<1>1. Init => Configured
  BY DEF Init, Configured
<1> QED  BY <1>1, ConfiguredStep, EngineInvCorrect, PTL DEF Spec

(* A logger's level is that of the longest entry of DQ_LOG_LEVELS that is a prefix of
   its component at dot boundaries, else root's (handler.go:141-156). *)
THEOREM LongestPrefixWinsCorrect == Spec => []LongestPrefixWins
<1>1. Configured => LongestPrefixWins
  <2> DEFINE Root == RootLevel(LogMap, Levels[Config.level])
             Entries(c) == {p \in DOMAIN LogMap : c # <<>> /\ Covers(p, c)}
  <2> SUFFICES ASSUME Configured, Alive, stage # "readEnv", NEW c \in Components
               PROVE  IF Entries(c) = {}
                      THEN resolveLevel(LogMap, Root, c) = Root
                      ELSE \E p \in Entries(c) : /\ \A o \in Entries(c) : Len(o) <= Len(p)
                                                 /\ resolveLevel(LogMap, Root, c) = LogMap[p]
    BY Zenon DEF LongestPrefixWins
  <2>7. PICK levels, root, entries : levels = LogMap /\ root = Root /\ entries = Entries(c)
    BY Zenon
  <2>8. entries = {p \in DOMAIN levels : c # <<>> /\ Covers(p, c)}
    BY <2>7, Zenon
  <2> HIDE DEF Root, Entries
  <2>1. EnvReadable /\ environ \in Environments
    BY DEF Configured, Alive
  <2>2. \A p \in DOMAIN levels : p \in Seq(STRING) /\ p # <<>>
    <3>1. environ.pairs \in Seq(PairType)
      BY <2>1, InputsAssumption
    <3>2. ASSUME NEW i \in DOMAIN environ.pairs
          PROVE  environ.pairs[i].pkg \in Seq(STRING) /\ environ.pairs[i].pkg # <<>>
      <4>1. environ.pairs[i] \in PairType
        BY <3>1
      <4>2. PairParses(environ.pairs[i])
        BY <2>1, Zenon DEF EnvReadable, LogLevelsParse
      <4> QED  BY <4>1, <4>2 DEF PairType, PairParses
    <3>3. DOMAIN levels = {environ.pairs[i].pkg : i \in DOMAIN environ.pairs}
      BY <2>7, Zenon DEF LogMap, ParseLogLevels
    <3> QED  BY <3>2, <3>3
  <2>3. c \in Seq(STRING)
    BY InputsAssumption
  <2>4. PICK found : found = {k \in 1 .. Len(c) : SubSeq(c, 1, k) \in DOMAIN levels}
    BY Zenon
  <2>9. /\ \A p \in DOMAIN levels : Covers(p, c) =>
              Len(p) \in 1 .. Len(c) /\ SubSeq(c, 1, Len(p)) = p
        /\ \A k \in 1 .. Len(c) : SubSeq(c, 1, k) \in DOMAIN levels =>
              Covers(SubSeq(c, 1, k), c) /\ Len(SubSeq(c, 1, k)) = k
    BY <2>2, <2>3, EntriesAre, Zenon
  <2>10. ASSUME NEW p \in entries
         PROVE  Len(p) \in found /\ SubSeq(c, 1, Len(p)) = p
    BY <2>4, <2>8, <2>9, Zenon
  <2>11. ASSUME NEW k \in found
         PROVE  SubSeq(c, 1, k) \in entries /\ Len(SubSeq(c, 1, k)) = k
    <3>1. k \in 1 .. Len(c) /\ SubSeq(c, 1, k) \in DOMAIN levels
      BY <2>4
    <3>2. c # <<>>
      BY <3>1, <2>3
    <3> QED  BY <2>8, <2>9, <3>1, <3>2
  <2>6. \/ found = {} /\ resolveLevel(levels, root, c) = root
        \/ \E k \in found : /\ \A j \in found : j <= k
                            /\ resolveLevel(levels, root, c) = levels[SubSeq(c, 1, k)]
    BY <2>3, <2>4, ResolveLevelIs
  <2>12. CASE found = {}
    <3>1. entries = {} /\ resolveLevel(levels, root, c) = root
      BY <2>6, <2>10, <2>12
    <3> QED  BY <3>1, <2>7
  <2>13. CASE found # {}
    <3>1. PICK k \in found : /\ \A j \in found : j <= k
                             /\ resolveLevel(levels, root, c) = levels[SubSeq(c, 1, k)]
      BY <2>6, <2>13
    <3>2. PICK p : p = SubSeq(c, 1, k)
      BY Zenon
    <3>3. p \in entries /\ Len(p) = k /\ resolveLevel(levels, root, c) = levels[p]
      BY <2>11, <3>1, <3>2, Zenon
    <3>4. \A o \in entries : Len(o) <= Len(p)
      BY <2>10, <3>1, <3>3
    <3> QED  BY <3>3, <3>4, <2>7
  <2> QED  BY <2>12, <2>13, Zenon
<1> QED  BY <1>1, ConfiguredCorrect, PTL

-----------------------------------------------------------------------------
(* One answer a request. *)

(* A handler that still resolves has answered nothing; an attempt runs only for a
   trigger answered with status running. *)
OneAnswer ==
    \A q \in Requests : /\ req[q].phase = "resolving" => req[q].answer = Null
                        /\ req[q].phase = "attempt" => req[q].answer = "200"

(* What a client was told stands, with what it asked and the version its
   execution_id was computed from; a request that is over stays so. *)
AnswersFinal ==
    \A q \in Requests :
        /\ req[q].answer # Null => /\ req'[q].answer = req[q].answer
                                   /\ req'[q].in = req[q].in /\ req'[q].version = req[q].version
        /\ req[q].phase = "over" => req'[q] = req[q]

(* What one step makes of a request, seen by itself. *)
Advances(r, s) ==
    \/ s = r
    \/ r = Unserved /\ s.phase \in {"resolving", "over"} /\ (s.phase = "resolving" => s.answer = Null)
    \/ r.phase = "resolving" /\ (s.phase = "over" \/ (s.phase = "attempt" /\ s.answer = "200"))
    \/ /\ r.phase = "attempt" /\ s.phase = "over" /\ s.answer = r.answer
       /\ s.in = r.in /\ s.version = r.version

(* HandleTrigger leaves the request with the handler, or refuses it. *)
LEMMA HandlerAdvances ==
    ASSUME NEW q \in Requests, NEW in, req \in [Requests -> Reqs], HandleTrigger(q, in)
    PROVE  \A x \in Requests : Advances(req[x], req'[x])
<1>1. PICK s : /\ req' = [req EXCEPT ![q] = s] /\ req[q] = Unserved
               /\ \/ s = [phase |-> "resolving", in |-> in, version |-> held, answer |-> Null]
                  \/ \E answer : s = [Unserved EXCEPT !.phase = "over", !.answer = answer]
  BY Zenon DEF HandleTrigger
<1>2. s.phase \in {"resolving", "over"} /\ (s.phase = "resolving" => s.answer = Null)
  <2>1. CASE s = [phase |-> "resolving", in |-> in, version |-> held, answer |-> Null]
    BY <2>1
  <2>2. ASSUME NEW answer, s = [Unserved EXCEPT !.phase = "over", !.answer = answer]
        PROVE  s.phase = "over"
    BY <2>2 DEF Unserved
  <2> QED  BY <1>1, <2>1, <2>2, Zenon
<1>3. \A x \in Requests : req'[x] = IF x = q THEN s ELSE req[x]
  <2>1. req' = [req EXCEPT ![q] = s]
    BY <1>1, Zenon
  <2> QED  BY <2>1
<1> QED  BY <1>1, <1>2, <1>3, Zenon DEF Advances

(* resolveChecks and the go statement; the end of the attempt. *)
LEMMA ResolveAdvances ==
    ASSUME NEW q \in Requests, req \in [Requests -> Reqs],
           (\E read \in BOOLEAN : Resolve(q, read)) \/ AttemptEnds(q)
    PROVE  \A x \in Requests : Advances(req[x], req'[x])
<1>1. req[q] \in Reqs
  OBVIOUS
<1>2. ASSUME NEW read \in BOOLEAN, Resolve(q, read)
      PROVE  \A x \in Requests : Advances(req[x], req'[x])
  <2>1. PICK found : found = (Typed(req[q].in).entity \in EntitiesOf[held])
    BY Zenon
  <2>2. PICK phase, answer : /\ phase = IF read /\ found THEN "attempt" ELSE "over"
                             /\ answer = IF ~found THEN "404" ELSE IF read THEN "200" ELSE "502"
    BY Zenon
  <2>3. req' = [req EXCEPT ![q].phase = phase, ![q].answer = answer] /\ req[q].phase = "resolving"
    BY <1>2, <2>1, <2>2, Zenon DEF Resolve
  <2>4. phase = "over" \/ (phase = "attempt" /\ answer = "200")
    BY <2>2, Zenon
  <2>5. PICK s : s = [req[q] EXCEPT !.phase = phase, !.answer = answer]
    BY Zenon
  <2>6. req' = [req EXCEPT ![q] = s]
    BY <2>3, <2>5, Zenon
  <2>7. s.phase = phase /\ s.answer = answer
    BY <1>1, <2>5, Zenon DEF Reqs
  <2>8. \A x \in Requests : req'[x] = IF x = q THEN s ELSE req[x]
    BY <2>6
  <2> QED  BY <2>3, <2>4, <2>7, <2>8, Zenon DEF Advances
<1>3. CASE AttemptEnds(q)
  <2>1. PICK s : s = [req[q] EXCEPT !.phase = "over"]
    BY Zenon
  <2>2. req' = [req EXCEPT ![q] = s] /\ req[q].phase = "attempt"
    BY <1>3, <2>1, Zenon DEF AttemptEnds
  <2>3. s.phase = "over" /\ s.answer = req[q].answer /\ s.in = req[q].in /\ s.version = req[q].version
    BY <1>1, <2>1, Zenon DEF Reqs
  <2>4. \A x \in Requests : req'[x] = IF x = q THEN s ELSE req[x]
    BY <2>2
  <2> QED  BY <2>2, <2>3, <2>4, Zenon DEF Advances
<1> QED  BY <1>2, <1>3, Zenon

(* The end of the process: main returns, fails its boot or is killed. *)
LEMMA EndsAdvances ==
    ASSUME NEW code, req \in [Requests -> Reqs], req' = Abandoned(code)
    PROVE  \A x \in Requests : Advances(req[x], req'[x])
<1> TAKE x \in Requests
<1>1. req[x] \in Reqs
  OBVIOUS
<1>2. req'[x] = CASE req[x].phase = "resolving" ->
                      [req[x] EXCEPT !.phase = "over", !.answer = IF code = 0 /\ drained < DrainTicks THEN "cut" ELSE "lost"]
                  [] req[x].phase = "attempt" -> [req[x] EXCEPT !.phase = "over"]
                  [] OTHER -> req[x]
  BY Zenon DEF Abandoned
<1>3. CASE req[x].phase = "resolving"
  <2>1. PICK answer : answer = IF code = 0 /\ drained < DrainTicks THEN "cut" ELSE "lost"
    BY Zenon
  <2>2. req'[x] = [req[x] EXCEPT !.phase = "over", !.answer = answer]
    BY <1>2, <1>3, <2>1, Zenon
  <2>3. req'[x].phase = "over"
    BY <1>1, <2>2, Zenon DEF Reqs
  <2> QED  BY <1>3, <2>3, Zenon DEF Advances
<1>4. CASE req[x].phase = "attempt"
  <2>1. req'[x] = [req[x] EXCEPT !.phase = "over"]
    BY <1>2, <1>4, Zenon
  <2>2. /\ req'[x].phase = "over" /\ req'[x].answer = req[x].answer
        /\ req'[x].in = req[x].in /\ req'[x].version = req[x].version
    BY <1>1, <2>1, Zenon DEF Reqs
  <2> QED  BY <1>4, <2>2, Zenon DEF Advances
<1>5. CASE req[x].phase \notin {"resolving", "attempt"}
  BY <1>2, <1>5, Zenon DEF Advances
<1> QED  BY <1>3, <1>4, <1>5, Zenon

(* Every step of the process, its end included. *)
LEMMA RequestsAdvance ==
    ASSUME EngineInv, [Next]_vars
    PROVE  \A x \in Requests : Advances(req[x], req'[x])
<1>1. req \in [Requests -> Reqs]
  BY Zenon DEF EngineInv, Base
<1>2. CASE UNCHANGED req
  BY <1>2, Zenon DEF Advances
<1>3. ASSUME NEW code, Ends(code)  PROVE \A x \in Requests : Advances(req[x], req'[x])
  <2>1. req' = Abandoned(code)
    BY <1>3, Zenon DEF Ends
  <2> QED  BY <1>1, <2>1, EndsAdvances, Zenon
<1>4. CASE BootStep
  <2>1. UNCHANGED req \/ Ends(1) \/ Ends(2)
    BY <1>4, Zenon DEF BootStep, Configure, NewClient, Ensure, EnsureView, Load, VerifyRegistry,
                       BuildRunners, StartLoops, Passes
  <2> QED  BY <1>2, <1>3, <2>1, Zenon
<1>5. CASE Crash \/ Close
  <2>1. Ends(137) \/ Ends(0)
    BY <1>5, Zenon DEF Crash, Close
  <2> QED  BY <1>3, <2>1, Zenon
<1>6. CASE RequestStep
  BY <1>1, <1>6, HandlerAdvances, ResolveAdvances, Zenon DEF RequestStep
<1>7. CASE LoopStep
  <2>1. UNCHANGED req
    BY <1>7, Zenon DEF LoopStep, Refresh, LoopFails, LoopEnds
  <2> QED  BY <1>2, <2>1
<1>8. CASE (\E v \in Versions : Publish(v)) \/ Boot \/ Signal \/ Shutdown \/ Tick \/ Drained \/ Exit
  <2>1. UNCHANGED req
    BY <1>8, Zenon DEF Publish, Boot, Signal, Shutdown, Tick, Drained, Exit
  <2> QED  BY <1>2, <2>1
<1>9. CASE UNCHANGED vars
  <2>1. UNCHANGED req
    BY <1>9, Zenon DEF vars
  <2> QED  BY <1>2, <2>1
<1> QED  BY <1>4, <1>5, <1>6, <1>7, <1>8, <1>9, Zenon DEF Next

(* The answer and the go statement of HandleTrigger come together, after
   resolveChecks (handler.go:260-309). *)
THEOREM OneAnswerCorrect == Spec => []OneAnswer
<1>1. Init => OneAnswer
  <2>1. Unserved.phase = "none"
    BY DEF Unserved
  <2> QED  BY <2>1, Zenon DEF Init, OneAnswer
<1>2. ASSUME EngineInv, OneAnswer, [Next]_vars  PROVE OneAnswer'
  <2> SUFFICES ASSUME NEW q \in Requests
               PROVE  /\ req'[q].phase = "resolving" => req'[q].answer = Null
                      /\ req'[q].phase = "attempt" => req'[q].answer = "200"
    BY Zenon DEF OneAnswer
  <2>1. Advances(req[q], req'[q])
    BY <1>2, RequestsAdvance, Zenon
  <2> QED  BY <1>2, <2>1, Zenon DEF OneAnswer, Advances
<1> QED  BY <1>1, <1>2, EngineInvCorrect, PTL DEF Spec

(* No step of a handler, an attempt, a shutdown, a kill or a restart changes an
   answer that was given, or what the execution_id in it was computed from
   (handler.go:200-309, main.go:401-427). *)
THEOREM AnswersFinalCorrect == Spec => [][AnswersFinal]_vars
<1>1. ASSUME EngineInv, OneAnswer, [Next]_vars  PROVE AnswersFinal
  <2> SUFFICES ASSUME NEW q \in Requests
               PROVE  /\ req[q].answer # Null => /\ req'[q].answer = req[q].answer
                                                 /\ req'[q].in = req[q].in /\ req'[q].version = req[q].version
                      /\ req[q].phase = "over" => req'[q] = req[q]
    BY Zenon DEF AnswersFinal
  <2>1. Advances(req[q], req'[q]) /\ (req[q].phase = "resolving" => req[q].answer = Null)
    BY <1>1, RequestsAdvance, Zenon DEF OneAnswer
  <2>2. Unserved.phase = "none" /\ Unserved.answer = Null
    BY DEF Unserved
  <2> QED  BY <2>1, <2>2, Zenon DEF Advances
<1> QED  BY <1>1, OneAnswerCorrect, EngineInvCorrect, PTL DEF Spec
=============================================================================
