---------------------------- MODULE AccessProofs ----------------------------
(***************************************************************************)
(* Proofs about Sessions, for any number of browsers and requests, about   *)
(* TeamMembers, for any number of members and calls, and about ApiKeys,    *)
(* for words of any number of bits.                                        *)
(***************************************************************************)
EXTENDS Sessions, TeamMembers, ApiKeys, TLAPS

-----------------------------------------------------------------------------
(* Sessions: the inductive invariant.  A session that never had two         *)
(* requests at once is in one of a few situations, named by the step its    *)
(* one request is at; in each of them at most one of its tokens is alive,   *)
(* and it is known which one.  A cookie and a request carry tokens of the   *)
(* browser they belong to.                                                  *)

Alive(s) == alive \intersect TokensOf(s)

OneAtATime(s) == \A p, q \in Posts : WorksOn(p, s) /\ WorksOn(q, s) => p = q

\* What is left to a request of an ended session: a logout once more, or a
\* refresh that will be refused.
LoggedOut(s) == s \in out =>
    /\ Alive(s) = {}
    /\ \A p \in Posts : WorksOn(p, s) => post[p].op = "logout" \/ post[p].pc = "get"

AtRest(s) ==
    (\A p \in Posts : ~WorksOn(p, s)) =>
        \A b \in Browsers : cookie[b] \in TokensOf(s) => Alive(s) \subseteq {cookie[b]}

OnItsWay(p, s) ==
    /\ Alive(s) \subseteq {post[p].t}
    /\ post[p].pc = "issue" \/ (post[p].op = "logout" /\ post[p].pc = "reply") => Alive(s) = {}
    /\ post[p].pc \in {"get", "del"} =>
          \A b \in Browsers : cookie[b] \in TokensOf(s) => cookie[b] = post[p].t
    /\ post[p].op = "login" => \A b \in Browsers : cookie[b] \notin TokensOf(s)

SessionOK(s) ==
    /\ \A t, u \in Alive(s) : t = u
    /\ OneAtATime(s) /\ LoggedOut(s) /\ AtRest(s)
    /\ \A p \in Posts : WorksOn(p, s) => OnItsWay(p, s)

FirstTokens ==
    /\ \A t \in 1..made : session[t][2] <= made
    /\ \A s \in out : s[2] <= made

Ours ==
    /\ \A b \in Browsers : cookie[b] # NoToken => session[cookie[b]][1] = b
    /\ \A p \in Posts : /\ post[p].t \in 0..made
                        /\ post[p].t # NoToken => session[post[p].t][1] = post[p].b

\* Which operations have which steps, and when they carry a token.
Sensible == \A p \in Posts :
    /\ post[p].pc = "get" => post[p].op = "refresh"
    /\ post[p].pc = "issue" => post[p].op # "logout" /\ (post[p].op = "login" => post[p].t = NoToken)
    /\ post[p].pc \in {"get", "del"} => post[p].t # NoToken /\ post[p].op # "login"
    /\ Running(p) /\ post[p].op = "refresh" => post[p].t # NoToken
    /\ post[p].pc = "reply" /\ post[p].op = "login" => post[p].t # NoToken

SessionsInv ==
    /\ SessionsTypeOK /\ FirstTokens /\ Ours /\ Sensible
    /\ \A s \in Sessions \ mixed : SessionOK(s)

-----------------------------------------------------------------------------
LEMMA InitSessions == SessionsInit => SessionsInv
<1> SUFFICES ASSUME SessionsInit PROVE SessionsInv
  OBVIOUS
<1> USE DEF SessionsInit
<1>1. (CHOOSE b \in Browsers : TRUE) \in Browsers
  BY SessionsAssumption
<1>2. SessionsTypeOK
  <2>1. session \in [1..made -> Sessions]
    OBVIOUS
  <2> QED
    BY <1>1, <2>1, SessionsAssumption DEF SessionsTypeOK, PostStates, NoPost, NoToken
<1>3. FirstTokens /\ Ours /\ Sensible
  BY DEF FirstTokens, Ours, Sensible, NoPost, NoToken, Running
<1>4. ASSUME NEW s \in Sessions PROVE SessionOK(s)
  BY DEF SessionOK, OneAtATime, LoggedOut, AtRest, WorksOn, TokensOf, Alive
<1> QED
  BY <1>2, <1>3, <1>4 DEF SessionsInv

\* A request that is not of session s leaves s as it is.
LEMMA OthersKeep ==
    ASSUME NEW s \in Sessions, SessionOK(s), NEW p \in Posts,
           TokensOf(s)' = TokensOf(s), Alive(s)' \subseteq Alive(s),
           \A b \in Browsers : cookie'[b] \in TokensOf(s) => cookie'[b] = cookie[b],
           s \in out' => s \in out,
           \A q \in Posts \ {p} : post'[q] = post[q],
           ~WorksOn(p, s), ~WorksOn(p, s)'
    PROVE  SessionOK(s)'
<1>1. \A q \in Posts : WorksOn(q, s)' <=> WorksOn(q, s)
  BY DEF WorksOn, Running
<1>2. \A q \in Posts : WorksOn(q, s) => post'[q] = post[q]
  OBVIOUS
<1>3. \A q \in Posts : WorksOn(q, s) => OnItsWay(q, s)'
  BY <1>2 DEF SessionOK, OnItsWay
<1>4. OneAtATime(s)' /\ LoggedOut(s)' /\ AtRest(s)'
  BY <1>1, <1>2 DEF SessionOK, OneAtATime, LoggedOut, AtRest
<1> QED
  BY <1>1, <1>3, <1>4 DEF SessionOK

\* The one request of session s takes a step and is still, or no longer, under way.
LEMMA OwnPost ==
    ASSUME NEW s \in Sessions, NEW p \in Posts,
           \A q \in Posts \ {p} : ~WorksOn(q, s)',
           \A t, u \in Alive(s)' : t = u,
           WorksOn(p, s)' => OnItsWay(p, s)',
           ~WorksOn(p, s)' =>
               \A b \in Browsers : cookie'[b] \in TokensOf(s)' => Alive(s)' \subseteq {cookie'[b]},
           s \in out' =>
               Alive(s)' = {} /\ (WorksOn(p, s)' => post'[p].op = "logout" \/ post'[p].pc = "get")
    PROVE  SessionOK(s)'
<1>1. \A q \in Posts : WorksOn(q, s)' => q = p
  OBVIOUS
<1> QED
  BY <1>1 DEF SessionOK, OneAtATime, LoggedOut, AtRest

\* A session that has a request with another joins mixed; one that has not
\* has this request only.
LEMMA SendKeeps ==
    ASSUME SessionsInv, NEW p \in Posts, NEW b \in Browsers,
           \/ LogIn(p, b) \/ StartRefresh(p, b) \/ StartLogout(p, b)
    PROVE  SessionsInv'
<1> USE DEF LogIn, StartRefresh, StartLogout
<1>1. SessionsTypeOK
  BY DEF SessionsInv
<1>2. PICK pc \in {"get", "del", "issue", "reply"}, op \in {"login", "refresh", "logout"},
           t \in {cookie[b], NoToken} :
         /\ Send(p, op, b, t, pc)
         /\ \/ op = "login" /\ t = NoToken /\ pc = "issue"
            \/ op = "refresh" /\ t = cookie[b] /\ t # NoToken /\ pc = "get"
            \/ op = "logout" /\ t = cookie[b] /\ t # NoToken /\ pc = "del"
            \/ op = "logout" /\ t = NoToken /\ pc = "reply"
  BY DEF NoToken
<1>3. /\ post' = [post EXCEPT ![p] = [pc |-> pc, op |-> op, b |-> b, t |-> t]]
      /\ post[p].pc = "idle" /\ UNCHANGED <<cookie, alive, session, made, out>>
      /\ mixed' = mixed \union {s \in Sessions : t \in TokensOf(s) /\ \E q \in Posts : WorksOn(q, s)}
  BY <1>2 DEF Send
<1>4. /\ post'[p].pc = pc /\ post'[p].b = b /\ post'[p].t = t /\ post'[p].op = op
      /\ \A q \in Posts \ {p} : post'[q] = post[q]
      /\ \A s \in Sessions : /\ ~WorksOn(p, s) /\ TokensOf(s)' = TokensOf(s) /\ Alive(s)' = Alive(s)
                             /\ t \in TokensOf(s) => session[t] = s /\ t \in 1..made
  BY <1>1, <1>3 DEF SessionsTypeOK, WorksOn, Running, Alive, TokensOf
<1>5. t \in 0..made /\ t \in Tokens \union {NoToken}
  BY <1>1, SessionsAssumption DEF SessionsTypeOK, NoToken, Tokens
<1>6. SessionsTypeOK'
  <2>1. [pc |-> pc, op |-> op, b |-> b, t |-> t] \in PostStates
    BY <1>5 DEF PostStates
  <2> QED
    BY <1>1, <1>3, <2>1 DEF SessionsTypeOK
<1>7. FirstTokens' /\ Ours' /\ Sensible'
  <2>1. FirstTokens'
    BY <1>3 DEF SessionsInv, FirstTokens
  <2>2. Ours'
    BY <1>1, <1>2, <1>3, <1>4, <1>5 DEF SessionsInv, Ours
  <2>3. Sensible'
    BY <1>2, <1>4 DEF SessionsInv, Sensible, Running
  <2> QED
    BY <2>1, <2>2, <2>3
<1>8. ASSUME NEW s \in Sessions \ mixed', t \notin TokensOf(s) PROVE SessionOK(s)'
  <2>1. SessionOK(s) /\ ~WorksOn(p, s)'
    BY <1>3, <1>4, <1>8 DEF SessionsInv, WorksOn
  <2> QED
    BY <1>3, <1>4, <2>1, OthersKeep
<1>9. ASSUME NEW s \in Sessions \ mixed', t \in TokensOf(s) PROVE SessionOK(s)'
  <2>1. SessionOK(s) /\ \A q \in Posts : ~WorksOn(q, s)
    BY <1>3, <1>9 DEF SessionsInv
  <2>2. t = cookie[b] /\ t # NoToken /\ pc \in {"get", "del"} /\ op # "login"
    BY <1>2, <1>4, <1>9 DEF NoToken
  <2>3. Alive(s) \subseteq {t} /\ \A c \in Browsers : cookie[c] \in TokensOf(s) => c = b
    <3>1. \A c \in Browsers : cookie[c] \in TokensOf(s) => c = session[cookie[c]][1]
      BY DEF SessionsInv, Ours, TokensOf, NoToken
    <3>2. \A c \in Browsers : cookie[c] \in TokensOf(s) => session[cookie[c]] = s
      BY DEF TokensOf
    <3> QED
      BY <1>9, <2>1, <2>2, <3>1, <3>2 DEF SessionOK, AtRest
  <2>4. OnItsWay(p, s)'
    BY <1>3, <1>4, <2>2, <2>3 DEF OnItsWay
  <2>5. \A q \in Posts \ {p} : ~WorksOn(q, s)'
    BY <1>4, <2>1 DEF WorksOn, Running
  <2>6. WorksOn(p, s)' /\ (s \in out' => Alive(s)' = {} /\ (op = "logout" \/ pc = "get"))
    BY <1>2, <1>3, <1>4, <1>9, <2>1, <2>2 DEF WorksOn, Running, SessionOK, LoggedOut
  <2> QED
    BY <1>4, <2>1, <2>4, <2>5, <2>6, OwnPost DEF SessionOK
<1> QED
  BY <1>6, <1>7, <1>8, <1>9 DEF SessionsInv

-----------------------------------------------------------------------------
\* The steps of a request under way
LEMMA GetTokenKeeps ==
    ASSUME SessionsInv, NEW p \in Posts, GetToken(p) PROVE SessionsInv'
<1>1. SessionsTypeOK /\ post[p] \in PostStates
  BY DEF SessionsInv, SessionsTypeOK
<1>2. /\ post[p].pc = "get" /\ post[p].op = "refresh" /\ post[p].t \in 1..made
      /\ UNCHANGED <<cookie, alive, session, made, out, mixed>>
      /\ post'[p].b = post[p].b /\ post'[p].t = post[p].t /\ post'[p].op = post[p].op
      /\ post' \in [Posts -> PostStates]
      /\ post'[p].pc = IF post[p].t \in alive THEN "del" ELSE "refused"
      /\ \A q \in Posts \ {p} : post'[q] = post[q]
  BY <1>1 DEF GetToken, PostGoes, SessionsTypeOK, PostStates, SessionsInv, Ours, Sensible, NoToken
<1>3. SessionsTypeOK' /\ FirstTokens' /\ Ours' /\ Sensible'
  <2>1. SessionsTypeOK' /\ FirstTokens'
    BY <1>1, <1>2 DEF SessionsInv, SessionsTypeOK, FirstTokens
  <2>2. Ours'
    BY <1>2 DEF SessionsInv, Ours
  <2>3. Sensible'
    BY <1>2 DEF SessionsInv, Sensible, Running, NoToken
  <2> QED
    BY <2>1, <2>2, <2>3
<1>4. \A s \in Sessions : TokensOf(s)' = TokensOf(s) /\ Alive(s)' = Alive(s)
  BY <1>2 DEF Alive, TokensOf
<1>5. ASSUME NEW s \in Sessions \ mixed, ~WorksOn(p, s) PROVE SessionOK(s)'
  <2>1. SessionOK(s) /\ ~WorksOn(p, s)'
    BY <1>2, <1>4, <1>5 DEF SessionsInv, WorksOn, Running
  <2> QED
    BY <1>2, <1>4, <1>5, <2>1, OthersKeep
<1>6. ASSUME NEW s \in Sessions \ mixed, WorksOn(p, s) PROVE SessionOK(s)'
  <2>1. SessionOK(s)
    BY DEF SessionsInv
  <2>2. /\ \A q \in Posts \ {p} : ~WorksOn(q, s)'
        /\ OnItsWay(p, s) /\ (s \in out => Alive(s) = {})
    BY <1>2, <1>4, <1>6, <2>1 DEF SessionOK, OneAtATime, LoggedOut, WorksOn, Running
  <2>3. OnItsWay(p, s)'
    BY <1>2, <1>4, <2>2 DEF OnItsWay
  <2>4. s \in out' => ~WorksOn(p, s)'
    BY <1>2, <1>4, <1>6, <2>2 DEF WorksOn, Running, Alive
  <2>5. \A b \in Browsers : cookie'[b] \in TokensOf(s)' => Alive(s)' \subseteq {cookie'[b]}
    BY <1>2, <1>4, <2>2 DEF OnItsWay
  <2>6. (\A t, u \in Alive(s)' : t = u) /\ (s \in out' => Alive(s)' = {})
    BY <1>2, <1>4, <2>1, <2>2 DEF SessionOK
  <2> QED
    BY <2>2, <2>3, <2>4, <2>5, <2>6, OwnPost
<1> QED
  <2>1. mixed' = mixed
    BY <1>2
  <2> QED
    BY <2>1, <1>3, <1>5, <1>6 DEF SessionsInv

LEMMA DelTokenKeeps ==
    ASSUME SessionsInv, NEW p \in Posts, DelToken(p) PROVE SessionsInv'
<1>1. /\ SessionsTypeOK /\ post[p] \in PostStates
      /\ post[p].pc = "del" /\ post[p].op \in {"refresh", "logout"} /\ post[p].t \in 1..made
  BY DEF SessionsInv, SessionsTypeOK, PostStates, DelToken, Ours, Sensible, NoToken
<1>2. /\ post[p].pc = "del" /\ post[p].op \in {"refresh", "logout"} /\ post[p].t \in 1..made
      /\ alive' = alive \ {post[p].t} /\ UNCHANGED <<cookie, session, made, mixed>>
      /\ post'[p].b = post[p].b /\ post'[p].t = post[p].t /\ post'[p].op = post[p].op
      /\ post' \in [Posts -> PostStates]
      /\ \A q \in Posts \ {p} : post'[q] = post[q]
      /\ \/ post'[p].pc = "issue" /\ post[p].op = "refresh" /\ out' = out
         \/ post'[p].pc = "reply" /\ post[p].op = "logout" /\ out' = out \union {session[post[p].t]}
  <2>1. PICK pc \in {"issue", "reply"} :
           /\ post' = [post EXCEPT ![p].pc = pc]
           /\ \/ pc = "issue" /\ post[p].op = "refresh" /\ out' = out
              \/ pc = "reply" /\ post[p].op = "logout" /\ out' = out \union {session[post[p].t]}
    BY <1>1 DEF DelToken, PostGoes
  <2>2. /\ post'[p].b = post[p].b /\ post'[p].t = post[p].t /\ post'[p].op = post[p].op
        /\ post'[p].pc = pc /\ post' \in [Posts -> PostStates]
        /\ \A q \in Posts \ {p} : post'[q] = post[q]
    BY <1>1, <2>1 DEF SessionsTypeOK, PostStates
  <2>3. alive' = alive \ {post[p].t} /\ UNCHANGED <<cookie, session, made, mixed>>
    BY DEF DelToken
  <2> QED
    BY <1>1, <2>1, <2>2, <2>3
<1>3. SessionsTypeOK' /\ FirstTokens' /\ Ours' /\ Sensible'
  <2>1. SessionsTypeOK' /\ FirstTokens'
    BY <1>1, <1>2 DEF SessionsInv, SessionsTypeOK, FirstTokens
  <2>2. Ours'
    BY <1>2 DEF SessionsInv, Ours
  <2>3. Sensible'
    BY <1>2 DEF SessionsInv, Sensible, Running, NoToken
  <2> QED
    BY <2>1, <2>2, <2>3
<1>4. \A s \in Sessions : TokensOf(s)' = TokensOf(s) /\ Alive(s)' = Alive(s) \ {post[p].t}
  BY <1>2 DEF Alive, TokensOf
<1>5. ASSUME NEW s \in Sessions \ mixed, ~WorksOn(p, s) PROVE SessionOK(s)'
  <2>1. SessionOK(s) /\ ~WorksOn(p, s)' /\ (s \in out' => s \in out)
    BY <1>2, <1>4, <1>5 DEF SessionsInv, WorksOn, Running, TokensOf
  <2> QED
    BY <1>2, <1>4, <1>5, <2>1, OthersKeep
<1>6. ASSUME NEW s \in Sessions \ mixed, WorksOn(p, s) PROVE SessionOK(s)'
  <2>1. SessionOK(s)
    BY DEF SessionsInv
  <2>2. /\ \A q \in Posts \ {p} : ~WorksOn(q, s)'
        /\ OnItsWay(p, s) /\ (s \in out => post[p].op = "logout")
    BY <1>2, <1>4, <1>6, <2>1 DEF SessionOK, OneAtATime, LoggedOut, WorksOn, Running
  <2>3. Alive(s)' = {}
    BY <1>4, <2>2 DEF OnItsWay
  <2>4. OnItsWay(p, s)'
    BY <1>2, <2>3 DEF OnItsWay
  <2>5. s \in out' => post'[p].op = "logout"
    BY <1>2, <2>2
  <2> QED
    BY <2>2, <2>3, <2>4, <2>5, OwnPost
<1> QED
  <2>1. mixed' = mixed
    BY <1>2
  <2> QED
    BY <2>1, <1>3, <1>5, <1>6 DEF SessionsInv

\* A new token is of its request's session only, or of one that begins with
\* it, and it is the only one alive there.
LEMMA IssueTokensKeeps ==
    ASSUME SessionsInv, NEW p \in Posts, IssueTokens(p) PROVE SessionsInv'
<1>1. /\ SessionsTypeOK /\ post[p] \in PostStates /\ made + 1 \in Tokens /\ made \in Nat
      /\ post[p].pc = "issue" /\ post[p].op \in {"login", "refresh"}
      /\ post[p].op = "refresh" => post[p].t \in 1..made
      /\ post[p].op = "login" => post[p].t = NoToken
  BY SessionsAssumption
     DEF SessionsInv, SessionsTypeOK, PostStates, IssueTokens, Tokens, Ours, Sensible, Running, NoToken
<1>2. PICK own \in Sessions :
         /\ own = IF post[p].op = "login" THEN <<post[p].b, made + 1>> ELSE session[post[p].t]
         /\ own[1] = post[p].b /\ own[2] \in Nat /\ own[2] <= made + 1
  <2>1. CASE post[p].op = "login"
    <3>1. <<post[p].b, made + 1>> \in Sessions
      BY <1>1 DEF Sessions, PostStates
    <3> QED
      BY <1>1, <2>1, <3>1
  <2>2. CASE post[p].op = "refresh"
    <3>1. PICK own \in Sessions : own = session[post[p].t]
      BY <1>1, <2>2 DEF SessionsTypeOK
    <3>2. own[2] \in Nat
      BY SessionsAssumption DEF Sessions, Tokens
    <3>3. own[1] = post[p].b /\ own[2] <= made
      BY <1>1, <2>2, <3>1 DEF SessionsInv, FirstTokens, Ours, NoToken
    <3> QED
      BY <1>1, <2>2, <3>1, <3>2, <3>3
  <2> QED
    BY <1>1, <2>1, <2>2
<1>3. /\ alive' = alive \union {made + 1} /\ made' = made + 1
      /\ session' \in [1..made' -> Sessions] /\ session'[made + 1] = own
      /\ \A t \in 1..made : session'[t] = session[t]
      /\ UNCHANGED <<cookie, out, mixed>>
      /\ post' = [post EXCEPT ![p].pc = "reply", ![p].t = made + 1]
  <2>1. session' = [t \in 1..made + 1 |-> IF t <= made THEN session[t] ELSE own]
    <3>1. \A t \in 1..made + 1 : ~(t <= made) => t = made + 1
      BY <1>1
    <3> QED
      BY <1>1, <1>2, <3>1 DEF IssueTokens
  <2>2. \A t \in 1..made : session[t] \in Sessions
    BY <1>1 DEF SessionsTypeOK
  <2>3. session' \in [1..made + 1 -> Sessions]
    BY <1>1, <1>2, <2>1, <2>2
  <2>4. session'[made + 1] = own /\ \A t \in 1..made : session'[t] = session[t]
    BY <1>1, <2>1
  <2> QED
    BY <2>3, <2>4 DEF IssueTokens
<1>4. /\ post'[p].b = post[p].b /\ post'[p].op = post[p].op
      /\ post'[p].pc = "reply" /\ post'[p].t = made + 1 /\ post'[p] \in PostStates
      /\ \A q \in Posts \ {p} : post'[q] = post[q]
      /\ post' \in [Posts -> PostStates]
  BY <1>1, <1>3 DEF SessionsTypeOK, PostStates
<1>5. SessionsTypeOK' /\ FirstTokens' /\ Ours' /\ Sensible'
  <2>1. SessionsTypeOK'
    <3>1. cookie' \in [Browsers -> 0..made'] /\ made' \in 0..MaxTokens /\ alive' \subseteq 1..made'
      BY <1>1, <1>3 DEF SessionsTypeOK, Tokens
    <3> QED
      BY <1>1, <1>3, <1>4, <3>1 DEF SessionsTypeOK
  <2>2. FirstTokens'
    <3>1. \A t \in 1..made : session[t][2] \in Int /\ session[t][2] <= made
      BY <1>1, SessionsAssumption DEF SessionsInv, SessionsTypeOK, FirstTokens, Sessions, Tokens
    <3>2. \A s \in out : s[2] \in Int /\ s[2] <= made
      BY <1>1, SessionsAssumption DEF SessionsInv, SessionsTypeOK, FirstTokens, Sessions, Tokens
    <3> QED
      BY <1>1, <1>2, <1>3, <3>1, <3>2 DEF FirstTokens
  <2>3. Ours'
    <3>1. ASSUME NEW b \in Browsers, cookie'[b] # NoToken PROVE session'[cookie'[b]][1] = b
      BY <1>1, <1>3, <3>1 DEF SessionsInv, SessionsTypeOK, Ours, NoToken
    <3>2. ASSUME NEW q \in Posts
          PROVE  post'[q].t \in 0..made' /\ (post'[q].t # NoToken => session'[post'[q].t][1] = post'[q].b)
      BY <1>1, <1>2, <1>3, <1>4 DEF SessionsInv, Ours, NoToken
    <3> QED
      BY <3>1, <3>2 DEF Ours
  <2>4. Sensible'
    BY <1>1, <1>3, <1>4 DEF SessionsInv, Sensible, Running, NoToken
  <2> QED
    BY <2>1, <2>2, <2>3, <2>4
<1>6. ASSUME NEW s \in Sessions
      PROVE  /\ s # own => TokensOf(s)' = TokensOf(s) /\ Alive(s)' = Alive(s)
             /\ s = own => /\ TokensOf(s)' = TokensOf(s) \union {made + 1}
                           /\ Alive(s)' = Alive(s) \union {made + 1}
  BY <1>1, <1>3 DEF Alive, TokensOf, SessionsTypeOK
<1>7. \A b \in Browsers : cookie'[b] = cookie[b] /\ cookie[b] \in 0..made
  BY <1>1, <1>3 DEF SessionsTypeOK
<1>8. ASSUME NEW s \in Sessions \ mixed, s # own PROVE SessionOK(s)'
  <2>1. SessionOK(s) /\ ~WorksOn(p, s) /\ ~WorksOn(p, s)'
    BY <1>1, <1>2, <1>4, <1>6, <1>8 DEF SessionsInv, WorksOn, TokensOf, NoToken
  <2> QED
    <3>1. TokensOf(s)' = TokensOf(s) /\ Alive(s)' \subseteq Alive(s) /\ out' = out
      BY <1>3, <1>6, <1>8
    <3> QED
      BY <1>4, <1>7, <1>8, <2>1, <3>1, OthersKeep
<1>9. ASSUME own \notin mixed PROVE SessionOK(own)'
  <2>1. SessionOK(own)
    BY <1>2, <1>9 DEF SessionsInv
  <2>a. post[p].op = "login" => TokensOf(own) = {} /\ own \notin out
    <3> SUFFICES ASSUME post[p].op = "login" PROVE TokensOf(own) = {} /\ own \notin out
      OBVIOUS
    <3>1. own[2] = made + 1
      BY <1>2
    <3> QED
      BY <1>1, <3>1 DEF SessionsInv, FirstTokens, TokensOf
  <2>2. \A q \in Posts \ {p} : ~WorksOn(q, own)'
    <3>1. CASE post[p].op = "login"
      <4>2. TokensOf(own)' = {made + 1}
        BY <1>2, <1>6, <2>a, <3>1
      <4>3. \A q \in Posts \ {p} : post'[q].t # made + 1
        BY <1>1, <1>4 DEF SessionsInv, Ours
      <4> QED
        BY <4>2, <4>3 DEF WorksOn
    <3>2. CASE post[p].op = "refresh"
      <4>1. WorksOn(p, own)
        BY <1>1, <1>2, <3>2 DEF WorksOn, TokensOf, Running
      <4> QED
        <5>1. \A q \in Posts \ {p} : ~WorksOn(q, own) /\ post'[q].t # made + 1
          BY <1>1, <1>4, <2>1, <4>1 DEF SessionsInv, Ours, SessionOK, OneAtATime
        <5>2. TokensOf(own)' = TokensOf(own) \union {made + 1}
          BY <1>2, <1>6
        <5> QED
          BY <1>4, <5>1, <5>2 DEF WorksOn, Running
    <3> QED
      BY <1>1, <3>1, <3>2
  <2>3. TokensOf(own)' = TokensOf(own) \union {made + 1} /\ Alive(own)' = Alive(own) \union {made + 1}
    BY <1>2, <1>6
  <2>4. Alive(own) = {} /\ own \notin out
    <3>1. CASE post[p].op = "login"
      BY <2>a, <3>1 DEF Alive
    <3>2. CASE post[p].op = "refresh"
      <4>1. WorksOn(p, own)
        BY <1>1, <1>2, <3>2 DEF WorksOn, TokensOf, Running
      <4> QED
        BY <1>1, <2>1, <3>2, <4>1 DEF SessionOK, OnItsWay, LoggedOut
    <3> QED
      BY <1>1, <3>1, <3>2
  <2>5. Alive(own)' = {made + 1} /\ own \notin out'
    BY <1>3, <2>3, <2>4
  <2>6. OnItsWay(p, own)'
    <3>1. post[p].op = "login" => \A b \in Browsers : cookie'[b] \notin TokensOf(own)'
      BY <1>1, <1>2, <1>7, <2>3, <2>a
    <3> QED
      BY <1>1, <1>4, <2>5, <3>1 DEF OnItsWay
  <2>7. WorksOn(p, own)'
    BY <1>4, <2>3 DEF WorksOn, Running
  <2> QED
    BY <1>2, <2>2, <2>5, <2>6, <2>7, OwnPost
<1> QED
  <2>1. mixed' = mixed
    BY <1>3
  <2> QED
    <3>1. \A s \in Sessions \ mixed : SessionOK(s)'
      BY <1>8, <1>9
    <3> QED
      BY <2>1, <3>1, <1>5 DEF SessionsInv

LEMMA ReplyKeeps ==
    ASSUME SessionsInv, NEW p \in Posts, Reply(p) PROVE SessionsInv'
<1>1. /\ SessionsTypeOK /\ post[p] \in PostStates /\ post[p].b \in Browsers
      /\ post[p].pc = "reply" /\ post[p].t \in 0..made
      /\ post[p].op # "logout" => post[p].t \in 1..made /\ session[post[p].t][1] = post[p].b
  BY DEF SessionsInv, SessionsTypeOK, PostStates, Reply, Ours, Sensible, Running, NoToken
<1>2. PICK new \in 0..made :
         /\ new = IF post[p].op = "logout" THEN NoToken ELSE post[p].t
         /\ cookie' = [cookie EXCEPT ![post[p].b] = new]
  <2>1. PICK new \in 0..made : new = IF post[p].op = "logout" THEN NoToken ELSE post[p].t
    BY <1>1 DEF SessionsTypeOK, NoToken
  <2> QED
    BY <2>1 DEF Reply
<1>3. /\ post'[p].b = post[p].b /\ post'[p].t = post[p].t /\ post'[p].op = post[p].op
      /\ post'[p].pc = "done" /\ post' \in [Posts -> PostStates]
      /\ \A q \in Posts \ {p} : post'[q] = post[q]
      /\ UNCHANGED <<alive, session, made, out, mixed>>
  <2>1. post' = [post EXCEPT ![p].pc = "done"] /\ UNCHANGED <<alive, session, made, out, mixed>>
    BY DEF Reply, PostGoes
  <2> QED
    BY <1>1, <2>1 DEF SessionsTypeOK, PostStates
<1>4. /\ cookie' \in [Browsers -> 0..made] /\ cookie'[post[p].b] = new
      /\ \A b \in Browsers : b # post[p].b => cookie'[b] = cookie[b]
  BY <1>1, <1>2 DEF SessionsTypeOK
<1>5. SessionsTypeOK' /\ FirstTokens' /\ Ours' /\ Sensible'
  <2>1. SessionsTypeOK' /\ FirstTokens'
    BY <1>1, <1>3, <1>4 DEF SessionsInv, SessionsTypeOK, FirstTokens
  <2>2. Ours'
    BY <1>1, <1>2, <1>3, <1>4 DEF SessionsInv, Ours, NoToken
  <2>3. Sensible'
    BY <1>3 DEF SessionsInv, Sensible, Running
  <2> QED
    BY <2>1, <2>2, <2>3
<1>6. \A s \in Sessions : TokensOf(s)' = TokensOf(s) /\ Alive(s)' = Alive(s) /\ ~WorksOn(p, s)'
  BY <1>3 DEF Alive, TokensOf, WorksOn, Running
<1>7. ASSUME NEW s \in Sessions \ mixed, ~WorksOn(p, s) PROVE SessionOK(s)'
  <2>1. SessionOK(s) /\ new \notin TokensOf(s)
    BY <1>1, <1>2, <1>7 DEF SessionsInv, WorksOn, Running, TokensOf, NoToken
  <2>2. \A b \in Browsers : cookie'[b] \in TokensOf(s) => cookie'[b] = cookie[b]
    BY <1>4, <2>1
  <2> QED
    BY <1>3, <1>6, <1>7, <2>1, <2>2, OthersKeep
<1>8. ASSUME NEW s \in Sessions \ mixed, WorksOn(p, s) PROVE SessionOK(s)'
  <2>1. SessionOK(s)
    BY DEF SessionsInv
  <2>2. /\ \A q \in Posts \ {p} : ~WorksOn(q, s)'
        /\ OnItsWay(p, s) /\ (s \in out => Alive(s) = {})
    BY <1>3, <1>6, <1>8, <2>1 DEF SessionOK, OneAtATime, LoggedOut, WorksOn, Running
  <2>3. ASSUME NEW b \in Browsers, cookie'[b] \in TokensOf(s) PROVE Alive(s) \subseteq {cookie'[b]}
    <3>1. CASE post[p].op = "logout"
      BY <1>1, <2>2, <3>1 DEF OnItsWay
    <3>2. CASE post[p].op # "logout"
      <4>1. session[post[p].t] = s /\ session[cookie'[b]] = s /\ cookie'[b] # NoToken
        BY <1>8, <2>3 DEF WorksOn, TokensOf, NoToken
      <4>2. session'[cookie'[b]][1] = b
        BY <1>5, <4>1 DEF Ours
      <4>3. b = post[p].b
        BY <1>1, <1>3, <3>2, <4>1, <4>2
      <4> QED
        BY <1>2, <1>4, <2>2, <3>2, <4>3 DEF OnItsWay
    <3> QED
      BY <3>1, <3>2
  <2>4. (\A t, u \in Alive(s)' : t = u) /\ (s \in out' => Alive(s)' = {})
    BY <1>3, <1>6, <2>1, <2>2 DEF SessionOK
  <2> QED
    BY <1>6, <2>2, <2>3, <2>4, OwnPost
<1> QED
  <2>1. mixed' = mixed
    BY <1>3
  <2> QED
    BY <2>1, <1>5, <1>7, <1>8 DEF SessionsInv

\* A request that fails leaves what it had done; only a refresh whose answer
\* is lost leaves a token its browser does not know in a session it goes on with.
LEMMA PostFailsKeeps ==
    ASSUME SessionsInv, NEW p \in Posts, PostFails(p) PROVE SessionsInv'
<1>1. SessionsTypeOK /\ post[p] \in PostStates /\ post[p].t \in 0..made
  BY DEF SessionsInv, SessionsTypeOK, Ours
<1>2. /\ Running(p) /\ post'[p].b = post[p].b /\ post'[p].t = post[p].t /\ post'[p].op = post[p].op
      /\ post'[p].pc = "failed" /\ post' \in [Posts -> PostStates]
      /\ \A q \in Posts \ {p} : post'[q] = post[q]
      /\ UNCHANGED <<cookie, alive, session, made, out>>
  BY <1>1 DEF PostFails, PostGoes, SessionsTypeOK, PostStates
<1>3. /\ mixed \subseteq mixed' /\ mixed' \subseteq Sessions
      /\ post[p].pc = "reply" /\ post[p].op = "refresh" => session[post[p].t] \in mixed'
  <2>1. post[p].op = "refresh" => session[post[p].t] \in Sessions
    BY <1>1, <1>2 DEF SessionsInv, SessionsTypeOK, Sensible, NoToken
  <2> QED
    BY <1>1, <2>1 DEF PostFails, SessionsTypeOK
<1>4. SessionsTypeOK' /\ FirstTokens' /\ Ours' /\ Sensible'
  <2>1. SessionsTypeOK' /\ FirstTokens'
    BY <1>1, <1>2, <1>3 DEF SessionsInv, SessionsTypeOK, FirstTokens
  <2>2. Ours'
    BY <1>2 DEF SessionsInv, Ours
  <2>3. Sensible'
    BY <1>2 DEF SessionsInv, Sensible, Running
  <2> QED
    BY <2>1, <2>2, <2>3
<1>5. \A s \in Sessions : TokensOf(s)' = TokensOf(s) /\ Alive(s)' = Alive(s) /\ ~WorksOn(p, s)'
  BY <1>2 DEF Alive, TokensOf, WorksOn, Running
<1>6. ASSUME NEW s \in Sessions \ mixed', ~WorksOn(p, s) PROVE SessionOK(s)'
  <2>1. SessionOK(s)
    BY <1>3 DEF SessionsInv
  <2> QED
    BY <1>2, <1>5, <1>6, <2>1, OthersKeep
<1>7. ASSUME NEW s \in Sessions \ mixed', WorksOn(p, s) PROVE SessionOK(s)'
  <2>1. SessionOK(s) /\ session[post[p].t] = s
    BY <1>3, <1>7 DEF SessionsInv, WorksOn, TokensOf
  <2>2. /\ \A q \in Posts \ {p} : ~WorksOn(q, s)'
        /\ OnItsWay(p, s) /\ (s \in out => Alive(s) = {})
    BY <1>2, <1>5, <1>7, <2>1 DEF SessionOK, OneAtATime, LoggedOut, WorksOn, Running
  <2>3. ASSUME NEW b \in Browsers, cookie[b] \in TokensOf(s) PROVE Alive(s) \subseteq {cookie[b]}
    <3>1. CASE post[p].pc \in {"get", "del", "issue"}
      BY <2>2, <2>3, <3>1 DEF OnItsWay
    <3>2. CASE post[p].pc = "reply"
      <4>1. post[p].op # "refresh"
        BY <1>3, <1>7, <2>1, <3>2
      <4> QED
        BY <1>1, <2>2, <2>3, <3>2, <4>1 DEF OnItsWay, PostStates
    <3> QED
      BY <1>2, <3>1, <3>2 DEF Running
  <2>4. (\A t, u \in Alive(s)' : t = u) /\ (s \in out' => Alive(s)' = {})
    BY <1>2, <1>5, <2>1, <2>2 DEF SessionOK
  <2>5. \A b \in Browsers : cookie'[b] \in TokensOf(s)' => Alive(s)' \subseteq {cookie'[b]}
    BY <1>2, <1>5, <2>3
  <2> QED
    BY <1>5, <2>2, <2>4, <2>5, OwnPost
<1> QED
  BY <1>4, <1>6, <1>7 DEF SessionsInv

LEMMA LapseKeeps == ASSUME SessionsInv, NEW t \in alive, Lapse(t) PROVE SessionsInv'
<1>1. alive' \subseteq alive /\ UNCHANGED <<cookie, session, made, post, out, mixed>>
  BY DEF Lapse
<1>2. SessionsTypeOK' /\ FirstTokens' /\ Ours' /\ Sensible'
  BY <1>1 DEF SessionsInv, SessionsTypeOK, FirstTokens, Ours, Sensible, Running
<1>3. ASSUME NEW s \in Sessions, SessionOK(s) PROVE SessionOK(s)'
  <2>1. /\ TokensOf(s)' = TokensOf(s) /\ Alive(s)' \subseteq Alive(s)
        /\ \A p \in Posts : WorksOn(p, s)' <=> WorksOn(p, s)
    BY <1>1 DEF Alive, TokensOf, WorksOn, Running
  <2>2. \A p \in Posts : WorksOn(p, s) => OnItsWay(p, s)'
    BY <1>1, <1>3, <2>1 DEF SessionOK, OnItsWay
  <2> QED
    BY <1>1, <1>3, <2>1, <2>2 DEF SessionOK, OneAtATime, LoggedOut, AtRest
<1> QED
  BY <1>1, <1>2, <1>3 DEF SessionsInv

-----------------------------------------------------------------------------
LEMMA SessionsStep == SessionsInv /\ [SessionsNext]_sessionsVars => SessionsInv'
<1> SUFFICES ASSUME SessionsInv, [SessionsNext]_sessionsVars PROVE SessionsInv'
  OBVIOUS
<1>1. ASSUME NEW p \in Posts, NEW b \in Browsers,
             LogIn(p, b) \/ StartRefresh(p, b) \/ StartLogout(p, b)
      PROVE SessionsInv'
  BY <1>1, SendKeeps
<1>2. ASSUME NEW p \in Posts,
             GetToken(p) \/ DelToken(p) \/ IssueTokens(p) \/ Reply(p) \/ PostFails(p)
      PROVE SessionsInv'
  BY <1>2, GetTokenKeeps, DelTokenKeeps, IssueTokensKeeps, ReplyKeeps, PostFailsKeeps
<1>3. ASSUME NEW t \in alive, Lapse(t) PROVE SessionsInv'
  BY <1>3, LapseKeeps
<1>4. CASE UNCHANGED sessionsVars
  BY <1>4 DEF sessionsVars, SessionsInv, SessionsTypeOK, FirstTokens, Ours, Sensible, SessionOK,
              OneAtATime, LoggedOut, AtRest, OnItsWay, Alive, TokensOf, WorksOn, Running
<1> QED
  BY <1>1, <1>2, <1>3, <1>4 DEF SessionsNext

\* After a logout no refresh token of the session is accepted, and before it
\* at most one is, which a cookie of the session names, for any number of
\* browsers, requests and logins, unless the session had two requests at once
\* or the answer to a refresh was lost.
THEOREM LogoutIsFinal == SessionsSpec => []LogoutEndsSession
<1>1. SessionsInv => LogoutEndsSession
  BY DEF SessionsInv, SessionOK, LoggedOut, AtRest, Alive, LogoutEndsSession
<1> QED
  BY InitSessions, SessionsStep, <1>1, PTL DEF SessionsSpec

\* The type invariant: tokens are numbered up to the last one made, each is of
\* a session, and what Redis and the cookies hold is among them.
THEOREM SessionsTypeCorrect == SessionsSpec => []SessionsTypeOK
<1>1. SessionsInv => SessionsTypeOK
  BY DEF SessionsInv
<1> QED
  BY InitSessions, SessionsStep, <1>1, PTL DEF SessionsSpec

-----------------------------------------------------------------------------
(* TeamMembers: the inductive invariant.  Invitations have numbers of their *)
(* own, and what a call still intends with a row is right for a row that    *)
(* was suspended since: only an acceptance makes it active again, and then  *)
(* it was under way at the suspension.                                      *)

RowsEver == [n : Nat, status : MemberStatuses, role : MemberRoles]
TeamCallStates ==
    [pc : {"idle", "invite", "accept", "login", "role", "refused", "done", "failed"},
     email : Emails, row : RowsEver, late : BOOLEAN]

TeamTypes ==
    /\ member \in [Emails -> SUBSET RowsEver] /\ invites \in Nat
    /\ team \in [TeamCalls -> TeamCallStates]

Numbered ==
    /\ \A e \in Emails : \A row \in member[e] : row.n <= invites
    /\ \A n \in blocked : n \in Nat /\ n <= invites
    /\ \A e, f \in Emails : \A row \in member[e], q \in member[f] : row.n = q.n => e = f

RowsStand == \A e \in Emails : \A row \in member[e] :
    row.n \in blocked \ crossed => row.status = "suspended"
BadgesStand == \A x \in badges : x.late => x.n \in crossed

CallsStand == \A t \in TeamCalls :
    /\ team[t].pc = "accept" => team[t].row.n \notin blocked \ crossed
    /\ team[t].pc = "login" /\ team[t].late => team[t].row.n \in crossed

TeamInv == TeamTypes /\ Numbered /\ RowsStand /\ BadgesStand /\ CallsStand

-----------------------------------------------------------------------------
LEMMA InitTeam == TeamInit => TeamInv
<1> SUFFICES ASSUME TeamInit PROVE TeamInv
  OBVIOUS
<1>1. (CHOOSE e \in Emails : TRUE) \in Emails
  BY TeamMembersAssumption
<1>2. NoMember \in RowsEver
  BY DEF NoMember, RowsEver, MemberStatuses, MemberRoles, Roles
<1>3. NoTeamCall \in TeamCallStates /\ NoTeamCall.pc = "idle"
  BY <1>1, <1>2 DEF NoTeamCall, TeamCallStates
<1>4. TeamTypes
  BY <1>3 DEF TeamInit, TeamTypes
<1> QED
  BY <1>3, <1>4 DEF TeamInit, TeamInv, Numbered, RowsStand, BadgesStand, CallsStand

\* A check reads a row and writes nothing but the call.
LEMMA CheckKeeps ==
    ASSUME TeamInv, NEW t \in TeamCalls, NEW e \in Emails, NEW pc \in {"invite", "accept", "login", "role", "refused"},
           NEW row \in RowsEver,
           TeamGoes(t, pc, e, row), UNCHANGED <<member, invites, badges, blocked, crossed>>,
           pc = "accept" => row \in member[e] /\ row.status = "pending",
           pc = "login" => row \in member[e] /\ row.status = "active"
    PROVE  TeamInv'
<1>1. TeamTypes'
  <2>1. [pc |-> pc, email |-> e, row |-> row, late |-> row.n \in blocked] \in TeamCallStates
    BY DEF TeamCallStates
  <2> QED
    BY <2>1 DEF TeamInv, TeamTypes, TeamGoes
<1>2. CallsStand'
  <2>1. /\ team'[t].pc = pc /\ team'[t].row = row /\ team'[t].late = (row.n \in blocked)
        /\ \A u \in TeamCalls \ {t} : team'[u] = team[u]
    BY DEF TeamInv, TeamTypes, TeamGoes
  <2>2. CallsStand /\ RowsStand
    BY DEF TeamInv
  <2> QED
    BY <2>1, <2>2 DEF CallsStand, RowsStand
<1> QED
  BY <1>1, <1>2 DEF TeamInv, Numbered, RowsStand, BadgesStand

LEMMA ChecksKeep ==
    ASSUME TeamInv, NEW t \in TeamCalls, NEW e \in Emails, NEW role,
           \/ InviteCheck(t, e, role) \/ AcceptCheck(t, e)
           \/ LoginCheck(t, e) \/ RoleCheck(t, e, role)
    PROVE  TeamInv'
<1>1. CASE InviteCheck(t, e, role)
  <2>1. NoMember \in RowsEver
    BY DEF NoMember, RowsEver, MemberStatuses, MemberRoles, Roles
  <2>2. PICK pc \in {"invite", "refused"} : TeamGoes(t, pc, e, NoMember)
    BY <1>1 DEF InviteCheck
  <2> QED
    BY <1>1, <2>1, <2>2, CheckKeeps DEF InviteCheck
<1>2. ASSUME NEW row \in member[e], NEW pc \in {"accept", "login", "role", "refused"},
             TeamGoes(t, pc, e, row), UNCHANGED <<member, invites, badges, blocked, crossed>>,
             pc = "accept" => row.status = "pending", pc = "login" => row.status = "active"
      PROVE TeamInv'
  <2>1. row \in RowsEver
    BY DEF TeamInv, TeamTypes
  <2> QED
    BY <1>2, <2>1, CheckKeeps
<1>3. CASE AcceptCheck(t, e)
  BY <1>2, <1>3 DEF AcceptCheck
<1>4. CASE LoginCheck(t, e)
  BY <1>2, <1>4 DEF LoginCheck
<1>5. CASE RoleCheck(t, e, role)
  BY <1>2, <1>5 DEF RoleCheck
<1> QED
  BY <1>1, <1>3, <1>4, <1>5

\* A write changes one row, or adds one with a number of its own; the other
\* calls intend what they did.
LEMMA DoneKeeps ==
    ASSUME TeamInv, NEW t \in TeamCalls, NEW pc \in {"done", "failed"}, TeamDone(t, pc)
    PROVE  /\ team' \in [TeamCalls -> TeamCallStates]
           /\ UNCHANGED <<blocked, crossed>> => CallsStand'
<1>1. TeamTypes /\ CallsStand
  BY DEF TeamInv
<1>2. \A c \in TeamCallStates : /\ [c EXCEPT !.pc = pc] \in TeamCallStates
                               /\ [c EXCEPT !.pc = pc].pc = pc
  BY DEF TeamCallStates
<1>3. /\ team' \in [TeamCalls -> TeamCallStates] /\ team'[t].pc = pc
      /\ \A u \in TeamCalls \ {t} : team'[u] = team[u]
  BY <1>1, <1>2 DEF TeamTypes, TeamDone
<1> QED
  BY <1>1, <1>3 DEF CallsStand

LEMMA InviteInsertKeeps ==
    ASSUME TeamInv, NEW t \in TeamCalls, NEW role \in MemberRoles, InviteInsert(t, role)
    PROVE  TeamInv'
<1> DEFINE e == team[t].email
           new == [n |-> invites + 1, status |-> "pending", role |-> role]
<1>1. TeamTypes /\ Numbered /\ e \in Emails
  BY DEF TeamInv, TeamTypes, TeamCallStates
<1>2. (TeamDone(t, "done") \/ TeamDone(t, "failed")) /\ UNCHANGED <<badges, blocked, crossed>>
  BY DEF InviteInsert
<1>3. /\ CallsStand' /\ BadgesStand'
      /\ team' \in [TeamCalls -> TeamCallStates]
  BY <1>2, DoneKeeps DEF TeamInv, BadgesStand
<1>4. CASE UNCHANGED <<member, invites>>
  BY <1>2, <1>3, <1>4 DEF TeamInv, TeamTypes, Numbered, RowsStand
<1>5. CASE /\ member[e] = {} /\ invites' = invites + 1
           /\ member' = [member EXCEPT ![e] = {new}]
  <2>1. /\ \A f \in Emails \ {e} : member'[f] = member[f]
        /\ member'[e] = {new} /\ new.n = invites + 1 /\ invites \in Nat
    BY <1>1, <1>5 DEF TeamTypes
  <2>2. new \in RowsEver
    BY <1>1 DEF TeamTypes, RowsEver, MemberStatuses
  <2>3. TeamTypes'
    BY <1>1, <1>3, <1>5, <2>2 DEF TeamTypes
  <2>4. \A f \in Emails : \A row \in member[f] : row.n \in Nat
    BY <1>1 DEF TeamTypes, RowsEver
  <2>5. Numbered'
    BY <1>1, <1>2, <1>5, <2>1, <2>4 DEF Numbered
  <2>6. RowsStand'
    BY <1>1, <1>2, <2>1 DEF TeamInv, Numbered, RowsStand
  <2> QED
    BY <1>3, <2>3, <2>5, <2>6 DEF TeamInv
<1> QED
  BY <1>4, <1>5 DEF InviteInsert

\* An UPDATE of a row changes its status or its role.
LEMMA UpdateKeeps ==
    ASSUME TeamInv, NEW t \in TeamCalls, TeamDone(t, "done"), NEW e \in Emails, NEW rows,
           member' = [member EXCEPT ![e] = rows],
           rows \subseteq RowsEver,
           \A row \in rows : \E old \in member[e] :
              /\ row.n = old.n
              /\ old.n \in blocked \ crossed => row.status = old.status,
           UNCHANGED <<invites, badges, blocked, crossed>>
    PROVE  TeamInv'
<1>1. TeamTypes /\ Numbered /\ RowsStand
  BY DEF TeamInv
<1>2. /\ CallsStand' /\ BadgesStand'
      /\ team' \in [TeamCalls -> TeamCallStates]
  BY DoneKeeps DEF TeamInv, BadgesStand
<1>3. \A f \in Emails : member'[f] = IF f = e THEN rows ELSE member[f]
  BY <1>1 DEF TeamTypes
<1>4. \A f \in Emails : \A row \in member'[f] : \E old \in member[f] :
         /\ row.n = old.n
         /\ old.n \in blocked \ crossed => row.status = old.status
  BY <1>3
<1>5. TeamTypes'
  BY <1>1, <1>2 DEF TeamTypes
<1>6. Numbered'
  BY <1>1, <1>4 DEF Numbered
<1>7. RowsStand'
  BY <1>1, <1>4 DEF RowsStand
<1> QED
  BY <1>2, <1>5, <1>6, <1>7 DEF TeamInv

LEMMA AcceptUpdateKeeps ==
    ASSUME TeamInv, NEW t \in TeamCalls, AcceptUpdate(t) PROVE TeamInv'
<1> DEFINE e == team[t].email
           New(row) == IF row \in Same(t) THEN [row EXCEPT !.status = "active"] ELSE row
           rows == {New(row) : row \in member[e]}
<1>1. TeamTypes /\ e \in Emails /\ team[t].row.n \notin blocked \ crossed
  BY DEF TeamInv, TeamTypes, TeamCallStates, CallsStand, AcceptUpdate
<1>2. \A row \in member[e] :
         /\ New(row) \in RowsEver
         /\ New(row).n = row.n
         /\ row.n \in blocked \ crossed => New(row).status = row.status
  BY <1>1 DEF TeamTypes, Same, RowsEver, MemberStatuses
<1>3. member' = [member EXCEPT ![e] = rows]
  BY <1>1 DEF AcceptUpdate, TeamTypes
<1>4. /\ rows \subseteq RowsEver
      /\ \A row \in rows : \E old \in member[e] :
            /\ row.n = old.n
            /\ old.n \in blocked \ crossed => row.status = old.status
  BY <1>2
<1>5. TeamDone(t, "done") /\ UNCHANGED <<invites, badges, blocked, crossed>>
  BY DEF AcceptUpdate
<1> HIDE DEF rows
<1> QED
  BY <1>1, <1>3, <1>4, <1>5, UpdateKeeps

LEMMA RoleUpdateKeeps ==
    ASSUME TeamInv, NEW t \in TeamCalls, NEW role \in MemberRoles, RoleUpdate(t, role)
    PROVE  TeamInv'
<1> DEFINE e == team[t].email
           New(row) == IF row \in Same(t) THEN [row EXCEPT !.role = role] ELSE row
           rows == {New(row) : row \in member[e]}
<1>1. TeamTypes /\ e \in Emails
  BY DEF TeamInv, TeamTypes, TeamCallStates
<1>2. \A row \in member[e] :
         /\ New(row) \in RowsEver
         /\ New(row).n = row.n /\ New(row).status = row.status
  BY <1>1 DEF TeamTypes, RowsEver
<1>3. member' = [member EXCEPT ![e] = rows]
  BY <1>1 DEF RoleUpdate, TeamTypes
<1>4. /\ rows \subseteq RowsEver
      /\ \A row \in rows : \E old \in member[e] :
            /\ row.n = old.n
            /\ old.n \in blocked \ crossed => row.status = old.status
  BY <1>2
<1>5. TeamDone(t, "done") /\ UNCHANGED <<invites, badges, blocked, crossed>>
  BY DEF RoleUpdate
<1> HIDE DEF rows
<1> QED
  BY <1>1, <1>3, <1>4, <1>5, UpdateKeeps

LEMMA LoginSignKeeps ==
    ASSUME TeamInv, NEW t \in TeamCalls, LoginSign(t) PROVE TeamInv'
<1>1. /\ CallsStand'
      /\ team' \in [TeamCalls -> TeamCallStates]
  BY DoneKeeps DEF LoginSign
<1>2. BadgesStand'
  BY DEF LoginSign, TeamInv, CallsStand, BadgesStand
<1> QED
  BY <1>1, <1>2 DEF LoginSign, TeamInv, TeamTypes, Numbered, RowsStand

\* A suspension or removal finds the acceptances that are under way.
LEMMA BlockKeeps ==
    ASSUME TeamInv, NEW e \in Emails, NEW role, NEW op, NEW rows, Block(e, op, role, rows),
           rows \subseteq RowsEver,
           \A row \in rows : row.status = "suspended" /\ \E old \in member[e] : row.n = old.n
    PROVE  TeamInv'
<1>1. TeamTypes /\ Numbered /\ RowsStand
  BY DEF TeamInv
<1>2. PICK old \in member[e] :
         /\ member' = [member EXCEPT ![e] = rows] /\ blocked' = blocked \union {old.n}
         /\ crossed' = IF \E t \in TeamCalls : team[t].pc = "accept" /\ team[t].row.n = old.n
                       THEN crossed \union {old.n} ELSE crossed
         /\ UNCHANGED <<invites, team, badges>>
  BY DEF Block
<1>3. /\ \A f \in Emails : member'[f] = IF f = e THEN rows ELSE member[f]
      /\ crossed \subseteq crossed' /\ old.n \in Nat /\ old.n <= invites
      /\ blocked' \ crossed' \subseteq (blocked \ crossed) \union {old.n}
  BY <1>1, <1>2 DEF TeamTypes, RowsEver, Numbered
<1>4. \A f \in Emails : \A row \in member'[f] : \E was \in member[f] : row.n = was.n
  BY <1>3
<1>5. TeamTypes'
  BY <1>1, <1>2 DEF TeamTypes
<1>6. Numbered'
  <2>1. \A f \in Emails : \A row \in member'[f] : row.n <= invites'
    BY <1>1, <1>2, <1>4 DEF Numbered
  <2>2. \A n \in blocked' : n \in Nat /\ n <= invites'
    BY <1>1, <1>2, <1>3 DEF Numbered
  <2>3. \A f, g \in Emails : \A row \in member'[f], q \in member'[g] : row.n = q.n => f = g
    BY <1>1, <1>4 DEF Numbered
  <2> QED
    BY <2>1, <2>2, <2>3 DEF Numbered
<1>7. RowsStand'
  BY <1>1, <1>3 DEF Numbered, RowsStand
<1>8. BadgesStand'
  BY <1>2, <1>3 DEF TeamInv, BadgesStand
<1>9. CallsStand'
  BY <1>2, <1>3 DEF TeamInv, CallsStand
<1> QED
  BY <1>5, <1>6, <1>7, <1>8, <1>9 DEF TeamInv

LEMMA BlocksKeep ==
    ASSUME TeamInv, NEW e \in Emails, NEW role, Suspend(e, role) \/ Remove(e, role)
    PROVE  TeamInv'
<1>1. CASE Suspend(e, role)
  <2> DEFINE S(x) == [x EXCEPT !.status = "suspended"]
             rows == {S(x) : x \in member[e]}
  <2>1. \A x \in member[e] : S(x) \in RowsEver /\ S(x).n = x.n /\ S(x).status = "suspended"
    BY DEF TeamInv, TeamTypes, RowsEver, MemberStatuses
  <2>2. Block(e, "suspend", role, rows)
    BY <1>1 DEF Suspend
  <2> HIDE DEF S
  <2>3. /\ rows \subseteq RowsEver
        /\ \A row \in rows : row.status = "suspended" /\ \E old \in member[e] : row.n = old.n
    BY <2>1
  <2> HIDE DEF rows
  <2> QED
    BY <2>2, <2>3, BlockKeeps
<1>2. CASE Remove(e, role)
  BY <1>2, BlockKeeps DEF Remove
<1> QED
  BY <1>1, <1>2

-----------------------------------------------------------------------------
LEMMA TeamStep == TeamInv /\ [TeamNext]_teamVars => TeamInv'
<1> SUFFICES ASSUME TeamInv, [TeamNext]_teamVars PROVE TeamInv'
  OBVIOUS
<1>1. ASSUME NEW t \in TeamCalls, NEW e \in Emails, AcceptCheck(t, e) \/ LoginCheck(t, e)
      PROVE TeamInv'
  BY <1>1, ChecksKeep
<1>2. ASSUME NEW t \in TeamCalls, NEW e \in Emails, NEW role \in RolesAround,
             InviteCheck(t, e, role) \/ RoleCheck(t, e, role)
      PROVE TeamInv'
  BY <1>2, ChecksKeep
<1>3. ASSUME NEW t \in TeamCalls, NEW role \in MemberRoles,
             InviteInsert(t, role) \/ RoleUpdate(t, role)
      PROVE TeamInv'
  BY <1>3, InviteInsertKeeps, RoleUpdateKeeps
<1>4. ASSUME NEW t \in TeamCalls, AcceptUpdate(t) \/ LoginSign(t) PROVE TeamInv'
  BY <1>4, AcceptUpdateKeeps, LoginSignKeeps
<1>5. ASSUME NEW t \in TeamCalls, TeamFails(t) PROVE TeamInv'
  BY <1>5, DoneKeeps DEF TeamFails, TeamInv, TeamTypes, Numbered, RowsStand, BadgesStand
<1>6. ASSUME NEW e \in Emails, NEW role \in RolesAround, Suspend(e, role) \/ Remove(e, role)
      PROVE TeamInv'
  BY <1>6, BlocksKeep
<1>7. ASSUME NEW x \in badges, BadgeExpires(x) PROVE TeamInv'
  BY <1>7 DEF BadgeExpires, TeamInv, TeamTypes, Numbered, RowsStand, BadgesStand, CallsStand
<1>8. CASE UNCHANGED teamVars
  BY <1>8 DEF teamVars, TeamInv, TeamTypes, Numbered, RowsStand, BadgesStand, CallsStand
<1> QED
  BY <1>1, <1>2, <1>3, <1>4, <1>5, <1>6, <1>7, <1>8 DEF TeamNext

\* A suspended or removed member stays so and is given no token by a login
\* that began later, for any number of calls that overlap the suspension,
\* unless an acceptance was under way.
THEOREM SuspensionIsFinal == TeamSpec => []SuspensionStands
<1>1. TeamInv => SuspensionStands
  BY DEF TeamInv, RowsStand, BadgesStand, SuspensionStands
<1> QED
  BY InitTeam, TeamStep, <1>1, PTL DEF TeamSpec

\* No call numbers a row beyond the invitations that may be made.
LEMMA TeamTypeStep == TeamInv /\ TeamTypeOK /\ [TeamNext]_teamVars => TeamTypeOK'
<1> SUFFICES ASSUME TeamInv, TeamTypeOK, [TeamNext]_teamVars PROVE TeamTypeOK'
  OBVIOUS
<1> USE TeamMembersAssumption DEF TeamTypeOK
<1>1. TeamTypes
  BY DEF TeamInv
<1>2. \A t \in TeamCalls : team[t] \in TeamCallStates
  BY <1>1 DEF TeamTypes
<1>3. ASSUME NEW t \in TeamCalls, NEW pc, NEW e \in Emails, NEW row \in MemberRows,
             TeamGoes(t, pc, e, row), UNCHANGED <<member, invites, badges, blocked, crossed>>
      PROVE  TeamTypeOK'
  BY <1>1, <1>3 DEF TeamTypes, TeamGoes
<1>4. NoMember \in MemberRows
  BY DEF NoMember, MemberRows, MemberStatuses, MemberRoles, Roles
<1>5. ASSUME NEW t \in TeamCalls, NEW pc, TeamDone(t, pc)
      PROVE  \A u \in TeamCalls : team'[u].row \in MemberRows /\ team'[u].email \in Emails
  BY <1>1, <1>2, <1>5 DEF TeamTypes, TeamDone, TeamCallStates
<1>6. ASSUME NEW t \in TeamCalls, NEW e \in Emails, AcceptCheck(t, e) \/ LoginCheck(t, e)
      PROVE  TeamTypeOK'
  <2>1. CASE AcceptCheck(t, e)
    <3>1. PICK row \in member[e], pc \in {"accept", "refused"} :
             TeamGoes(t, pc, e, row) /\ UNCHANGED <<member, invites, badges, blocked, crossed>>
      BY <2>1 DEF AcceptCheck
    <3> QED
      BY <1>3, <3>1
  <2>2. CASE LoginCheck(t, e)
    <3>1. PICK row \in member[e] :
             /\ TeamGoes(t, IF row.status = "active" THEN "login" ELSE "refused", e, row)
             /\ UNCHANGED <<member, invites, badges, blocked, crossed>>
      BY <2>2 DEF LoginCheck
    <3> QED
      BY <1>3, <3>1
  <2> QED
    BY <1>6, <2>1, <2>2
<1>7. ASSUME NEW t \in TeamCalls, NEW e \in Emails, NEW role \in RolesAround,
             InviteCheck(t, e, role) \/ RoleCheck(t, e, role)
      PROVE  TeamTypeOK'
  <2>1. CASE InviteCheck(t, e, role)
    <3>1. TeamGoes(t, IF member[e] = {} THEN "invite" ELSE "refused", e, NoMember)
          /\ UNCHANGED <<member, invites, badges, blocked, crossed>>
      BY <2>1 DEF InviteCheck
    <3> QED
      BY <1>3, <1>4, <3>1
  <2>2. CASE RoleCheck(t, e, role)
    <3>1. PICK row \in member[e] :
             /\ TeamGoes(t, "role", e, row)
             /\ UNCHANGED <<member, invites, badges, blocked, crossed>>
      BY <2>2 DEF RoleCheck
    <3> QED
      BY <1>3, <3>1
  <2> QED
    BY <1>7, <2>1, <2>2
<1>8. ASSUME NEW t \in TeamCalls, NEW role \in MemberRoles,
             InviteInsert(t, role) \/ RoleUpdate(t, role)
      PROVE  TeamTypeOK'
  <2>1. CASE InviteInsert(t, role)
    <3>1. CASE member[team[t].email] = {}
      <4>1. /\ invites < MaxInvites /\ invites' = invites + 1 /\ TeamDone(t, "done")
            /\ member' = [member EXCEPT ![team[t].email] =
                             {[n |-> invites + 1, status |-> "pending", role |-> role]}]
            /\ UNCHANGED <<badges, blocked, crossed>>
        BY <2>1, <3>1 DEF InviteInsert
      <4>2. [n |-> invites + 1, status |-> "pending", role |-> role] \in MemberRows
        BY <4>1 DEF MemberRows, MemberStatuses
      <4>3. member' \in [Emails -> SUBSET MemberRows]
        BY <4>1, <4>2
      <4> QED
        BY <1>5, <4>1, <4>3
    <3>2. CASE member[team[t].email] # {}
      BY <1>5, <2>1, <3>2 DEF InviteInsert
    <3> QED
      BY <3>1, <3>2
  <2>2. CASE RoleUpdate(t, role)
    <3>1. \A row \in MemberRows : [row EXCEPT !.role = role] \in MemberRows
      BY DEF MemberRows
    <3>2. TeamDone(t, "done") /\ UNCHANGED <<invites, badges, blocked, crossed>>
          /\ member' \in [Emails -> SUBSET MemberRows]
      BY <2>2, <3>1 DEF RoleUpdate
    <3> QED
      BY <1>5, <3>2
  <2> QED
    BY <1>8, <2>1, <2>2
<1>9. ASSUME NEW t \in TeamCalls, AcceptUpdate(t) PROVE TeamTypeOK'
  <2>1. \A row \in MemberRows : [row EXCEPT !.status = "active"] \in MemberRows
    BY DEF MemberRows, MemberStatuses
  <2>2. TeamDone(t, "done") /\ UNCHANGED <<invites, badges, blocked, crossed>>
        /\ member' \in [Emails -> SUBSET MemberRows]
    BY <1>9, <2>1 DEF AcceptUpdate
  <2> QED
    BY <1>5, <2>2
<1>10. ASSUME NEW t \in TeamCalls, LoginSign(t) PROVE TeamTypeOK'
  <2>1. team[t].row.n \in 0 .. MaxInvites /\ team[t].row.role \in MemberRoles
    BY DEF MemberRows
  <2>2. TeamDone(t, "done") /\ UNCHANGED <<member, invites, blocked, crossed>>
        /\ badges' = badges \union {[n |-> team[t].row.n, role |-> team[t].row.role,
                                     late |-> team[t].late]}
    BY <1>10 DEF LoginSign
  <2>3. \A x \in badges' : x.n \in 0 .. MaxInvites /\ x.role \in MemberRoles
    BY <2>1, <2>2
  <2> QED
    BY <1>5, <2>2, <2>3
<1>11. ASSUME NEW t \in TeamCalls, TeamFails(t) PROVE TeamTypeOK'
  BY <1>5, <1>11 DEF TeamFails
<1>12. ASSUME NEW e \in Emails, NEW role \in RolesAround, Suspend(e, role) \/ Remove(e, role)
       PROVE TeamTypeOK'
  <2>1. ASSUME NEW op, NEW rows \in SUBSET MemberRows, Block(e, op, role, rows)
        PROVE  TeamTypeOK'
    <3>1. PICK row \in member[e] :
             /\ member' = [member EXCEPT ![e] = rows] /\ blocked' = blocked \union {row.n}
             /\ crossed' \subseteq crossed \union {row.n} /\ UNCHANGED <<invites, team, badges>>
      BY <2>1 DEF Block
    <3>2. row.n \in 0 .. MaxInvites
      BY DEF MemberRows
    <3> QED
      BY <3>1, <3>2
  <2>2. {[x EXCEPT !.status = "suspended"] : x \in member[e]} \in SUBSET MemberRows
    BY DEF MemberRows, MemberStatuses
  <2>3. {} \in SUBSET MemberRows
    OBVIOUS
  <2>4. ASSUME Suspend(e, role) PROVE TeamTypeOK'
    BY <2>1, <2>2, <2>4 DEF Suspend
  <2>5. ASSUME Remove(e, role) PROVE TeamTypeOK'
    BY <2>1, <2>3, <2>5 DEF Remove
  <2> QED
    BY <1>12, <2>4, <2>5
<1>13. ASSUME NEW x \in badges, BadgeExpires(x) PROVE TeamTypeOK'
  BY <1>13 DEF BadgeExpires
<1>14. CASE UNCHANGED teamVars
  BY <1>14 DEF teamVars
<1> QED
  BY <1>6, <1>7, <1>8, <1>9, <1>10, <1>11, <1>12, <1>13, <1>14 DEF TeamNext

\* The type invariant of the team: rows, badges and blocked members carry the
\* numbers of invitations.
THEOREM TeamTypeCorrect == TeamSpec => []TeamTypeOK
<1>1. TeamInit => TeamTypeOK
  <2> SUFFICES ASSUME TeamInit PROVE TeamTypeOK
    OBVIOUS
  <2>1. NoMember \in MemberRows /\ NoTeamCall.row = NoMember /\ NoTeamCall.email \in Emails
    BY TeamMembersAssumption
       DEF NoTeamCall, NoMember, MemberRows, MemberStatuses, MemberRoles, Roles
  <2> QED
    BY <2>1, TeamMembersAssumption DEF TeamInit, TeamTypeOK
<1> QED
  BY InitTeam, TeamStep, TeamTypeStep, <1>1, PTL DEF TeamSpec

-----------------------------------------------------------------------------
(* ApiKeys: first the arithmetic of masks, then the guard's decisions.      *)

\* The shift count is taken modulo W: a shift by W moves nothing, any other
\* from 0 on is itself.
LEMMA ShiftCount ==
    /\ W % W = 0
    /\ \A n \in 0..(W - 1) : n % W = n
  BY ApiKeysAssumption

\* A mask has its leading bits set, as many as the prefix is long, and the
\* prefix of length zero is set apart because the shift by W would move
\* nothing (ipMatchesCidr, line 30).
LEMMA MaskIsPrefix ==
    ASSUME NEW bits \in 0..W
    PROVE  Mask(bits) = [i \in 1..W |-> IF i <= bits THEN 1 ELSE 0]
<1>1. CASE bits = 0
  BY <1>1, ApiKeysAssumption DEF Mask, Zero
<1>2. CASE bits # 0
  <2>1. (W - bits) % W = W - bits
    BY <1>2, ShiftCount, ApiKeysAssumption
  <2>2. \A i \in 1..W : i + (W - bits) <= W <=> i <= bits
    BY ApiKeysAssumption
  <2>3. \A i \in 1..W : i <= bits => i + (W - bits) \in 1..W
    BY ApiKeysAssumption
  <2>4. ShiftLeft(Ones, W - bits) = [i \in 1..W |-> IF i <= bits THEN 1 ELSE 0]
    BY <2>1, <2>2, <2>3 DEF ShiftLeft, Ones
  <2> QED
    BY <1>2, <2>4 DEF Mask
<1> QED
  BY <1>1, <1>2

\* Two addresses agree under a mask exactly when they share its prefix.
LEMMA MaskedAgree ==
    ASSUME NEW a \in Addresses, NEW b \in Addresses, NEW bits \in 0..W
    PROVE  And(a, Mask(bits)) = And(b, Mask(bits)) <=> SamePrefix(a, b, bits)
<1> DEFINE M(x) == [i \in 1..W |-> IF x[i] = 1 THEN (IF i <= bits THEN 1 ELSE 0) ELSE 0]
<1>1. And(a, Mask(bits)) = M(a) /\ And(b, Mask(bits)) = M(b)
  BY MaskIsPrefix DEF And
<1>2. ASSUME M(a) = M(b) PROVE SamePrefix(a, b, bits)
  <2> SUFFICES ASSUME NEW i \in 1..bits PROVE a[i] = b[i]
    BY DEF SamePrefix
  <2>1. i \in 1..W /\ i <= bits
    BY ApiKeysAssumption
  <2>2. M(a)[i] = M(b)[i]
    BY <1>2
  <2>3. a[i] \in {0, 1} /\ b[i] \in {0, 1}
    BY <2>1 DEF Addresses
  <2> QED
    BY <2>1, <2>2, <2>3
<1>3. ASSUME SamePrefix(a, b, bits) PROVE M(a) = M(b)
  <2>1. \A i \in 1..W : i <= bits => a[i] = b[i]
    BY <1>3, ApiKeysAssumption DEF SamePrefix
  <2> QED
    BY <2>1
<1> QED
  BY <1>1, <1>2, <1>3

\* An entry matches an address that shares the bits it asks for.
LEMMA EntryMatches ==
    ASSUME NEW ip \in Addresses, NEW x \in AllowedEntries
    PROVE  IpMatchesCidr(ip, x)
             <=> SamePrefix(ip, x.range, IF x.bits = Single THEN W ELSE x.bits)
<1>1. x.range \in Addresses /\ x.bits \in 0..(W + 1)
  BY DEF AllowedEntries, Single
<1>2. CASE x.bits = Single
  <2>1. ASSUME SamePrefix(ip, x.range, W) PROVE ip = x.range
    <3>1. \A i \in 1..W : ip[i] = x.range[i]
      BY <2>1 DEF SamePrefix
    <3>2. ip \in [1..W -> {0, 1}] /\ x.range \in [1..W -> {0, 1}]
      BY <1>1 DEF Addresses
    <3>3. ip = [i \in 1..W |-> ip[i]] /\ x.range = [i \in 1..W |-> x.range[i]]
      BY <3>2
    <3> QED
      BY <3>1, <3>3
  <2>2. ip = x.range => SamePrefix(ip, x.range, W)
    BY DEF SamePrefix
  <2> QED
    BY <1>2, <2>1, <2>2 DEF IpMatchesCidr
<1>3. CASE x.bits # Single
  <2>1. x.bits \in 0..W
    BY <1>1, <1>3, ApiKeysAssumption DEF Single
  <2> QED
    BY <1>1, <1>3, <2>1, MaskedAgree DEF IpMatchesCidr
<1> QED
  BY <1>2, <1>3

-----------------------------------------------------------------------------
\* The inductive invariant: what was decided stays true of the key, which keeps its scope and its list
\* once it is made.
Decided(d) ==
    d.state = "live" =>
        /\ apiKey[d.k].state # "none"
        /\ d.let <=> /\ IsIpAllowed(d.ip, apiKey[d.k].entry)
                     /\ ScopeRank[apiKey[d.k].scope] >= ScopeRank[d.required]

ApiKeysInv == ApiKeysTypeOK /\ \A n \in DOMAIN decision : Decided(decision[n])

LEMMA ApiKeysInitHolds == ApiKeysInit => ApiKeysInv
  BY ApiKeysAssumption DEF ApiKeysInit, ApiKeysInv, ApiKeysTypeOK, NoKeyYet, ApiKeyRows, KeyStates, Scopes, ScopeRank, Decisions

LEMMA ApiKeysStep == ApiKeysInv /\ [ApiKeysNext]_apiKeysVars => ApiKeysInv'
<1> SUFFICES ASSUME ApiKeysInv, [ApiKeysNext]_apiKeysVars PROVE ApiKeysInv'
  OBVIOUS
<1>t. /\ apiKey \in [ApiKeyIds -> ApiKeyRows]
      /\ decision \in Seq(Decisions) /\ Len(decision) <= MaxDecisions
  BY DEF ApiKeysInv, ApiKeysTypeOK
<1>d. \A n \in DOMAIN decision : decision[n] \in Decisions /\ Decided(decision[n])
  BY <1>t DEF ApiKeysInv
<1>1. ASSUME NEW k \in ApiKeyIds, NEW scope \in Scopes, NEW entry \in SUBSET AllowedEntries,
             CreateKey(k, scope, entry)
      PROVE  ApiKeysInv'
  <2>1. [state |-> "live", scope |-> scope, entry |-> entry] \in ApiKeyRows
    BY DEF ApiKeyRows, KeyStates
  <2>2. ApiKeysTypeOK'
    BY <1>1, <1>t, <2>1 DEF CreateKey, ApiKeysTypeOK
  <2>3. ASSUME NEW n \in DOMAIN decision PROVE Decided(decision[n])'
    <3>1. decision[n].state = "live" => decision[n].k # k
      BY <1>1, <1>d DEF CreateKey, Decided
    <3>2. decision[n].state = "live" => apiKey'[decision[n].k] = apiKey[decision[n].k]
      BY <1>1, <1>t, <1>d, <3>1 DEF CreateKey, Decisions
    <3> QED
      BY <1>1, <1>d, <3>2 DEF CreateKey, Decided
  <2> QED
    BY <1>1, <2>2, <2>3 DEF ApiKeysInv, CreateKey
<1>2. ASSUME NEW k \in ApiKeyIds, NEW how \in {"revoked", "expired"}, EndKey(k, how)
      PROVE  ApiKeysInv'
  <2>1. \A j \in ApiKeyIds : /\ apiKey'[j] \in ApiKeyRows
                             /\ apiKey'[j].scope = apiKey[j].scope /\ apiKey'[j].entry = apiKey[j].entry
                             /\ apiKey[j].state # "none" => apiKey'[j].state # "none"
    BY <1>2, <1>t DEF EndKey, ApiKeyRows, KeyStates
  <2>2. ApiKeysTypeOK'
    BY <1>2, <1>t, <2>1 DEF EndKey, ApiKeysTypeOK
  <2>3. ASSUME NEW n \in DOMAIN decision PROVE Decided(decision[n])'
    <3>1. decision[n].k \in ApiKeyIds
      BY <1>d DEF Decisions
    <3> QED
      BY <1>2, <1>d, <2>1, <3>1 DEF EndKey, Decided
  <2> QED
    BY <1>2, <2>2, <2>3 DEF ApiKeysInv, EndKey
<1>3. ASSUME NEW k \in ApiKeyIds, NEW ip \in Addresses, NEW required \in Scopes,
             Decide(k, ip, required)
      PROVE  ApiKeysInv'
  <2>1. PICK d \in Decisions :
            /\ decision' = Append(decision, d)
            /\ d.k = k /\ d.ip = ip /\ d.required = required /\ d.state = apiKey[k].state
            /\ d.let <=> /\ Validates(k, ip)
                         /\ ScopeRank[apiKey[k].scope] >= ScopeRank[required]
    <3> DEFINE let == Validates(k, ip) /\ ScopeRank[apiKey[k].scope] >= ScopeRank[required]
               e == [k |-> k, ip |-> ip, required |-> required, state |-> apiKey[k].state, let |-> let]
    <3>1. e \in Decisions
      BY <1>t DEF Decisions, ApiKeyRows
    <3>2. decision' = Append(decision, e)
      BY <1>3 DEF Decide
    <3>3. e.let <=> let
      BY Zenon
    <3> QED
      BY <3>1, <3>2, <3>3
  <2>2. apiKey' = apiKey /\ Len(decision) < MaxDecisions
    BY <1>3 DEF Decide
  <2>3. ApiKeysTypeOK'
    BY <1>t, <2>1, <2>2, ApiKeysAssumption DEF ApiKeysTypeOK
  <2>4. ASSUME NEW n \in DOMAIN decision' PROVE Decided(decision[n])'
    <3>1. decision'[n] = d \/ (n \in DOMAIN decision /\ decision'[n] = decision[n])
      BY <1>t, <2>1
    <3>2. CASE n \in DOMAIN decision /\ decision'[n] = decision[n]
      BY <1>d, <2>2, <3>2 DEF Decided
    <3>3. CASE decision'[n] = d
      BY <2>1, <2>2, <3>3 DEF Decided, Validates
    <3> QED
      BY <3>1, <3>2, <3>3
  <2> QED
    BY <2>3, <2>4 DEF ApiKeysInv
<1>4. CASE UNCHANGED apiKeysVars
  BY <1>4 DEF apiKeysVars, ApiKeysInv, ApiKeysTypeOK, Decided
<1>5. \A x \in AllowedEntries : {x} \in SUBSET AllowedEntries
  OBVIOUS
<1> QED
  BY <1>1, <1>2, <1>3, <1>4, <1>5 DEF ApiKeysNext

\* Keys and decisions have their types (api_keys, canActivate).
THEOREM ApiKeysTypeCorrect == ApiKeysSpec => []ApiKeysTypeOK
<1>1. ApiKeysInv => ApiKeysTypeOK
  BY DEF ApiKeysInv
<1> QED
  BY <1>1, ApiKeysInitHolds, ApiKeysStep, PTL DEF ApiKeysSpec

\* For words of any width, any list and any address: the guard lets an address
\* through exactly when the key has no list or an entry shares the leading bits
\* it asks for, /0 and the full width included (ipMatchesCidr, lines 18-39).
THEOREM AllowedIsListed == ApiKeysSpec => []AddressesAsListed
<1>1. ApiKeysInv => AddressesAsListed
  <2> SUFFICES ASSUME ApiKeysInv, NEW n \in DOMAIN decision,
                      decision[n].state = "live",
                      ScopeRank[apiKey[decision[n].k].scope] >= ScopeRank[decision[n].required]
               PROVE  LET d == decision[n]
                          listed == apiKey[d.k].entry
                      IN  d.let = (listed = {} \/ \E x \in listed : SamePrefix(d.ip, x.range,
                                         IF x.bits = Single THEN W ELSE x.bits))
    BY DEF AddressesAsListed
  <2>1. decision[n] \in Decisions
    BY DEF ApiKeysInv, ApiKeysTypeOK
  <2>2. /\ decision[n].ip \in Addresses /\ decision[n].let \in BOOLEAN
        /\ apiKey[decision[n].k].entry \subseteq AllowedEntries
    BY <2>1 DEF Decisions, ApiKeysInv, ApiKeysTypeOK, ApiKeyRows
  <2>3. decision[n].let <=> IsIpAllowed(decision[n].ip, apiKey[decision[n].k].entry)
    BY DEF ApiKeysInv, Decided
  <2>4. \A x \in apiKey[decision[n].k].entry :
            IpMatchesCidr(decision[n].ip, x)
              <=> SamePrefix(decision[n].ip, x.range, IF x.bits = Single THEN W ELSE x.bits)
    BY <2>2, EntryMatches
  <2> QED
    BY <2>2, <2>3, <2>4, Zenon DEF IsIpAllowed
<1> QED
  BY <1>1, ApiKeysInitHolds, ApiKeysStep, PTL DEF ApiKeysSpec
=============================================================================
