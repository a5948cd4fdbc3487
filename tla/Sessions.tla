------------------------------ MODULE Sessions ------------------------------
(***************************************************************************)
(* The refresh tokens of merchants (auth.service.ts) and the cookie that   *)
(* carries them (auth.controller.ts).  A refresh is four calls: GET and    *)
(* DEL of the token in Redis, a query for the merchant, and SET of the new *)
(* token; its answer replaces the browser's cookie.  Several tabs may send *)
(* requests at once.                                                       *)
(*                                                                         *)
(* A session is one login or registration and the tokens refreshed from    *)
(* it.  A browser may log in again at any time: the cookie is overwritten  *)
(* and the session before it is not ended, so its last token stays in      *)
(* Redis, where no cookie names it, until it lapses.                       *)
(*                                                                         *)
(* Abstractions.  Tokens are numbered in the order they are made; the hash *)
(* stored under a token's key is left out (an id is 16 random bytes).      *)
(* Access tokens are not stored and not modelled: they expire by           *)
(* themselves.                                                             *)
(***************************************************************************)
EXTENDS Integers, FiniteSets

CONSTANTS
    Browsers,   \* each with its own cookie
    Posts,      \* requests to /auth
    MaxTokens   \* bound: tokens that are made

ASSUME SessionsAssumption == MaxTokens \in Nat \ {0} /\ Browsers # {}

Tokens == 1..MaxTokens
NoToken == 0
\* A session is named by its browser and its first token.
Sessions == Browsers \X Tokens

VARIABLES
    cookie,     \* what each browser's stargate_refresh holds
    alive,      \* keys refresh:<merchant>:<token> in Redis
    session,    \* the session of each token that was made
    made,       \* the last token made
    post,       \* what each request is doing
    out,        \* sessions that were logged out
    mixed       \* sessions with two requests at once, or a token not received

sessionsVars == <<cookie, alive, session, made, post, out, mixed>>

NoPost == [pc |-> "idle", op |-> "login", b |-> CHOOSE b \in Browsers : TRUE, t |-> NoToken]

SessionsInit ==
    /\ cookie = [b \in Browsers |-> NoToken]
    /\ alive = {} /\ made = 0 /\ session = <<>>
    /\ post = [p \in Posts |-> NoPost]
    /\ out = {} /\ mixed = {}

Running(p) == post[p].pc \in {"get", "del", "issue", "reply"}
PostGoes(p, pc) == post' = [post EXCEPT ![p].pc = pc]
TokensOf(s) == {t \in 1..made : session[t] = s}
\* Request p carries a token of session s.
WorksOn(p, s) == Running(p) /\ post[p].t \in TokensOf(s)

\* A request leaves the browser with the cookie of that moment.
Send(p, op, b, t, pc) ==
    /\ post[p].pc = "idle"
    /\ post' = [post EXCEPT ![p] = [pc |-> pc, op |-> op, b |-> b, t |-> t]]
    /\ mixed' = mixed \union
          {s \in Sessions : t \in TokensOf(s) /\ \E q \in Posts : WorksOn(q, s)}
    /\ UNCHANGED <<cookie, alive, session, made, out>>

\* register and login, the merchant and the password being right
LogIn(p, b) == Send(p, "login", b, NoToken, "issue")
StartRefresh(p, b) == cookie[b] # NoToken /\ Send(p, "refresh", b, cookie[b], "get")
\* Without a cookie there is nothing to delete.
StartLogout(p, b) ==
    Send(p, "logout", b, cookie[b], IF cookie[b] = NoToken THEN "reply" ELSE "del")

GetToken(p) ==
    /\ post[p].pc = "get"
    /\ PostGoes(p, IF post[p].t \in alive THEN "del" ELSE "refused")
    /\ UNCHANGED <<cookie, alive, session, made, out, mixed>>

\* Mutant: a logout clears the cookie only.
DelTokenOfRefresh(p) ==
    /\ post[p].pc = "del"
    /\ IF post[p].op = "refresh"
       THEN alive' = alive \ {post[p].t} /\ PostGoes(p, "issue") /\ UNCHANGED out
       ELSE UNCHANGED alive /\ PostGoes(p, "reply") /\ out' = out \union {session[post[p].t]}
    /\ UNCHANGED <<cookie, session, made, mixed>>

\* del; findOne and signAsync follow in a refresh
DelToken(p) ==
    /\ post[p].pc = "del"
    /\ alive' = alive \ {post[p].t}
    /\ IF post[p].op = "refresh" THEN PostGoes(p, "issue") /\ UNCHANGED out
       ELSE PostGoes(p, "reply") /\ out' = out \union {session[post[p].t]}
    /\ UNCHANGED <<cookie, session, made, mixed>>

\* issueTokens
IssueTokens(p) ==
    /\ post[p].pc = "issue" /\ made < MaxTokens
    /\ made' = made + 1
    /\ alive' = alive \union {made + 1}
    /\ session' = [t \in 1..made + 1 |->
          IF t <= made THEN session[t]
          ELSE IF post[p].op = "login" THEN <<post[p].b, t>> ELSE session[post[p].t]]
    /\ post' = [post EXCEPT ![p].pc = "reply", ![p].t = made + 1]
    /\ UNCHANGED <<cookie, out, mixed>>

\* setRefreshCookie, clearCookie
Reply(p) ==
    /\ post[p].pc = "reply"
    /\ cookie' = [cookie EXCEPT ![post[p].b] =
                     IF post[p].op = "logout" THEN NoToken ELSE post[p].t]
    /\ PostGoes(p, "done")
    /\ UNCHANGED <<alive, session, made, out, mixed>>

\* Redis or the database does not answer, or the browser hears no answer.
PostFails(p) ==
    /\ Running(p)
    /\ PostGoes(p, "failed")
    /\ mixed' = IF post[p].pc = "reply" /\ post[p].op = "refresh"
                THEN mixed \union {session[post[p].t]} ELSE mixed
    /\ UNCHANGED <<cookie, alive, session, made, out>>

\* EX 7 days
Lapse(t) ==
    /\ t \in alive
    /\ alive' = alive \ {t}
    /\ UNCHANGED <<cookie, session, made, post, out, mixed>>

SessionsNext ==
    \/ \E p \in Posts :
          \/ \E b \in Browsers : LogIn(p, b) \/ StartRefresh(p, b) \/ StartLogout(p, b)
          \/ GetToken(p) \/ DelToken(p) \/ IssueTokens(p) \/ Reply(p) \/ PostFails(p)
    \/ \E t \in alive : Lapse(t)

SessionsSpec == SessionsInit /\ [][SessionsNext]_sessionsVars

-----------------------------------------------------------------------------
PostStates ==
    [pc : {"idle", "get", "del", "issue", "reply", "done", "refused", "failed"},
     op : {"login", "refresh", "logout"}, b : Browsers, t : Tokens \union {NoToken}]

SessionsTypeOK ==
    /\ cookie \in [Browsers -> 0..made]
    /\ made \in 0..MaxTokens /\ alive \subseteq 1..made
    /\ session \in [1..made -> Sessions]
    /\ post \in [Posts -> PostStates]
    /\ out \subseteq Sessions /\ mixed \subseteq Sessions

\* A session that was logged out has no token alive, and any other has one at
\* most: the one its browser's cookie names, if that cookie is of the session
\* and no request has it in hand.  So the next logout ends the session, over
\* any number of logins, refreshes and logouts of its browser that overlap.
\* The exception is a session that had two requests under way at once or whose
\* new token did not reach the browser: the token a refresh deletes and the
\* one it makes are three calls apart (refresh, lines 65-69; logout, line 79).
LogoutEndsSession ==
    \A s \in Sessions \ mixed :
        LET left == alive \intersect TokensOf(s) IN
        /\ s \in out => left = {}
        /\ \A t, u \in left : t = u
        /\ (\A p \in Posts : ~WorksOn(p, s)) =>
              \A b \in Browsers : cookie[b] \in TokensOf(s) => left \subseteq {cookie[b]}
=============================================================================
