-------------------------------- MODULE Router --------------------------------
(***************************************************************************)
(* The application router (applications/router/main.c): the producer sends *)
(* NMAX tokens to the routers by one channel, they pass them on to the     *)
(* consumer by a second one, in any order. A channel is the FIFO that      *)
(* MwmrChannel is shown to implement.                                      *)
(*                                                                         *)
(* init_ok is not volatile: in the polling loops of the consumer and of    *)
(* the routers, the compiler may read it once, before the loop; a task     *)
(* that has read zero then spins for ever.                                 *)
(***************************************************************************)
EXTENDS Naturals, Sequences, FiniteSets

CONSTANTS Routers,      \* the tasks router, positive numbers
          NMAX,         \* number of tokens
          DEPTH         \* items in a channel

VARIABLES init_ok,
          fifo_in, fifo_out,    \* the items of the channels
          n,                    \* tokens that the producer has sent
          started,              \* the tasks that have left their polling loop
          spins,                \* and those that never will
          buf,                  \* the token of a router, {} or {token}
          router_tab, consumer_tab

vars == <<init_ok, fifo_in, fifo_out, n, started, spins, buf, router_tab, consumer_tab>>

Tokens == 0 .. NMAX - 1
Consumer == 0
Polling == Routers \cup {Consumer}

Init ==
  /\ init_ok = 0
  /\ fifo_in = <<>> /\ fifo_out = <<>>
  /\ n = 0
  /\ started = {} /\ spins = {}
  /\ buf = [r \in Routers |-> {}]
  /\ router_tab = [t \in Tokens |-> 0]
  /\ consumer_tab = <<>>

\* The producer: mwmr_init, then one mwmr_write for each token. It exits.
Initialise ==
  /\ init_ok = 0
  /\ init_ok' = 1
  /\ UNCHANGED <<fifo_in, fifo_out, n, started, spins, buf, router_tab, consumer_tab>>

Send ==
  /\ init_ok = 1 /\ n < NMAX /\ Len(fifo_in) < DEPTH
  /\ fifo_in' = Append(fifo_in, n)
  /\ n' = n + 1
  /\ UNCHANGED <<init_ok, fifo_out, started, spins, buf, router_tab, consumer_tab>>

\* The loop that waits for init_ok.
SeeReady(t) ==
  /\ t \notin started \cup spins /\ init_ok = 1
  /\ started' = started \cup {t}
  /\ UNCHANGED <<init_ok, fifo_in, fifo_out, n, spins, buf, router_tab, consumer_tab>>

ReadOnce(t) ==
  /\ t \notin started \cup spins /\ init_ok = 0
  /\ spins' = spins \cup {t}
  /\ UNCHANGED <<init_ok, fifo_in, fifo_out, n, started, buf, router_tab, consumer_tab>>

\* A router reads a token, writes its name for it, and passes it on.
Take(r) ==
  /\ r \in started /\ buf[r] = {} /\ fifo_in # <<>>
  /\ buf' = [buf EXCEPT ![r] = {Head(fifo_in)}]
  /\ fifo_in' = Tail(fifo_in)
  /\ UNCHANGED <<init_ok, fifo_out, n, started, spins, router_tab, consumer_tab>>

Mark(r) ==
  /\ \E token \in buf[r] :
       router_tab[token] # r /\ router_tab' = [router_tab EXCEPT ![token] = r]
  /\ UNCHANGED <<init_ok, fifo_in, fifo_out, n, started, spins, buf, consumer_tab>>

Pass(r) ==
  /\ Len(fifo_out) < DEPTH
  /\ \E token \in buf[r] :
       router_tab[token] = r /\ fifo_out' = Append(fifo_out, token)
  /\ buf' = [buf EXCEPT ![r] = {}]
  /\ UNCHANGED <<init_ok, fifo_in, n, started, spins, router_tab, consumer_tab>>

Receive ==
  /\ Consumer \in started /\ Len(consumer_tab) < NMAX
  /\ fifo_out # <<>>
  /\ consumer_tab' = Append(consumer_tab, Head(fifo_out))
  /\ fifo_out' = Tail(fifo_out)
  /\ UNCHANGED <<init_ok, fifo_in, n, started, spins, buf, router_tab>>

Progress ==
  \/ Initialise \/ Send \/ Receive
  \/ \E t \in Polling : SeeReady(t)
  \/ \E r \in Routers : Take(r) \/ Mark(r) \/ Pass(r)

\* A routing task never ends: it polls init_ok, or an empty channel.
Poll == UNCHANGED vars

Next == Progress \/ Poll \/ \E t \in Polling : ReadOnce(t)

-----------------------------------------------------------------------------
(* Properties                                                              *)

Elements(s) == {s[i] : i \in DOMAIN s}

TypeOK ==
  /\ init_ok \in {0, 1} /\ n \in 0 .. NMAX
  /\ Len(fifo_in) <= DEPTH /\ Len(fifo_out) <= DEPTH
  /\ started \cup spins \subseteq Polling /\ started \cap spins = {}
  /\ \A r \in Routers : buf[r] \subseteq Tokens
  /\ router_tab \in [Tokens -> Polling]
  /\ consumer_tab \in Seq(Tokens)

\* Every token that was sent is in one place, once.
OnePlace ==
  LET held == UNION {buf[r] : r \in Routers}
      count == Len(fifo_in) + Len(fifo_out) + Len(consumer_tab)
                 + Cardinality({r \in Routers : buf[r] # {}})
  IN /\ Elements(fifo_in) \cup Elements(fifo_out) \cup Elements(consumer_tab) \cup held
          = {t \in Tokens : t < n}
     /\ count = n

\* What the consumer displays for a token is the name of a router.
RouterKnown ==
  \A t \in Elements(fifo_out) \cup Elements(consumer_tab) : router_tab[t] \in Routers

\* The consumer can go on until it has all the tokens, when at least one router and
\* the consumer have seen init_ok.
Flows ==
  (started \cap Routers # {} /\ Consumer \in started /\ Len(consumer_tab) < NMAX) =>
    \/ n < NMAX /\ Len(fifo_in) < DEPTH
    \/ fifo_out # <<>>
    \/ \E r \in started : r # Consumer /\ (fifo_in # <<>> \/ buf[r] # {})

=============================================================================
