--------------------------------- MODULE Lease ---------------------------------
(***************************************************************************)
(* internal/network: Up and the goroutine maintain that it starts, on one  *)
(* interface, against a DHCP server that may be silent, change what it     *)
(* offers, or offer no DNS server.                                         *)
(*                                                                         *)
(* Time is counted in units of reacquireRetry (30 s).  An exchange is      *)
(* bounded by min(dhcpTimeout, remaining), less than one unit, and takes   *)
(* no time here.  ctx is never cancelled on a node, so the branches that   *)
(* only a cancelled ctx takes are left out.                                *)
(***************************************************************************)
EXTENDS Naturals, FiniteSetsExt

CONSTANTS
  Addr, Gateway, NoGateway, Dns, NoDns,
  Offers,        \* the configurations the server may put in an ACK
  Duration,      \* the lease times it may grant
  Forever,       \* infiniteLease, or no lease time at all
  Renewal        \* the values of option 58 it may send; 0: none

ASSUME LeaseAssumption ==
  /\ Offers \subseteq [addr : Addr, gw : Gateway \cup {NoGateway}, dns : Dns \cup {NoDns}]
  /\ Duration \subseteq Nat /\ Forever \in Nat /\ Renewal \subseteq Nat
  /\ \A d \in Duration : 1 < d /\ d <= Forever

VARIABLES
  pc,       \* where Up, then maintain, is
  cfg,      \* the config maintain holds to be applied
  wake,     \* the time until its timer fires
  left,     \* what remains of the server's lease of each address to us
  addrs, route, resolv,   \* the interface, the default route, resolv.conf
  failed,   \* some operation has failed
  clean     \* none has failed since the last ACK was received

kernel == <<addrs, route, resolv>>
vars   == <<pc, cfg, wake, left, kernel, failed, clean>>

RenewRetryMin  == 2
ReacquireRetry == 1

TypeOK ==
  /\ pc \in {"up", "asleep", "lost", "forever", "dead"}
  /\ cfg \in Offers
  /\ wake \in 0..Forever
  /\ left \in [Addr -> 0..Forever]
  /\ addrs \in SUBSET Addr
  /\ route \in Gateway \cup {NoGateway}
  /\ resolv \in Dns \cup {NoDns}
  /\ failed \in BOOLEAN /\ clean \in BOOLEAN

Init ==
  /\ pc = "up" /\ cfg \in Offers /\ wake = 0
  /\ left = [a \in Addr |-> 0]
  /\ addrs = {} /\ route = NoGateway /\ resolv = NoDns
  /\ failed = FALSE /\ clean = TRUE

-------------------------------------------------------------------------------
(***************************************************************************)
(* leaseTimers.                                                            *)
(***************************************************************************)
RenewAtTrusting(d, r) == IF r = 0 THEN d \div 2 ELSE r

RenewAt(d, r) == IF r = 0 \/ r >= d THEN d \div 2 ELSE r

\* maintain's next round: return at once if the lease never expires.
Hold(c, d, r) ==
  /\ cfg' = c
  /\ IF d = Forever THEN pc' = "forever" /\ wake' = 0
                    ELSE pc' = "asleep" /\ wake' = RenewAt(d, r)

Granted(c, d) == left' = [left EXCEPT ![c.addr] = d]

(***************************************************************************)
(* apply and unapply: what they may leave of the interface, the route and  *)
(* resolv.conf.  apply stops at its first failure; no DNS server is one.   *)
(* unapply only prints failures.  Deleting an address drops its routes.    *)
(***************************************************************************)
State(a, r, d, ok) == [addrs |-> a, route |-> r, resolv |-> d, ok |-> ok]

Routed(c, r) == IF c.gw = NoGateway THEN r ELSE c.gw

Applied(c, s) ==
  LET a == s.addrs \cup {c.addr}
      r == Routed(c, s.route)
  IN  {State(s.addrs, s.route, s.resolv, FALSE), State(a, s.route, s.resolv, FALSE),
       State(a, r, s.resolv, FALSE)}
      \cup (IF c.dns = NoDns THEN {} ELSE {State(a, r, c.dns, s.ok)})

Unapplied(c, s) ==
  {State(s.addrs \ {c.addr}, NoGateway, s.resolv, s.ok)}
    \cup {State(s.addrs, r, s.resolv, FALSE) : r \in {s.route, NoGateway}}

Now == State(addrs, route, resolv, TRUE)

\* withLink may fail before its function runs.
NoLink == {State(addrs, route, resolv, FALSE)}

Becomes(s) ==
  /\ addrs' = s.addrs /\ route' = s.route /\ resolv' = s.resolv
  /\ failed' = (failed \/ ~s.ok) /\ clean' = s.ok

ChangedIgnoresDns(a, b) == a.addr # b.addr \/ a.gw # b.gw
ConfigChanged(a, b) == a # b

-------------------------------------------------------------------------------
(***************************************************************************)
(* Up.                                                                     *)
(***************************************************************************)
UpConfigures(c, d, r) ==
  /\ pc = "up"
  /\ Granted(c, d)
  /\ \E s \in Applied(c, Now) :
       /\ Becomes(s)
       /\ IF s.ok THEN Hold(c, d, r) ELSE pc' = "dead" /\ UNCHANGED <<cfg, wake>>

\* No interface, or no answer: Boot goes on without network, nobody retries.
UpFails ==
  /\ pc = "up"
  /\ pc' = "dead"
  /\ UNCHANGED <<cfg, wake, left, kernel, failed, clean>>

-------------------------------------------------------------------------------
(***************************************************************************)
(* maintain: at T1 and then at every retry, until the lease has expired.   *)
(***************************************************************************)
Due(at) == pc = at /\ wake = 0

RenewSucceeds(c, d, r) ==
  /\ Due("asleep") /\ left[cfg.addr] > 0
  /\ Granted(c, d)
  /\ Hold(c, d, r)
  /\ IF ConfigChanged(cfg, c)
       THEN \E s \in NoLink \cup UNION {Applied(c, u) : u \in Unapplied(cfg, Now)} : Becomes(s)
       ELSE clean' = TRUE /\ UNCHANGED <<kernel, failed>>

RetryDoubles(remaining) == Max({remaining * 2, RenewRetryMin})

RetryWait(remaining) == Min({Max({remaining \div 2, RenewRetryMin}), remaining})

RenewFails ==
  /\ Due("asleep") /\ left[cfg.addr] > 0
  /\ wake' = RetryWait(left[cfg.addr])
  /\ UNCHANGED <<pc, cfg, left, kernel, failed, clean>>

ReleasedLater == {Now}
Released == NoLink \cup Unapplied(cfg, Now)

Expire ==
  /\ Due("asleep") /\ left[cfg.addr] = 0
  /\ pc' = "lost" /\ wake' = 0
  /\ \E s \in Released : Becomes(s)
  /\ UNCHANGED <<cfg, left>>

\* acquireAndApply: a lease whose configuration cannot be applied is dropped.
Reacquire(c, d, r) ==
  /\ Due("lost")
  /\ Granted(c, d)
  /\ \E s \in NoLink \cup Applied(c, Now) :
       /\ Becomes(s)
       /\ IF s.ok THEN Hold(c, d, r)
                  ELSE wake' = ReacquireRetry /\ UNCHANGED <<pc, cfg>>

GiveUp ==
  /\ Due("lost")
  /\ pc' = "dead"
  /\ UNCHANGED <<wake, cfg, left, kernel, failed, clean>>

ReacquireFails ==
  /\ Due("lost")
  /\ wake' = ReacquireRetry
  /\ UNCHANGED <<pc, cfg, left, kernel, failed, clean>>

-------------------------------------------------------------------------------
Waiting == (pc \in {"asleep", "lost"} /\ wake > 0) \/ pc \in {"forever", "dead"}

\* Time passes only while maintain waits: its own steps take none.
Tick ==
  /\ Waiting
  /\ wake' = IF wake > 0 THEN wake - 1 ELSE 0
  /\ left' = [a \in Addr |-> IF left[a] \in {0, Forever} THEN left[a] ELSE left[a] - 1]
  /\ UNCHANGED <<pc, cfg, kernel, failed, clean>>

Ack(A(_, _, _)) == \E c \in Offers, d \in Duration, r \in Renewal : A(c, d, r)

Next ==
  \/ Ack(UpConfigures) \/ UpFails
  \/ Ack(RenewSucceeds) \/ RenewFails \/ Expire
  \/ Ack(Reacquire) \/ ReacquireFails
  \/ Tick

Spec == Init /\ [][Next]_vars

\* Time passes, the goroutine runs, and a server that is asked again and again
\* at some time grants a lease that can be applied.
GoodReacquire == Ack(Reacquire) /\ pc' # "lost"

FairSpec == Spec /\ WF_vars(Tick) /\ WF_vars(Next) /\ SF_vars(GoodReacquire)

-------------------------------------------------------------------------------
\* maintain never sleeps past the end of its lease, whatever T1 the server sends
\* and however often renewing fails, so that expiry is acted on in time
\* (network.go:238, 345-348).
NeverSleepsPastExpiry == pc = "asleep" => wake <= left[cfg.addr]

\* As long as no operation failed, no address stays in use once the server is
\* free to give it to someone else (network.go:195-197, 261-264).
AddressCovered == ~failed /\ Waiting => \A a \in addrs : left[a] > 0

\* Between two exchanges the kernel and resolv.conf are what the last ACK said,
\* and nothing is left of an earlier one, unless an operation failed.
KernelMatchesLease ==
  ~failed /\ pc \in {"asleep", "forever"} =>
    addrs = {cfg.addr} /\ route = cfg.gw /\ resolv = cfg.dns

\* A node that lost its lease gets an address again: maintain never gives up.
LostRecovers == pc = "lost" ~> pc \in {"asleep", "forever"}

\* What network.go:416-420 says of a failed reconfigure: it is tried again at
\* the next renewal, so a renewal during which nothing fails leaves the
\* interface with the address of the lease.
RenewalConverges == pc = "asleep" /\ clean => cfg.addr \in addrs

===============================================================================
