------------------------------ MODULE LeaseProofs ------------------------------
(***************************************************************************)
(* The safety of module Lease for every set of addresses and offers and    *)
(* every lease time and T1: maintain is never asleep when its lease ends,  *)
(* and the kernel has what the last ACK said, and no more.                 *)
(***************************************************************************)
EXTENDS Lease, TLAPS

States ==
  [addrs : SUBSET Addr, route : Gateway \cup {NoGateway}, resolv : Dns \cup {NoDns}, ok : BOOLEAN]

\* A node that holds no lease has no address and no default route.
Empty == addrs = {} /\ route = NoGateway

\* A lease was granted, and one for ever lasts.
Granting ==
  /\ pc \in {"asleep", "lost", "forever"} => Forever > 0
  /\ pc = "forever" => left[cfg.addr] = Forever

KernelInv ==
  ~failed => IF pc \in {"asleep", "forever"}
               THEN addrs = {cfg.addr} /\ route = cfg.gw /\ resolv = cfg.dns
               ELSE Empty

IInv == TypeOK /\ NeverSleepsPastExpiry /\ Granting /\ KernelInv

-------------------------------------------------------------------------------
(***************************************************************************)
(* The timers.                                                             *)
(***************************************************************************)
LEMMA MinOfTwo ==
  ASSUME NEW x \in Nat, NEW y \in Nat
  PROVE  Min({x, y}) \in {x, y} /\ Min({x, y}) <= x /\ Min({x, y}) <= y
<1>1. \E m \in {x, y} : \A z \in {x, y} : m <= z
  OBVIOUS
<1>2. Min({x, y}) \in {x, y} /\ \A z \in {x, y} : Min({x, y}) <= z
  BY <1>1 DEF Min
<1> QED
  BY <1>2

\* The maximum of two numbers is one of them.
LEMMA MaxOfTwo ==
  ASSUME NEW x \in Nat, NEW y \in Nat
  PROVE  Max({x, y}) \in {x, y}
<1>1. \E m \in {x, y} : \A z \in {x, y} : m >= z
  OBVIOUS
<1> QED
  BY <1>1 DEF Max

\* A retry never waits longer than what remains of the lease.
LEMMA RetryInTime ==
  ASSUME NEW n \in Nat
  PROVE  RetryWait(n) \in 0..n
<1> DEFINE m == Max({n \div 2, RenewRetryMin})
<1>1. n \div 2 \in Nat /\ RenewRetryMin \in Nat
  BY DEF RenewRetryMin
<1>2. m \in Nat
  BY <1>1, MaxOfTwo
<1> HIDE DEF m
<1>3. Min({m, n}) \in {m, n} /\ Min({m, n}) <= n
  BY <1>2, MinOfTwo
<1>4. RetryWait(n) = Min({m, n})
  BY DEF RetryWait, m
<1> QED
  BY <1>2, <1>3, <1>4

\* Neither does T1, whatever the server sends.
LEMMA RenewInTime ==
  ASSUME NEW d \in Duration, NEW r \in Renewal
  PROVE  RenewAt(d, r) \in 0..d /\ d \in 0..Forever /\ d > 0
BY LeaseAssumption DEF RenewAt

-------------------------------------------------------------------------------
(***************************************************************************)
(* What apply and unapply leave.                                           *)
(***************************************************************************)
LEMMA StateOf ==
  ASSUME NEW a \in SUBSET Addr, NEW r \in Gateway \cup {NoGateway},
         NEW d \in Dns \cup {NoDns}, NEW ok \in BOOLEAN
  PROVE  /\ State(a, r, d, ok) \in States
         /\ State(a, r, d, ok).addrs = a /\ State(a, r, d, ok).route = r
         /\ State(a, r, d, ok).resolv = d /\ State(a, r, d, ok).ok = ok
BY DEF State, States

\* What the kernel has is one of the states that applying begins with.
LEMMA NowIsState ==
  TypeOK => Now \in States /\ \A s \in NoLink : s \in States /\ s.ok = FALSE
<1> SUFFICES ASSUME TypeOK PROVE Now \in States /\ \A s \in NoLink : s \in States /\ s.ok = FALSE
  OBVIOUS
<1>1. addrs \in SUBSET Addr /\ route \in Gateway \cup {NoGateway} /\ resolv \in Dns \cup {NoDns}
  BY DEF TypeOK
<1>2. State(addrs, route, resolv, TRUE) \in States
  BY <1>1, StateOf
<1>3. LET n == State(addrs, route, resolv, FALSE) IN n \in States /\ n.ok = FALSE
  BY <1>1, StateOf, ZenonT(30)
<1> QED
  BY <1>2, <1>3 DEF Now, NoLink

\* Applying a configuration that does not fail adds the address, and sets route and resolver.
LEMMA ApplyLeaves ==
  ASSUME NEW c \in Offers, NEW s \in States, NEW t \in Applied(c, s)
  PROVE  /\ t \in States
         /\ t.ok => /\ s.ok /\ t.addrs = s.addrs \cup {c.addr}
                    /\ t.route = Routed(c, s.route) /\ t.resolv = c.dns
<1> DEFINE a == s.addrs \cup {c.addr}
<1> DEFINE r == Routed(c, s.route)
<1>1. c.addr \in Addr /\ c.gw \in Gateway \cup {NoGateway} /\ c.dns \in Dns \cup {NoDns}
  BY LeaseAssumption
<1>2. /\ s.addrs \in SUBSET Addr /\ s.route \in Gateway \cup {NoGateway}
      /\ s.resolv \in Dns \cup {NoDns} /\ s.ok \in BOOLEAN
  BY DEF States
<1>3. a \in SUBSET Addr /\ r \in Gateway \cup {NoGateway}
  BY <1>1, <1>2 DEF Routed
<1>4. \/ t = State(s.addrs, s.route, s.resolv, FALSE)
      \/ t = State(a, s.route, s.resolv, FALSE)
      \/ t = State(a, r, s.resolv, FALSE)
      \/ t = State(a, r, c.dns, s.ok)
  BY DEF Applied
<1> HIDE DEF a, r
<1> DEFINE Good == t \in States /\ (t.ok => s.ok /\ t.addrs = a /\ t.route = r /\ t.resolv = c.dns)
<1>5. ASSUME t = State(s.addrs, s.route, s.resolv, FALSE) PROVE Good
  <2>1. t \in States /\ t.ok = FALSE
    BY <1>2, <1>5 DEF State, States
  <2> QED
    BY <2>1
<1>6. ASSUME t = State(a, s.route, s.resolv, FALSE) PROVE Good
  <2>1. t \in States /\ t.ok = FALSE
    BY <1>2, <1>3, <1>6 DEF State, States
  <2> QED
    BY <2>1
<1>7. ASSUME t = State(a, r, s.resolv, FALSE) PROVE Good
  <2>1. t \in States /\ t.ok = FALSE
    BY <1>2, <1>3, <1>7 DEF State, States
  <2> QED
    BY <2>1
<1>8. ASSUME t = State(a, r, c.dns, s.ok) PROVE Good
  <2>1. t \in States /\ t.addrs = a /\ t.route = r /\ t.resolv = c.dns /\ t.ok = s.ok
    BY <1>1, <1>2, <1>3, <1>8 DEF State, States
  <2> QED
    BY <2>1
<1>9. Good
  BY <1>4, <1>5, <1>6, <1>7, <1>8
<1> QED
  BY <1>9 DEF a, r

\* Unapplying one that does not fail removes the address and the route, not the resolver.
LEMMA UnapplyLeaves ==
  ASSUME NEW c \in Offers, NEW s \in States, NEW t \in Unapplied(c, s)
  PROVE  /\ t \in States
         /\ t.ok => /\ s.ok /\ t.addrs = s.addrs \ {c.addr}
                    /\ t.route = NoGateway /\ t.resolv = s.resolv
<1> DEFINE a == s.addrs \ {c.addr}
<1>1. /\ s.addrs \in SUBSET Addr /\ a \in SUBSET Addr /\ s.route \in Gateway \cup {NoGateway}
      /\ s.resolv \in Dns \cup {NoDns} /\ s.ok \in BOOLEAN
  BY DEF States
<1>2. \/ t = State(a, NoGateway, s.resolv, s.ok)
      \/ \E r \in {s.route, NoGateway} : t = State(s.addrs, r, s.resolv, FALSE)
  BY DEF Unapplied
<1> HIDE DEF a
<1> DEFINE Good == /\ t \in States
                   /\ t.ok => s.ok /\ t.addrs = a /\ t.route = NoGateway /\ t.resolv = s.resolv
<1>3. ASSUME t = State(a, NoGateway, s.resolv, s.ok) PROVE Good
  <2>1. t \in States /\ t.addrs = a /\ t.route = NoGateway /\ t.resolv = s.resolv /\ t.ok = s.ok
    BY <1>1, <1>3 DEF State, States
  <2> QED
    BY <2>1
<1>4. ASSUME NEW r \in {s.route, NoGateway}, t = State(s.addrs, r, s.resolv, FALSE)
      PROVE  Good
  <2>1. t \in States /\ t.ok = FALSE
    BY <1>1, <1>4 DEF State, States
  <2> QED
    BY <2>1
<1>5. Good
  BY <1>2, <1>3, <1>4
<1> QED
  BY <1>5 DEF a

-------------------------------------------------------------------------------
(***************************************************************************)
(* The steps.                                                              *)
(***************************************************************************)
LEMMA InitHolds == Init => IInv
<1> SUFFICES ASSUME Init PROVE IInv
  OBVIOUS
<1>1. 0 \in 0..Forever
  BY LeaseAssumption
<1>2. TypeOK
  BY <1>1 DEF Init, TypeOK
<1> QED
  BY <1>2 DEF Init, IInv, NeverSleepsPastExpiry, Granting, KernelInv, Empty

\* A lease is held whose configuration the kernel has.
LEMMA HoldKeeps ==
  ASSUME IInv, NEW c \in Offers, NEW d \in Duration, NEW r \in Renewal, NEW s \in States,
         Granted(c, d), Hold(c, d, r), addrs' = s.addrs, route' = s.route, resolv' = s.resolv,
         failed' \in BOOLEAN, clean' \in BOOLEAN,
         ~failed' => s.addrs = {c.addr} /\ s.route = c.gw /\ s.resolv = c.dns
  PROVE  IInv'
<1>1. c.addr \in Addr /\ Forever \in Nat
  BY LeaseAssumption
<1>2. cfg' = c /\ left' \in [Addr -> 0..Forever] /\ left'[c.addr] = d /\ d > 0
  BY <1>1, RenewInTime DEF Granted, Hold, IInv, TypeOK
<1>3. \/ pc' = "forever" /\ wake' = 0 /\ d = Forever
      \/ pc' = "asleep" /\ wake' \in 0..d
  BY RenewInTime DEF Hold
<1>4. wake' \in 0..Forever
  BY <1>1, <1>3, RenewInTime
<1>5. TypeOK'
  BY <1>2, <1>3, <1>4 DEF TypeOK, States
<1>6. NeverSleepsPastExpiry'
  BY <1>2, <1>3 DEF NeverSleepsPastExpiry
<1>7. Granting'
  <2>1. Forever > 0
    BY <1>1, RenewInTime
  <2> QED
    BY <1>2, <1>3, <2>1 DEF Granting
<1>8. KernelInv'
  BY <1>2, <1>3 DEF KernelInv
<1> QED
  BY <1>5, <1>6, <1>7, <1>8 DEF IInv

\* No lease is held.
LEMMA LoseKeeps ==
  ASSUME IInv, NEW s \in States, pc' \in {"lost", "dead"}, cfg' \in Offers, wake' \in {wake, 0, 1},
         left' \in [Addr -> 0..Forever], addrs' = s.addrs, route' = s.route, resolv' = s.resolv,
         failed' \in BOOLEAN, clean' \in BOOLEAN, 0 < Forever,
         ~failed' => s.addrs = {} /\ s.route = NoGateway
  PROVE  IInv'
<1>1. TypeOK'
  BY LeaseAssumption DEF IInv, TypeOK, States
<1>2. NeverSleepsPastExpiry' /\ Granting' /\ KernelInv'
  BY DEF NeverSleepsPastExpiry, Granting, KernelInv, Empty
<1> QED
  BY <1>1, <1>2 DEF IInv

\* The first lease is configured on an empty interface.
LEMMA UpKeeps ==
  ASSUME IInv, NEW c \in Offers, NEW d \in Duration, NEW r \in Renewal, UpConfigures(c, d, r)
  PROVE  IInv'
<1>1. PICK s \in Applied(c, Now) :
        Becomes(s) /\ IF s.ok THEN Hold(c, d, r) ELSE pc' = "dead" /\ UNCHANGED <<cfg, wake>>
  BY DEF UpConfigures
<1>2. s \in States /\ (s.ok => /\ s.addrs = Now.addrs \cup {c.addr}
                               /\ s.route = Routed(c, Now.route) /\ s.resolv = c.dns)
  BY <1>1, ApplyLeaves, NowIsState DEF IInv
<1>3. Now.addrs = addrs /\ Now.route = route
  BY DEF Now, State
<1>4. failed' = (failed \/ ~s.ok) /\ failed' \in BOOLEAN /\ clean' \in BOOLEAN
  BY <1>1, <1>2 DEF Becomes, IInv, TypeOK, States
<1>5. ~failed => addrs = {} /\ route = NoGateway
  BY DEF UpConfigures, IInv, KernelInv, Empty
<1>6. Granted(c, d) /\ addrs' = s.addrs /\ route' = s.route /\ resolv' = s.resolv
  BY <1>1 DEF UpConfigures, Becomes
<1>7. CASE s.ok
  <2>1. ~failed' => s.addrs = {c.addr} /\ s.route = c.gw /\ s.resolv = c.dns
    BY <1>2, <1>3, <1>4, <1>5, <1>7 DEF Routed
  <2> QED
    BY <1>1, <1>2, <1>4, <1>6, <1>7, <2>1, HoldKeeps
<1>8. CASE ~s.ok
  <2>1. left' \in [Addr -> 0..Forever] /\ 0 < Forever
    BY <1>6, RenewInTime, LeaseAssumption DEF Granted, IInv, TypeOK
  <2>2. pc' = "dead" /\ cfg' \in Offers /\ wake' = wake /\ failed'
    BY <1>1, <1>4, <1>8 DEF IInv, TypeOK
  <2> QED
    BY <1>2, <1>4, <1>6, <2>1, <2>2, LoseKeeps
<1> QED
  BY <1>7, <1>8

\* A renewed lease replaces the address, unless a step of that fails.
LEMMA RenewKeeps ==
  ASSUME IInv, NEW c \in Offers, NEW d \in Duration, NEW r \in Renewal, RenewSucceeds(c, d, r)
  PROVE  IInv'
<1>1. cfg \in Offers /\ Granted(c, d) /\ Hold(c, d, r) /\ pc = "asleep"
  BY DEF RenewSucceeds, Due, IInv, TypeOK
<1>2. ~failed => addrs = {cfg.addr} /\ route = cfg.gw /\ resolv = cfg.dns
  BY <1>1 DEF IInv, KernelInv
<1>3. CASE ConfigChanged(cfg, c)
  <2>1. PICK s \in NoLink \cup UNION {Applied(c, u) : u \in Unapplied(cfg, Now)} : Becomes(s)
    BY <1>3 DEF RenewSucceeds
  <2>2. s \in States /\ (s.ok => s.addrs = (addrs \ {cfg.addr}) \cup {c.addr}
                                 /\ s.route = c.gw /\ s.resolv = c.dns)
    <3>1. CASE s \in NoLink
      BY <3>1, NowIsState DEF IInv
    <3>2. CASE s \notin NoLink
      <4>1. PICK u \in Unapplied(cfg, Now) : s \in Applied(c, u)
        BY <2>1, <3>2
      <4>2. u \in States /\ (u.ok => u.addrs = addrs \ {cfg.addr} /\ u.route = NoGateway)
        BY <1>1, <4>1, UnapplyLeaves, NowIsState DEF IInv, Now, State
      <4>3. s \in States /\ (s.ok => u.ok /\ s.addrs = u.addrs \cup {c.addr}
                                     /\ s.route = Routed(c, u.route) /\ s.resolv = c.dns)
        BY <4>1, <4>2, ApplyLeaves
      <4> QED
        BY <4>2, <4>3 DEF Routed
    <3> QED
      BY <3>1, <3>2
  <2>3. /\ addrs' = s.addrs /\ route' = s.route /\ resolv' = s.resolv
        /\ failed' = (failed \/ ~s.ok) /\ failed' \in BOOLEAN /\ clean' \in BOOLEAN
    BY <2>1, <2>2 DEF Becomes, IInv, TypeOK, States
  <2>4. ~failed' => s.addrs = {c.addr} /\ s.route = c.gw /\ s.resolv = c.dns
    BY <1>2, <2>2, <2>3
  <2> QED
    BY <1>1, <2>2, <2>3, <2>4, HoldKeeps
<1>4. CASE ~ConfigChanged(cfg, c)
  <2>1. c = cfg /\ clean' \in BOOLEAN /\ UNCHANGED <<addrs, route, resolv, failed>>
    BY <1>4 DEF RenewSucceeds, ConfigChanged, kernel
  <2> DEFINE s == Now
  <2>2. s \in States /\ addrs' = s.addrs /\ route' = s.route /\ resolv' = s.resolv
    BY <2>1, NowIsState DEF IInv, Now, State
  <2>3. s.addrs = addrs /\ s.route = route /\ s.resolv = resolv /\ failed' \in BOOLEAN
    BY <2>1 DEF Now, State, IInv, TypeOK
  <2> HIDE DEF s
  <2>4. ~failed' => s.addrs = {c.addr} /\ s.route = c.gw /\ s.resolv = c.dns
    BY <1>2, <2>1, <2>3
  <2> QED
    BY <1>1, <2>1, <2>2, <2>3, <2>4, HoldKeeps
<1> QED
  BY <1>3, <1>4

\* A renewal that fails waits, but not beyond the end of the lease.
LEMMA RenewFailsKeeps == IInv /\ RenewFails => IInv'
<1> SUFFICES ASSUME IInv, RenewFails PROVE IInv'
  OBVIOUS
<1>1. pc = "asleep" /\ UNCHANGED <<pc, cfg, left, addrs, route, resolv, failed, clean>>
  BY DEF RenewFails, Due, kernel
<1>2. left[cfg.addr] \in 0..Forever
  BY LeaseAssumption DEF IInv, TypeOK
<1>3. wake' \in 0..left[cfg.addr]
  BY <1>2, RetryInTime, LeaseAssumption DEF RenewFails
<1>4. wake' \in 0..Forever
  BY <1>2, <1>3, LeaseAssumption
<1>5. TypeOK'
  BY <1>1, <1>4 DEF IInv, TypeOK
<1>6. NeverSleepsPastExpiry'
  BY <1>1, <1>3 DEF NeverSleepsPastExpiry
<1>7. Granting' /\ KernelInv'
  BY <1>1 DEF IInv, Granting, KernelInv, Empty
<1> QED
  BY <1>5, <1>6, <1>7 DEF IInv

\* A lease that ran out is taken off the interface.
LEMMA ExpireKeeps == IInv /\ Expire => IInv'
<1> SUFFICES ASSUME IInv, Expire PROVE IInv'
  OBVIOUS
<1>1. PICK s \in Released : Becomes(s)
  BY DEF Expire
<1>2. cfg \in Offers /\ Now \in States /\ \A n \in NoLink : n \in States /\ n.ok = FALSE
  BY NowIsState DEF IInv, TypeOK
<1>3. s \in States /\ (s.ok => s.addrs = addrs \ {cfg.addr} /\ s.route = NoGateway)
  <2>1. CASE s \in NoLink
    BY <1>2, <2>1
  <2>2. CASE s \in Unapplied(cfg, Now)
    BY <1>2, <2>2, UnapplyLeaves DEF Now, State
  <2> QED
    BY <1>1, <2>1, <2>2 DEF Released
<1>4. /\ addrs' = s.addrs /\ route' = s.route /\ resolv' = s.resolv
      /\ failed' = (failed \/ ~s.ok) /\ failed' \in BOOLEAN /\ clean' \in BOOLEAN
  BY <1>1, <1>3 DEF Becomes, IInv, TypeOK, States
<1>5. pc = "asleep" /\ pc' = "lost" /\ wake' = 0 /\ UNCHANGED <<cfg, left>>
  BY DEF Expire, Due
<1>6. ~failed' => s.addrs = {} /\ s.route = NoGateway
  BY <1>3, <1>4, <1>5 DEF IInv, KernelInv
<1>7. TypeOK'
  BY <1>3, <1>4, <1>5, LeaseAssumption DEF IInv, TypeOK, States
<1>8. NeverSleepsPastExpiry' /\ Granting'
  BY <1>5 DEF IInv, NeverSleepsPastExpiry, Granting
<1>9. KernelInv'
  BY <1>4, <1>5, <1>6 DEF KernelInv, Empty
<1> QED
  BY <1>7, <1>8, <1>9 DEF IInv

\* A new lease after that is configured as the first one was.
LEMMA ReacquireKeeps ==
  ASSUME IInv, NEW c \in Offers, NEW d \in Duration, NEW r \in Renewal, Reacquire(c, d, r)
  PROVE  IInv'
<1>1. PICK s \in NoLink \cup Applied(c, Now) :
        Becomes(s) /\ IF s.ok THEN Hold(c, d, r)
                              ELSE wake' = ReacquireRetry /\ UNCHANGED <<pc, cfg>>
  BY DEF Reacquire
<1>2. s \in States /\ (s.ok => /\ s.addrs = addrs \cup {c.addr}
                               /\ s.route = Routed(c, route) /\ s.resolv = c.dns)
  <2>1. CASE s \in NoLink
    BY <2>1, NowIsState DEF IInv
  <2>2. CASE s \in Applied(c, Now)
    BY <2>2, ApplyLeaves, NowIsState DEF IInv, Now, State
  <2> QED
    BY <1>1, <2>1, <2>2
<1>3. /\ addrs' = s.addrs /\ route' = s.route /\ resolv' = s.resolv
      /\ failed' = (failed \/ ~s.ok) /\ failed' \in BOOLEAN /\ clean' \in BOOLEAN
  BY <1>1, <1>2 DEF Becomes, IInv, TypeOK, States
<1>4. pc = "lost" /\ Granted(c, d)
  BY DEF Reacquire, Due
<1>5. ~failed => addrs = {} /\ route = NoGateway
  BY <1>4 DEF IInv, KernelInv, Empty
<1>6. CASE s.ok
  <2>1. ~failed' => s.addrs = {c.addr} /\ s.route = c.gw /\ s.resolv = c.dns
    BY <1>2, <1>3, <1>5, <1>6 DEF Routed
  <2> QED
    BY <1>1, <1>2, <1>3, <1>4, <1>6, <2>1, HoldKeeps
<1>7. CASE ~s.ok
  <2>1. left' \in [Addr -> 0..Forever] /\ 0 < Forever
    BY <1>4, RenewInTime, LeaseAssumption DEF Granted, IInv, TypeOK
  <2>2. pc' = "lost" /\ cfg' \in Offers /\ wake' = 1 /\ failed'
    BY <1>1, <1>3, <1>4, <1>7 DEF IInv, TypeOK, ReacquireRetry
  <2> QED
    BY <1>2, <1>3, <2>1, <2>2, LoseKeeps
<1> QED
  BY <1>6, <1>7

\* A server that does not answer changes nothing but the time to wait.
LEMMA UnansweredKeeps == IInv /\ (UpFails \/ ReacquireFails) => IInv'
<1> SUFFICES ASSUME IInv, UpFails \/ ReacquireFails PROVE IInv'
  OBVIOUS
<1>1. UNCHANGED <<cfg, left, addrs, route, resolv, failed, clean>>
  BY DEF UpFails, ReacquireFails, kernel
<1>2. ~failed => Empty
  BY DEF UpFails, ReacquireFails, Due, IInv, KernelInv
<1>3. CASE UpFails
  <2>1. pc' = "dead" /\ wake' = wake
    BY <1>3 DEF UpFails
  <2> QED
    BY <1>1, <1>2, <2>1 DEF IInv, TypeOK, NeverSleepsPastExpiry, Granting, KernelInv, Empty
<1>4. CASE ReacquireFails
  <2>1. pc = "lost" /\ pc' = pc /\ wake' = 1
    BY <1>4 DEF ReacquireFails, Due, ReacquireRetry
  <2>2. wake' \in 0..Forever
    BY <2>1, LeaseAssumption DEF IInv, Granting
  <2> QED
    BY <1>1, <1>2, <2>1, <2>2 DEF IInv, TypeOK, NeverSleepsPastExpiry, Granting, KernelInv, Empty
<1> QED
  BY <1>3, <1>4

\* Time passes for the timer and for the lease alike.
LEMMA TickKeeps == IInv /\ Tick => IInv'
<1> SUFFICES ASSUME IInv, Tick PROVE IInv'
  OBVIOUS
<1>1. /\ wake' = IF wake > 0 THEN wake - 1 ELSE 0
      /\ left' = [a \in Addr |-> IF left[a] \in {0, Forever} THEN left[a] ELSE left[a] - 1]
      /\ UNCHANGED <<pc, cfg, addrs, route, resolv, failed, clean>>
  BY DEF Tick, kernel
<1>2. Forever \in Nat /\ wake \in 0..Forever /\ left \in [Addr -> 0..Forever] /\ cfg.addr \in Addr
  BY LeaseAssumption DEF IInv, TypeOK
<1>3. wake' \in 0..Forever
  BY <1>1, <1>2
<1>4. ASSUME NEW a \in Addr
      PROVE  (IF left[a] \in {0, Forever} THEN left[a] ELSE left[a] - 1) \in 0..Forever
  BY <1>2
<1>5. left' \in [Addr -> 0..Forever]
  BY <1>1, <1>4
<1>6. TypeOK'
  BY <1>1, <1>3, <1>5 DEF IInv, TypeOK
<1>7. left'[cfg.addr] = IF left[cfg.addr] \in {0, Forever} THEN left[cfg.addr] ELSE left[cfg.addr] - 1
  BY <1>1, <1>2
<1>8. NeverSleepsPastExpiry'
  <2>1. pc = "asleep" => wake <= left[cfg.addr]
    BY DEF IInv, NeverSleepsPastExpiry
  <2>2. left[cfg.addr] \in 0..Forever
    BY <1>2
  <2> QED
    BY <1>1, <1>2, <1>7, <2>1, <2>2 DEF NeverSleepsPastExpiry
<1>9. Granting' /\ KernelInv'
  BY <1>1, <1>7 DEF IInv, Granting, KernelInv, Empty
<1> QED
  BY <1>6, <1>8, <1>9 DEF IInv

\* The invariant is about the variables.
LEMMA StutterKeeps == IInv /\ UNCHANGED vars => IInv'
BY DEF IInv, TypeOK, NeverSleepsPastExpiry, Granting, KernelInv, Empty, vars, kernel

\* Every step keeps the invariant.
LEMMA NextKeeps == IInv /\ [Next]_vars => IInv'
<1> SUFFICES ASSUME IInv, [Next]_vars PROVE IInv'
  OBVIOUS
<1>1. CASE Ack(UpConfigures)
  BY <1>1, UpKeeps DEF Ack
<1>2. CASE Ack(RenewSucceeds)
  BY <1>2, RenewKeeps DEF Ack
<1>3. CASE Ack(Reacquire)
  BY <1>3, ReacquireKeeps DEF Ack
<1>4. CASE UpFails \/ ReacquireFails
  BY <1>4, UnansweredKeeps
<1>5. CASE RenewFails
  BY <1>5, RenewFailsKeeps
<1>6. CASE Expire
  BY <1>6, ExpireKeeps
<1>7. CASE Tick
  BY <1>7, TickKeeps
<1>8. CASE UNCHANGED vars
  BY <1>8, StutterKeeps
<1> QED
  BY <1>1, <1>2, <1>3, <1>4, <1>5, <1>6, <1>7, <1>8 DEF Next

-------------------------------------------------------------------------------
(***************************************************************************)
(* The theorems.                                                           *)
(***************************************************************************)
\* The inductive invariant: the types, the timer, and what the kernel has in each
\* phase of Up and maintain (network.go:95-420).
THEOREM LeaseInductive == Spec => []IInv
<1> QED
  BY InitHolds, NextKeeps, PTL DEF Spec

\* The variables keep their types, for every set of offers, lease times and T1s
\* (network.go).
THEOREM LeaseTypeCorrect == Spec => []TypeOK
<1>1. IInv => TypeOK
  BY DEF IInv
<1> QED
  BY <1>1, LeaseInductive, PTL

\* maintain never sleeps past the end of its lease, for every lease time and every
\* T1, however often renewing fails (network.go:238, 345-348).
THEOREM WakesInTime == Spec => []NeverSleepsPastExpiry
<1>1. IInv => NeverSleepsPastExpiry
  BY DEF IInv
<1> QED
  BY <1>1, LeaseInductive, PTL

\* While nothing fails the kernel and resolv.conf are what the last ACK said
\* (network.go:160-204, 255-273).
THEOREM KernelFollowsLease == Spec => []KernelMatchesLease
<1>1. IInv => KernelMatchesLease
  BY DEF IInv, KernelInv, KernelMatchesLease
<1> QED
  BY <1>1, LeaseInductive, PTL

\* While nothing fails no address is in use that the server may give to someone
\* else (network.go:195-197, 261-264).
THEOREM AddressesCovered == Spec => []AddressCovered
<1>1. IInv => AddressCovered
  <2> SUFFICES ASSUME IInv, ~failed, Waiting, NEW a \in addrs PROVE left[a] > 0
    BY DEF AddressCovered
  <2>1. pc \in {"asleep", "forever"} /\ a = cfg.addr
    BY DEF IInv, TypeOK, KernelInv, Empty
  <2>2. left[cfg.addr] \in Nat /\ wake \in Nat
    BY LeaseAssumption DEF IInv, TypeOK
  <2>3. CASE pc = "asleep"
    BY <2>1, <2>2, <2>3 DEF Waiting, IInv, NeverSleepsPastExpiry
  <2>4. CASE pc = "forever"
    BY <2>1, <2>4 DEF IInv, Granting
  <2> QED
    BY <2>1, <2>3, <2>4
<1> QED
  BY <1>1, LeaseInductive, PTL

===============================================================================
