-------------------------- MODULE TileWorldProofs --------------------------
(***************************************************************************)
(* Reservations, walls and doors, and the picture, for every map, every    *)
(* cast of actors and every step length that meet the named assumptions of *)
(* TileWorld. The frame handler is a chain of operators on the world, so   *)
(* each operator gets a lemma: it keeps the world sound. The actions only  *)
(* put the lemmas together. Then what a route leaves behind it, and what   *)
(* SavedWorld makes of saving, loading and restarting at any time.         *)
(***************************************************************************)
EXTENDS SavedWorld, TLAPS

\* The invariants of TileWorld as predicates of the world w and the open
\* doors o, so that they can be followed through a frame.
Exact(w) == \A a \in Actors, t \in Ground : w.occupant[t] = a <=> w.pos[a] = t

Clear(w, o) ==
    \A a \in Actors :
        /\ w.pos[a] \notin Solid
        /\ \A d \in Doors : w.pos[a] = DoorAt[d] => d \in o

Pictured(w) ==
    \A a \in Actors :
        IF Moving(w, a)
        THEN /\ w.step[a].to = w.pos[a]
             /\ w.visual[a] = Between(w.step[a], w.step[a].progress)
        ELSE w.visual[a] = Drawn(w.pos[a])

Sound(w, o) == w \in Worlds /\ Exact(w) /\ Clear(w, o) /\ Pictured(w)

IInv == TypeOK /\ OccupancyExact /\ NobodyShutIn /\ DrawnWhereItGoes

-----------------------------------------------------------------------------
LEMMA GroundFacts ==
  ASSUME NEW t \in Ground
  PROVE  t \in Tiles /\ t = <<t[1], t[2], t[3]>> /\ t[1] \in Int /\ t[2] \in Int /\ t[3] \in Int
BY MapAssumption DEF Tiles

LEMMA FrameFacts == StepFrames \in Int /\ StepFrames > 0 /\ Player \in Actors /\ Walker \in Actors
BY StepAssumption, ActorAssumption

LEMMA DrawnType ==
  ASSUME NEW t \in Ground
  PROVE  Drawn(t) \in Tiles
BY GroundFacts, FrameFacts DEF Drawn, Tiles

\* Interpolation starts on the tile left and ends on the tile reserved.
LEMMA BetweenType ==
  ASSUME NEW s \in Steps, NEW n \in Int
  PROVE  Between(s, n) \in Tiles
<1>1. s.from \in Ground /\ s.to \in Ground
  BY DEF Steps
<1>2. /\ s.from[1] \in Int /\ s.from[2] \in Int /\ s.from[3] \in Int
      /\ s.to[1] \in Int /\ s.to[2] \in Int /\ s.to[3] \in Int
  BY <1>1, GroundFacts
<1>3. /\ s.from[1] * StepFrames + (s.to[1] - s.from[1]) * n \in Int
      /\ s.from[2] * StepFrames + (s.to[2] - s.from[2]) * n \in Int
  BY <1>2, FrameFacts
<1>4. QED
  BY <1>2, <1>3 DEF Between, Tiles

LEMMA Interpolation ==
  ASSUME NEW x \in Int, NEW y \in Int, NEW n \in Int
  PROVE  x * n + (y - x) * n = y * n
OBVIOUS

LEMMA FromZero ==
  ASSUME NEW x \in Int, NEW y \in Int, NEW n \in Int
  PROVE  x * n + (y - x) * 0 = x * n
OBVIOUS

LEMMA BetweenEnd ==
  ASSUME NEW s \in Steps
  PROVE  Between(s, StepFrames) = Drawn(s.to)
<1>1. s.from \in Ground /\ s.to \in Ground
  BY DEF Steps
<1>2. /\ s.from[1] \in Int /\ s.from[2] \in Int
      /\ s.to[1] \in Int /\ s.to[2] \in Int
  BY <1>1, GroundFacts
<1>3. /\ s.from[1] * StepFrames + (s.to[1] - s.from[1]) * StepFrames = s.to[1] * StepFrames
      /\ s.from[2] * StepFrames + (s.to[2] - s.from[2]) * StepFrames = s.to[2] * StepFrames
  BY <1>2, FrameFacts, Interpolation
<1>4. QED
  BY <1>3 DEF Between, Drawn

-----------------------------------------------------------------------------
\* What one frame of interpolation changes: the picture and the step of
\* the actor, no position and no reservation.
LEMMA AdvancedFields ==
  ASSUME NEW w \in Worlds, NEW a \in Actors
  PROVE  /\ Advanced(w, a) \in Worlds
         /\ Advanced(w, a).pos = w.pos
         /\ Advanced(w, a).facing = w.facing
         /\ Advanced(w, a).occupant = w.occupant
         /\ \A b \in Actors \ {a} : /\ Advanced(w, a).step[b] = w.step[b]
                                   /\ Advanced(w, a).visual[b] = w.visual[b]
<1> DEFINE s == w.step[a]
           n == s.progress + 1
           next == IF n = StepFrames THEN NoStep ELSE [s EXCEPT !.progress = n]
<1>1. CASE ~Moving(w, a)
  BY <1>1 DEF Advanced
<1>2. CASE Moving(w, a)
  <2>1. s \in Steps
    BY <1>2 DEF Moving, Worlds
  <2>2. s.progress \in 0..(StepFrames - 1) /\ n \in Int
    BY <2>1, FrameFacts DEF Steps
  <2>3. Between(s, n) \in Tiles
    BY <2>1, <2>2, BetweenType
  <2>4. next \in Steps \cup {NoStep}
    <3>1. CASE n = StepFrames
      BY <3>1
    <3>2. CASE n # StepFrames
      <4>1. n \in 0..(StepFrames - 1)
        BY <2>2, <3>2, FrameFacts
      <4>2. QED
        BY <2>1, <3>2, <4>1 DEF Steps
    <3>3. QED
      BY <3>1, <3>2
  <2>5. Advanced(w, a) = [w EXCEPT !.visual[a] = Between(s, n), !.step[a] = next]
    BY <1>2 DEF Advanced
  <2> HIDE DEF s, n, next
  <2> DEFINE drawn == [w.visual EXCEPT ![a] = Between(s, n)]
             steps == [w.step EXCEPT ![a] = next]
  <2>6. drawn \in [Actors -> Tiles] /\ steps \in [Actors -> Steps \cup {NoStep}]
    BY <2>3, <2>4 DEF Worlds
  <2>7. Advanced(w, a) = [w EXCEPT !.visual = drawn, !.step = steps]
    BY <2>5
  <2>8. \A b \in Actors \ {a} : drawn[b] = w.visual[b] /\ steps[b] = w.step[b]
    BY DEF Worlds
  <2> HIDE DEF drawn, steps
  <2>9. /\ Advanced(w, a) \in Worlds
        /\ Advanced(w, a).visual = drawn /\ Advanced(w, a).step = steps
        /\ Advanced(w, a).pos = w.pos
        /\ Advanced(w, a).facing = w.facing /\ Advanced(w, a).occupant = w.occupant
    BY <2>6, <2>7 DEF Worlds
  <2>10. QED
    BY <2>8, <2>9
<1>3. QED
  BY <1>1, <1>2

LEMMA AdvancedSound ==
  ASSUME NEW o, NEW w, Sound(w, o), NEW a \in Actors
  PROVE  Sound(Advanced(w, a), o)
<1> DEFINE v == Advanced(w, a)
<1>1. /\ w \in Worlds /\ v \in Worlds /\ v.pos = w.pos /\ v.occupant = w.occupant
      /\ \A b \in Actors \ {a} : v.step[b] = w.step[b] /\ v.visual[b] = w.visual[b]
  BY AdvancedFields DEF Sound
<1>2. Exact(v) /\ Clear(v, o)
  BY <1>1 DEF Sound, Exact, Clear
<1>3. ASSUME NEW b \in Actors
      PROVE  IF Moving(v, b)
             THEN /\ v.step[b].to = v.pos[b]
                  /\ v.visual[b] = Between(v.step[b], v.step[b].progress)
             ELSE v.visual[b] = Drawn(v.pos[b])
  <2>1. CASE b # a
    <3>1. v.step[b] = w.step[b] /\ v.visual[b] = w.visual[b] /\ v.pos[b] = w.pos[b]
      BY <1>1, <2>1
    <3>2. QED
      BY <3>1 DEF Sound, Pictured, Moving
  <2>2. CASE b = a /\ ~Moving(w, a)
    BY <2>2 DEF Advanced, Sound, Pictured
  <2>3. CASE b = a /\ Moving(w, a)
    <3> DEFINE s == w.step[a]
               n == s.progress + 1
               next == IF n = StepFrames THEN NoStep ELSE [s EXCEPT !.progress = n]
    <3>1. s \in Steps /\ s.to = w.pos[a]
      BY <1>1, <2>3 DEF Moving, Worlds, Sound, Pictured
    <3>2. v = [w EXCEPT !.visual[a] = Between(s, n), !.step[a] = next]
      BY <2>3 DEF Advanced
    <3>3. v.visual[a] = Between(s, n) /\ v.step[a] = next
      <4> HIDE DEF s, n, next, v
      <4> QED BY <1>1, <3>2 DEF Worlds
    <3>4. CASE n = StepFrames
      <4>1. ~Moving(v, a)
        BY <3>3, <3>4 DEF Moving
      <4>2. v.visual[a] = Drawn(s.to)
        BY <3>1, <3>3, <3>4, BetweenEnd
      <4>3. QED
        BY <1>1, <2>3, <3>1, <4>1, <4>2
    <3>5. CASE n # StepFrames
      <4>1. v.step[a] = [s EXCEPT !.progress = n]
        BY <3>3, <3>5
      <4>2. /\ v.step[a].to = s.to /\ v.step[a].progress = n
            /\ v.step[a].from = s.from
        BY <3>1, <4>1 DEF Steps
      <4>3. v.visual[a] = Between(v.step[a], v.step[a].progress)
        BY <3>3, <4>2 DEF Between
      <4>4. v.step[a] # NoStep
        <5>1. v.step[a] \in [from : Tiles, to : Tiles, progress : Nat]
          <6>1. s.from \in Tiles /\ s.to \in Tiles /\ s.progress \in Nat
            BY <3>1, GroundFacts, FrameFacts DEF Steps
          <6>2. n \in Nat
            BY <6>1
          <6>3. QED
            BY <3>1, <4>1, <6>1, <6>2 DEF Steps
        <5>2. QED
          BY <5>1, StepAssumption
      <4>5. QED
        BY <1>1, <2>3, <3>1, <4>2, <4>3, <4>4 DEF Moving
    <3>6. QED
      BY <3>4, <3>5
  <2>4. QED
    BY <2>1, <2>2, <2>3
<1>4. Pictured(v)
  BY <1>3 DEF Pictured
<1>5. QED
  BY <1>1, <1>2, <1>4 DEF Sound

-----------------------------------------------------------------------------
LEMMA TurnedSound ==
  ASSUME NEW o, NEW w, Sound(w, o), NEW a \in Actors, NEW d \in Directions
  PROVE  /\ Sound(Turned(w, a, d), o)
         /\ Turned(w, a, d).pos = w.pos /\ Turned(w, a, d).occupant = w.occupant
         /\ Turned(w, a, d).step = w.step
<1> DEFINE facing == [w.facing EXCEPT ![a] = d]
           v == Turned(w, a, d)
<1>1. w \in Worlds /\ facing \in [Actors -> Directions]
  BY DEF Sound, Worlds
<1>2. v = [w EXCEPT !.facing = facing]
  BY DEF Turned
<1> HIDE DEF facing, v
<1>3. /\ v \in Worlds /\ v.pos = w.pos /\ v.occupant = w.occupant
      /\ v.step = w.step /\ v.visual = w.visual
  BY <1>1, <1>2 DEF Worlds
<1>4. Sound(v, o)
  BY <1>3 DEF Sound, Exact, Clear, Pictured, Moving
<1>5. QED
  BY <1>3, <1>4 DEF v

\* Moving a reservation to a walkable tile: nobody else stands there, and
\* nobody else stood on the tile given up.
LEMMA ReservationMoves ==
  ASSUME NEW w, Sound(w, open), NEW a \in Actors, NEW t, Walkable(w, t, a),
         NEW v, v.occupant = Reserved(w, a, t), v.pos = [w.pos EXCEPT ![a] = t]
  PROVE  Exact(v) /\ Clear(v, open)
<1>1. /\ w.pos \in [Actors -> Ground] /\ w.occupant \in [Ground -> Actors \cup {Nobody}]
      /\ t \in Ground \ Solid /\ w.occupant[t] \in {Nobody, a}
      /\ Nobody \notin Actors
  BY ActorAssumption DEF Sound, Worlds, Walkable
<1>2. v.pos[a] = t /\ \A b \in Actors \ {a} : v.pos[b] = w.pos[b]
  BY <1>1
<1>3. \A u \in Ground : v.occupant[u] = IF u = t THEN a
                                       ELSE IF u = w.pos[a] THEN Nobody ELSE w.occupant[u]
  BY <1>1 DEF Reserved
<1>4. ASSUME NEW b \in Actors, NEW u \in Ground
      PROVE  v.occupant[u] = b <=> v.pos[b] = u
  <2>1. /\ w.occupant[t] = b <=> w.pos[b] = t
        /\ w.occupant[u] = b <=> w.pos[b] = u
        /\ w.occupant[u] = a <=> w.pos[a] = u
    BY <1>1 DEF Sound, Exact
  <2>2. QED
    BY <1>1, <1>2, <1>3, <2>1
<1>5. Exact(v)
  BY <1>4 DEF Exact
<1>6. Clear(v, open)
  BY <1>1, <1>2 DEF Sound, Clear, Walkable
<1>7. QED
  BY <1>5, <1>6

\* movement.begin's step: from rest to a walkable tile on the same floor.
LEMMA SteppedSound ==
  ASSUME NEW w, Sound(w, open), NEW a \in Actors, ~Moving(w, a),
         NEW t, Walkable(w, t, a), t[3] = w.pos[a][3]
  PROVE  Sound(Stepped(w, a, t), open)
<1> DEFINE s == [from |-> w.pos[a], to |-> t, progress |-> 0]
           occupant == Reserved(w, a, t)
           pos == [w.pos EXCEPT ![a] = t]
           step == [w.step EXCEPT ![a] = s]
           v == Stepped(w, a, t)
<1>1. w \in Worlds /\ t \in Ground /\ w.pos[a] \in Ground
  BY DEF Sound, Worlds, Walkable
<1>2. s \in Steps /\ step \in [Actors -> Steps \cup {NoStep}]
  <2>1. 0 \in 0..(StepFrames - 1)
    BY FrameFacts
  <2>2. QED
    BY <1>1, <2>1 DEF Steps, Worlds
<1>3. v = [w EXCEPT !.occupant = occupant, !.pos = pos, !.step = step]
  BY DEF Stepped
<1>4. /\ occupant \in [Ground -> Actors \cup {Nobody}]
      /\ pos \in [Actors -> Ground]
  BY <1>1, ActorAssumption DEF Reserved, Worlds
<1>5. /\ step[a] = s /\ pos[a] = t
      /\ \A b \in Actors \ {a} : step[b] = w.step[b] /\ pos[b] = w.pos[b]
  BY <1>1 DEF Worlds
<1>6. s # NoStep /\ Between(s, 0) = Drawn(w.pos[a]) /\ s.to = t /\ s.progress = 0
  <2>1. s \in [from : Tiles, to : Tiles, progress : Nat]
    BY <1>1, GroundFacts
  <2>2. s.from = w.pos[a] /\ s.to = t /\ s.progress = 0
    OBVIOUS
  <2>3. /\ w.pos[a][1] * StepFrames + (t[1] - w.pos[a][1]) * 0 = w.pos[a][1] * StepFrames
        /\ w.pos[a][2] * StepFrames + (t[2] - w.pos[a][2]) * 0 = w.pos[a][2] * StepFrames
    BY <1>1, GroundFacts, FrameFacts, FromZero
  <2> HIDE DEF s
  <2>4. QED
    BY <2>1, <2>2, <2>3, StepAssumption DEF Between, Drawn
<1> HIDE DEF s, occupant, pos, step, v
<1>7. /\ v \in Worlds /\ v.occupant = occupant /\ v.pos = pos /\ v.step = step
      /\ v.visual = w.visual
  BY <1>1, <1>2, <1>3, <1>4 DEF Worlds
<1>8. Exact(v) /\ Clear(v, open)
  <2>1. v.occupant = Reserved(w, a, t) /\ v.pos = [w.pos EXCEPT ![a] = t]
    BY <1>7 DEF occupant, pos
  <2>2. QED
    BY <2>1, ReservationMoves
<1>9. Pictured(v)
  <2>1. ASSUME NEW b \in Actors
        PROVE  IF Moving(v, b)
               THEN /\ v.step[b].to = v.pos[b]
                    /\ v.visual[b] = Between(v.step[b], v.step[b].progress)
               ELSE v.visual[b] = Drawn(v.pos[b])
    <3>1. CASE b = a
      BY <1>5, <1>6, <1>7, <3>1 DEF Sound, Pictured, Moving
    <3>2. CASE b # a
      BY <1>5, <1>7, <3>2 DEF Sound, Pictured, Moving
    <3>3. QED
      BY <3>1, <3>2
  <2>2. QED
    BY <2>1 DEF Pictured
<1>10. QED
  BY <1>7, <1>8, <1>9 DEF Sound, v

\* movement.teleport to a walkable tile: no step is left to interpolate.
LEMMA TeleportedSound ==
  ASSUME NEW w, Sound(w, open), NEW a \in Actors, NEW t, Walkable(w, t, a)
  PROVE  Sound(Teleported(w, a, t), open)
<1> DEFINE occupant == Reserved(w, a, t)
           pos == [w.pos EXCEPT ![a] = t]
           step == [w.step EXCEPT ![a] = NoStep]
           visual == [w.visual EXCEPT ![a] = Drawn(t)]
           v == Teleported(w, a, t)
<1>1. w \in Worlds /\ t \in Ground /\ Drawn(t) \in Tiles
  BY DrawnType DEF Sound, Walkable
<1>2. v = [w EXCEPT !.occupant = occupant, !.pos = pos, !.visual = visual, !.step = step]
  BY DEF Teleported
<1>3. /\ step \in [Actors -> Steps \cup {NoStep}] /\ visual \in [Actors -> Tiles]
      /\ step[a] = NoStep /\ visual[a] = Drawn(t) /\ pos[a] = t
      /\ \A b \in Actors \ {a} :
           step[b] = w.step[b] /\ visual[b] = w.visual[b] /\ pos[b] = w.pos[b]
  BY <1>1 DEF Worlds
<1>4. /\ occupant \in [Ground -> Actors \cup {Nobody}]
      /\ pos \in [Actors -> Ground]
  BY <1>1, ActorAssumption DEF Reserved, Worlds
<1> HIDE DEF occupant, pos, step, visual, v
<1>5. /\ v \in Worlds /\ v.occupant = occupant /\ v.pos = pos
      /\ v.step = step /\ v.visual = visual
  BY <1>1, <1>2, <1>3, <1>4 DEF Worlds
<1>6. Exact(v) /\ Clear(v, open)
  <2>1. v.occupant = Reserved(w, a, t) /\ v.pos = [w.pos EXCEPT ![a] = t]
    BY <1>5 DEF occupant, pos
  <2>2. QED
    BY <2>1, ReservationMoves
<1>7. Pictured(v)
  BY <1>3, <1>5 DEF Sound, Pictured, Moving
<1>8. QED
  BY <1>5, <1>6, <1>7 DEF Sound, v

\* movement.begin: a turn, and a step if it can be made.
LEMMA BegunSound ==
  ASSUME NEW w, Sound(w, open), NEW a \in Actors, NEW d \in Directions
  PROVE  Sound(Begun(w, a, d), open)
<1> DEFINE turned == Turned(w, a, d)
           t == Ahead(w.pos[a], d)
<1>1. /\ Sound(turned, open)
      /\ turned.pos = w.pos /\ turned.occupant = w.occupant /\ turned.step = w.step
  BY TurnedSound
<1>2. CASE a \in dead
  BY <1>2 DEF Begun
<1>3. CASE a \notin dead /\ ~CanMove(w, a, d)
  BY <1>1, <1>3 DEF Begun
<1>4. CASE a \notin dead /\ CanMove(w, a, d)
  <2>1. Walkable(turned, t, a) /\ ~Moving(turned, a)
    BY <1>1, <1>4 DEF CanMove, Walkable, Moving
  <2>2. t[3] = turned.pos[a][3]
    BY <1>1 DEF Ahead
  <2>3. Begun(w, a, d) = Stepped(turned, a, t)
    BY <1>4 DEF Begun
  <2> HIDE DEF turned, t
  <2>4. QED
    BY <1>1, <2>1, <2>2, <2>3, SteppedSound
<1>5. QED
  BY <1>2, <1>3, <1>4

LEMMA TowardType ==
  ASSUME NEW p, NEW q
  PROVE  Toward(p, q) \in Directions
BY DEF Toward, Directions, Offset

LEMMA WithType ==
  ASSUME NEW r \in Routes, NEW status \in Statuses
  PROVE  With(r, status) \in Routes
BY DEF With, Routes

\* movement_controller.update keeps the world sound, whatever the route.
LEMMA WalkedSound ==
  ASSUME NEW w, Sound(w, open), NEW r \in Routes
  PROVE  Sound(Walked(w, r).world, open) /\ Walked(w, r).route \in Routes
<1> DEFINE v == Advanced(w, Walker)
           d == Toward(w.pos[Walker], Target(r))
<1>1. Sound(v, open)
  BY AdvancedSound, FrameFacts
<1>2. d \in Directions /\ Sound(Begun(w, Walker, d), open)
  BY BegunSound, TowardType, FrameFacts
<1>3. With(r, "completed") \in Routes /\ With(r, "blocked") \in Routes
  BY WithType DEF Statuses
<1>4. [r EXCEPT !.next = @ + 1] \in Routes
  BY DEF Routes
<1> HIDE DEF v, d
<1>5. CASE Moving(w, Walker)
  BY <1>1, <1>3, <1>5 DEF Walked, v
<1>6. CASE ~Moving(w, Walker) /\ (r.status # "moving" \/ Exhausted(r) \/ Diverged(w, r))
  BY <1>3, <1>6 DEF Walked
<1>7. CASE ~Moving(w, Walker) /\ r.status = "moving" /\ ~Exhausted(r) /\ ~Diverged(w, r)
  BY <1>2, <1>3, <1>4, <1>7 DEF Walked, d
<1>8. QED
  BY <1>5, <1>6, <1>7

-----------------------------------------------------------------------------
\* A session just built: wherever the actors stand, if each has a tile of its
\* own, the reservations CHOOSEn for them are exact.
LEMMA SettledSound ==
  ASSUME NEW pos \in [Actors -> Ground], NEW facing \in [Actors -> Directions], NEW o,
         \A a, b \in Actors : pos[a] = pos[b] => a = b,
         \A a \in Actors : pos[a] \notin Solid /\ \A d \in Doors : pos[a] = DoorAt[d] => d \in o
  PROVE  Sound(Settled(pos, facing), o)
<1> DEFINE occupant == [t \in Ground |-> IF \E a \in Actors : pos[a] = t
                                        THEN CHOOSE a \in Actors : pos[a] = t
                                        ELSE Nobody]
           step == [a \in Actors |-> NoStep]
           visual == [a \in Actors |-> Drawn(pos[a])]
           w == Settled(pos, facing)
<1>1. w = [pos |-> pos, facing |-> facing, step |-> step, visual |-> visual, occupant |-> occupant]
  BY DEF Settled
<1>3. step \in [Actors -> Steps \cup {NoStep}] /\ visual \in [Actors -> Tiles]
      /\ \A a \in Actors : step[a] = NoStep /\ visual[a] = Drawn(pos[a])
  BY DrawnType
<1>4. ASSUME NEW a \in Actors, NEW t \in Ground
      PROVE  /\ occupant[t] \in Actors \cup {Nobody}
             /\ occupant[t] = a <=> pos[a] = t
  <2>1. CASE \E b \in Actors : pos[b] = t
    BY <2>1
  <2>2. CASE ~\E b \in Actors : pos[b] = t
    BY <2>2, ActorAssumption
  <2>3. QED
    BY <2>1, <2>2
<1>5. occupant \in [Ground -> Actors \cup {Nobody}]
  OBVIOUS
<1> HIDE DEF occupant, step, visual, w
<1>6. /\ w \in Worlds /\ w.pos = pos /\ w.step = step
      /\ w.visual = visual /\ w.occupant = occupant
  BY <1>1, <1>3, <1>5 DEF Worlds
<1>7. Exact(w)
  BY <1>4, <1>6 DEF Exact
<1>8. Clear(w, o)
  BY <1>6 DEF Clear
<1>9. Pictured(w)
  BY <1>3, <1>6 DEF Pictured, Moving
<1>10. QED
  BY <1>6, <1>7, <1>8, <1>9 DEF Sound, w

\* The authored session.
LEMMA FreshSound == Sound(Settled(Home, HomeFacing), { d \in Doors : DoorOpen[d] })
<1>1. Home \in [Actors -> Ground] /\ HomeFacing \in [Actors -> Directions]
  BY MapAssumption, FacingAssumption
<1>2. \A a \in Actors : /\ Home[a] \notin Solid
                         /\ \A d \in Doors : Home[a] = DoorAt[d] => d \in { e \in Doors : DoorOpen[e] }
  BY MapAssumption
<1>3. QED
  BY <1>1, <1>2, MapAssumption, SettledSound

LEMMA InitSound == Init => Sound(world, open)
BY FreshSound DEF Init

LEMMA InvariantIsSound ==
  /\ IInv <=> TypeOK /\ Sound(world, open)
  /\ IInv' <=> TypeOK' /\ Sound(world', open')
BY DEF IInv, Sound, TypeOK, OccupancyExact, Exact, NobodyShutIn, Clear,
       DrawnWhereItGoes, Pictured, Moving

LEMMA IdleType == Idle \in Routes
BY DEF Idle, Routes, Statuses

LEMMA AssignedType ==
  ASSUME NEW path \in Seq(Tiles)
  PROVE  Assigned(path) \in Routes
BY DEF Assigned, Routes, Statuses

\* Every route A* answers with is a sequence of tiles.
LEMMA FoundRoutesType ==
  ASSUME NEW w, NEW path \in FoundRoutes(w)
  PROVE  path \in Seq(Tiles)
<1>1. CASE path = <<>>
  BY <1>1
<1>2. CASE path \in FreeRoutes(w)
  <2>1. path \in Chains
    BY <1>2 DEF FreeRoutes
  <2>2. PICK n \in 1..MaxRoute : path \in [1..n -> Ground \ Solid]
    BY <2>1 DEF Chains
  <2>3. n \in Nat /\ path \in [1..n -> Tiles]
    BY <2>2, StepAssumption, MapAssumption
  <2>4. QED
    BY <2>3
<1>3. QED
  BY <1>1, <1>2 DEF FoundRoutes

-----------------------------------------------------------------------------
LEMMA InitEstablishes == Init => IInv
<1> SUFFICES ASSUME Init PROVE IInv
  OBVIOUS
<1>1. Sound(world, open)
  BY InitSound
<1>2. TypeOK
  BY <1>1, IdleType DEF Init, TypeOK, Sound, Doors
<1>3. QED
  BY <1>1, <1>2, InvariantIsSound

LEMMA FrameKeeps ==
  ASSUME IInv, NEW d \in Directions \cup {Still}, Frame(d)
  PROVE  IInv'
<1> DEFINE after == Walked(Advanced(world, Player), route)
<1>1. Sound(world, open) /\ TypeOK
  BY InvariantIsSound
<1>2. /\ route' = after.route
      /\ world' = IF d # Still /\ ~talking /\ ~Moving(after.world, Player)
                  THEN Begun(after.world, Player, d) ELSE after.world
      /\ open' = open /\ dead' = dead /\ talking' = talking
  BY DEF Frame
<1>3. Sound(after.world, open) /\ after.route \in Routes
  <2>1. Sound(Advanced(world, Player), open)
    BY <1>1, AdvancedSound, FrameFacts
  <2>2. QED
    BY <1>1, <2>1, WalkedSound DEF TypeOK
<1> HIDE DEF after
<1>4. Sound(world', open)
  <2>1. CASE d \in Directions
    <3>1. Sound(Begun(after.world, Player, d), open)
      BY <1>3, <2>1, BegunSound, FrameFacts
    <3>2. QED
      BY <1>2, <1>3, <3>1
  <2>2. CASE d = Still
    BY <1>2, <1>3, <2>2
  <2>3. QED
    BY <2>1, <2>2
<1>5. TypeOK'
  BY <1>1, <1>2, <1>3, <1>4 DEF TypeOK, Sound
<1>6. QED
  BY <1>2, <1>4, <1>5, InvariantIsSound

\* The door handler does not look at the tile. That the target ahead is a
\* door at all, and no actor, and that reservations are exact, is what keeps
\* it from closing on somebody.
LEMMA UseDoorKeeps ==
  ASSUME IInv, NEW e \in Doors, UseDoor(e)
  PROVE  IInv'
<1>1. Sound(world, open) /\ TypeOK
  BY InvariantIsSound
<1>2. /\ DoorAt[e] \in Ground /\ world.occupant[DoorAt[e]] = Nobody
      /\ open' = IF e \in open THEN open \ {e} ELSE open \cup {e}
      /\ world' = world /\ dead' = dead /\ route' = route /\ talking' = talking
  BY DEF UseDoor, CanUse, Occupied
<1>3. \A a \in Actors : world.pos[a] # DoorAt[e]
  BY <1>1, <1>2, ActorAssumption DEF Sound, Exact
<1>4. Clear(world', open')
  <2>1. ASSUME NEW a \in Actors, NEW f \in Doors, world.pos[a] = DoorAt[f]
        PROVE  f \in open'
    <3>1. f # e /\ f \in open
      BY <1>1, <1>3, <2>1 DEF Sound, Clear
    <3>2. QED
      BY <1>2, <3>1
  <2>2. QED
    BY <1>1, <1>2, <2>1 DEF Sound, Clear
<1>5. Sound(world', open')
  BY <1>1, <1>2, <1>4 DEF Sound, Exact, Pictured, Moving
<1>6. TypeOK'
  BY <1>1, <1>2 DEF TypeOK
<1>7. QED
  BY <1>5, <1>6, InvariantIsSound

LEMMA NextKeeps == IInv /\ [Next]_vars => IInv'
<1> SUFFICES ASSUME IInv, [Next]_vars PROVE IInv'
  OBVIOUS
<1>1. Sound(world, open) /\ TypeOK
  BY InvariantIsSound
<1>2. CASE AFrame
  BY <1>2, FrameKeeps DEF AFrame
<1>3. ASSUME NEW e \in Doors, UseDoor(e) PROVE IInv'
  BY <1>3, UseDoorKeeps
<1>4. CASE UseStairs
  <2>1. /\ Walkable(world, StairTo[Facing], Player)
        /\ world' = Teleported(world, Player, StairTo[Facing])
        /\ open' = open /\ dead' = dead /\ route' = route /\ talking' = talking
    BY <1>4 DEF UseStairs
  <2>2. Sound(world', open')
    BY <1>1, <2>1, TeleportedSound, FrameFacts
  <2>3. TypeOK'
    BY <1>1, <2>1, <2>2 DEF TypeOK, Sound
  <2>4. QED
    BY <2>2, <2>3, InvariantIsSound
<1>5. CASE Talk \/ EndTalk
  <2>1. /\ world' = world /\ open' = open /\ dead' = dead /\ route' = route
        /\ talking' \in BOOLEAN
    BY <1>5 DEF Talk, EndTalk
  <2>2. TypeOK'
    BY <1>1, <2>1 DEF TypeOK
  <2>3. QED
    BY <1>1, <2>1, <2>2, InvariantIsSound
<1>6. CASE OrderWalk \/ SupplyRoute \/ CancelRoute
  <2>1. world' = world /\ open' = open /\ dead' = dead /\ talking' = talking
    BY <1>6 DEF OrderWalk, SupplyRoute, CancelRoute
  <2>2. route' \in Routes
    <3>1. CASE OrderWalk
      BY <3>1, FoundRoutesType, AssignedType DEF OrderWalk
    <3>2. CASE SupplyRoute
      BY <3>2, StepAssumption, AssignedType DEF SupplyRoute
    <3>3. CASE CancelRoute
      BY <3>3 DEF CancelRoute, Routes, Statuses
    <3>4. QED
      BY <1>6, <3>1, <3>2, <3>3
  <2>3. TypeOK'
    BY <1>1, <2>1, <2>2 DEF TypeOK
  <2>4. QED
    BY <1>1, <2>1, <2>3, InvariantIsSound
<1>7. ASSUME NEW a \in Mortal, Die(a) PROVE IInv'
  <2>1. /\ dead' = dead \cup {a}
        /\ world' = world /\ open' = open /\ route' = route /\ talking' = talking
    BY <1>7 DEF Die
  <2>2. TypeOK'
    BY <1>1, <2>1 DEF TypeOK
  <2>3. QED
    BY <1>1, <2>1, <2>2, InvariantIsSound
<1>8. CASE UNCHANGED vars
  <2>1. world' = world /\ open' = open /\ dead' = dead /\ route' = route /\ talking' = talking
    BY <1>8 DEF vars
  <2>2. TypeOK'
    BY <1>1, <2>1 DEF TypeOK
  <2>3. QED
    BY <1>1, <2>1, <2>2, InvariantIsSound
<1>9. QED
  BY <1>2, <1>3, <1>4, <1>5, <1>6, <1>7, <1>8 DEF Next

LEMMA InvariantHolds == Spec => []IInv
<1>1. QED
  BY InitEstablishes, NextKeeps, PTL DEF Spec

\* The shape of the state, for every map and every cast.
THEOREM TypeCorrect == Spec => []TypeOK
<1>1. IInv => TypeOK
  BY DEF IInv
<1>2. QED
  BY <1>1, InvariantHolds, PTL

\* Reservations and positions never disagree, whatever steps, stairs,
\* routes, deaths and conversations overlap (world.move_actor).
THEOREM ReservationsExact == Spec => []OccupancyExact
<1>1. IInv => OccupancyExact
  BY DEF IInv
<1>2. QED
  BY <1>1, InvariantHolds, PTL

\* No actor is ever in a wall or in a closed door, though the door handler
\* does not look at the tile it closes (actions.lua, interaction.lua).
THEOREM DoorsSpareActors == Spec => []NobodyShutIn
<1>1. IInv => NobodyShutIn
  BY DEF IInv
<1>2. QED
  BY <1>1, InvariantHolds, PTL

\* Everybody is drawn on the way to the tile the logic has it on, also when
\* stairs cut a step short (movement.lua).
THEOREM PictureFollowsLogic == Spec => []DrawnWhereItGoes
<1>1. IInv => DrawnWhereItGoes
  BY DEF IInv
<1>2. QED
  BY <1>1, InvariantHolds, PTL

-----------------------------------------------------------------------------
\* A step is over exactly when its last frame was drawn.
LEMMA LastFrame ==
  ASSUME NEW w \in Worlds, NEW a \in Actors, Moving(w, a), ~Moving(Advanced(w, a), a)
  PROVE  w.step[a].progress + 1 = StepFrames
<1> DEFINE s == w.step[a]
           n == s.progress + 1
           next == IF n = StepFrames THEN NoStep ELSE [s EXCEPT !.progress = n]
<1> SUFFICES ASSUME n # StepFrames PROVE FALSE
  OBVIOUS
<1>1. s \in Steps
  BY DEF Moving, Worlds
<1>2. next \in [from : Tiles, to : Tiles, progress : Nat]
  <2>1. s.from \in Tiles /\ s.to \in Tiles /\ s.progress \in Nat /\ n \in Nat
    BY <1>1, GroundFacts, FrameFacts DEF Steps
  <2>2. next = [s EXCEPT !.progress = n]
    OBVIOUS
  <2>3. QED
    BY <1>1, <2>1, <2>2 DEF Steps
<1>3. Advanced(w, a).step[a] = next
  <2>1. Advanced(w, a) = [w EXCEPT !.visual[a] = Between(s, n), !.step[a] = next]
    BY DEF Advanced
  <2> HIDE DEF s, n, next
  <2>2. QED
    BY <2>1 DEF Worlds
<1>4. QED
  BY <1>2, <1>3, StepAssumption DEF Moving

\* What movement.begin does to positions and to the steps of others.
StepsTo(w, v, a, t) ==
    /\ a \notin dead /\ ~Moving(w, a)
    /\ Walkable(w, t, a) /\ Adjacent(w.pos[a], t)
    /\ v.pos = [w.pos EXCEPT ![a] = t]

LEMMA BegunFields ==
  ASSUME NEW w, Sound(w, open), NEW a \in Actors, NEW d \in Directions
  PROVE  /\ \/ Begun(w, a, d).pos = w.pos
            \/ \E t : StepsTo(w, Begun(w, a, d), a, t)
         /\ \A b \in Actors \ {a} : Begun(w, a, d).step[b] = w.step[b]
<1> DEFINE turned == Turned(w, a, d)
           t == Ahead(w.pos[a], d)
           v == Begun(w, a, d)
<1>1. /\ Sound(turned, open) /\ turned \in Worlds
      /\ turned.pos = w.pos /\ turned.occupant = w.occupant /\ turned.step = w.step
  BY TurnedSound DEF Sound
<1>2. CASE a \in dead
  BY <1>2 DEF Begun
<1>3. CASE a \notin dead /\ ~CanMove(w, a, d)
  BY <1>1, <1>3 DEF Begun
<1>4. CASE a \notin dead /\ CanMove(w, a, d)
  <2>1. v = Stepped(turned, a, t)
    BY <1>4 DEF Begun
  <2>2. Walkable(w, t, a) /\ ~Moving(w, a) /\ Adjacent(w.pos[a], t)
    BY <1>4 DEF CanMove, Adjacent
  <2> DEFINE occupant == Reserved(turned, a, t)
             pos == [w.pos EXCEPT ![a] = t]
             step == [w.step EXCEPT ![a] = [from |-> w.pos[a], to |-> t, progress |-> 0]]
  <2>3. v = [turned EXCEPT !.occupant = occupant, !.pos = pos, !.step = step]
    BY <1>1, <2>1 DEF Stepped
  <2>4. \A b \in Actors \ {a} : step[b] = w.step[b]
    BY <1>1 DEF Sound, Worlds
  <2>5. v.pos = pos /\ v.step = step
    <3> HIDE DEF turned, t, v, occupant, pos, step
    <3> QED BY <1>1, <2>3 DEF Worlds
  <2> HIDE DEF turned, t, v, occupant, step
  <2>6. StepsTo(w, v, a, t)
    BY <1>4, <2>2, <2>5 DEF StepsTo
  <2>7. QED
    BY <2>4, <2>5, <2>6 DEF v
<1>5. QED
  BY <1>2, <1>3, <1>4

LEMMA WalkedFields ==
  ASSUME NEW w, Sound(w, open), NEW r \in Routes
  PROVE  /\ \/ Walked(w, r).world.pos = w.pos
            \/ r.status = "moving" /\ \E t : StepsTo(w, Walked(w, r).world, Walker, t)
         /\ \A b \in Actors \ {Walker} : Walked(w, r).world.step[b] = w.step[b]
<1> DEFINE v == Advanced(w, Walker)
           d == Toward(w.pos[Walker], Target(r))
           u == Begun(w, Walker, d)
<1>1. v.pos = w.pos /\ \A b \in Actors \ {Walker} : v.step[b] = w.step[b]
  BY AdvancedFields, FrameFacts DEF Sound
<1>2. /\ u.pos = w.pos \/ \E t : StepsTo(w, u, Walker, t)
      /\ \A b \in Actors \ {Walker} : u.step[b] = w.step[b]
  BY BegunFields, TowardType, FrameFacts
<1> HIDE DEF v, d, u
<1>3. CASE Moving(w, Walker)
  BY <1>1, <1>3 DEF Walked, v
<1>4. CASE ~Moving(w, Walker) /\ (r.status # "moving" \/ Exhausted(r) \/ Diverged(w, r))
  BY <1>4 DEF Walked
<1>5. CASE ~Moving(w, Walker) /\ r.status = "moving" /\ ~Exhausted(r) /\ ~Diverged(w, r)
  <2>1. Walked(w, r).world = u
    BY <1>5 DEF Walked, u, d
  <2>2. QED
    BY <1>2, <1>5, <2>1
<1>6. QED
  BY <1>3, <1>4, <1>5

\* Two actors never stand on one tile.
LEMMA Apart ==
  ASSUME NEW w, NEW o, Sound(w, o), NEW a \in Actors, NEW b \in Actors, w.pos[a] = w.pos[b]
  PROVE  a = b
<1>1. w.pos[a] \in Ground
  BY DEF Sound, Worlds
<1>2. w.occupant[w.pos[a]] = a /\ w.occupant[w.pos[a]] = b
  BY <1>1 DEF Sound, Exact
<1>3. QED
  BY <1>2

Legal(a) ==
    /\ a \notin dead
    /\ \/ a = Player /\ Facing \in Stairs /\ world'.pos[a] = StairTo[Facing]
       \/ /\ Adjacent(world.pos[a], world'.pos[a])
          /\ Moving(world, a) => world.step[a].progress + 1 = StepFrames
    /\ a = Walker => route.status = "moving"

Exchanged(a, b) == world'.pos[a] = world.pos[b] /\ world'.pos[b] = world.pos[a]

LEMMA FrameIsLegal ==
  ASSUME IInv, NEW d \in Directions \cup {Still}, Frame(d)
  PROVE  /\ \A a \in Actors : Displaced(a) => Legal(a)
         /\ \A a, b \in Actors : a # b /\ Displaced(a) => ~Exchanged(a, b)
<1> DEFINE u == Advanced(world, Player)
           v == Walked(u, route).world
<1>1. Sound(world, open) /\ TypeOK /\ world \in Worlds
  BY InvariantIsSound DEF Sound
<1>2. world' = IF d # Still /\ ~talking /\ ~Moving(v, Player) THEN Begun(v, Player, d) ELSE v
  BY DEF Frame
<1>3. /\ Sound(u, open) /\ u.pos = world.pos /\ u.occupant = world.occupant
      /\ u.step[Walker] = world.step[Walker]
  <2>1. Player \in Actors /\ Walker \in Actors \ {Player}
    BY ActorAssumption
  <2>2. QED
    BY <1>1, <2>1, AdvancedSound, AdvancedFields
<1>4. /\ Sound(v, open)
      /\ \/ v.pos = u.pos
         \/ route.status = "moving" /\ \E t : StepsTo(u, v, Walker, t)
      /\ v.step[Player] = u.step[Player]
  <2>1. Player \in Actors \ {Walker} /\ route \in Routes
    BY <1>1, ActorAssumption DEF TypeOK
  <2>2. QED
    BY <1>3, <2>1, WalkedSound, WalkedFields
<1>5. \/ world'.pos = v.pos
      \/ \E t : StepsTo(v, world', Player, t)
  <2>1. CASE d # Still /\ ~talking /\ ~Moving(v, Player)
    <3>1. d \in Directions /\ world' = Begun(v, Player, d)
      BY <1>2, <2>1
    <3>2. QED
      BY <1>4, <3>1, BegunFields, FrameFacts
  <2>2. CASE ~(d # Still /\ ~talking /\ ~Moving(v, Player))
    BY <1>2, <2>2
  <2>3. QED
    BY <2>1, <2>2
<1>6. /\ world.pos \in [Actors -> Ground] /\ v.pos \in [Actors -> Ground]
      /\ Player \in Actors /\ Walker \in Actors /\ Player # Walker
  BY <1>1, <1>4, ActorAssumption DEF Sound, Worlds
<1>7. Moving(world, Player) /\ ~Moving(v, Player) => world.step[Player].progress + 1 = StepFrames
  BY <1>1, <1>4, <1>6, LastFrame DEF Moving
<1> HIDE DEF u, v
<1>8. \A a \in Actors \ {Walker} : v.pos[a] = world.pos[a]
  BY <1>3, <1>4, <1>6 DEF StepsTo
<1>9. \A a \in Actors \ {Player} : world'.pos[a] = v.pos[a]
  BY <1>5, <1>6 DEF StepsTo
<1>10. Displaced(Walker) => Legal(Walker) /\ world'.pos[Walker] # world.pos[Player]
  <2> SUFFICES ASSUME Displaced(Walker)
               PROVE  Legal(Walker) /\ world'.pos[Walker] # world.pos[Player]
    OBVIOUS
  <2>1. v.pos[Walker] # world.pos[Walker] /\ world'.pos[Walker] = v.pos[Walker]
    BY <1>6, <1>9 DEF Displaced
  <2>2. route.status = "moving" /\ \E t : StepsTo(u, v, Walker, t)
    BY <1>3, <1>4, <2>1
  <2>3. PICK t : StepsTo(u, v, Walker, t)
    BY <2>2
  <2>4. /\ Walker \notin dead /\ ~Moving(world, Walker) /\ world'.pos[Walker] = t
        /\ Adjacent(world.pos[Walker], t)
        /\ t \in Ground /\ world.occupant[t] \in {Nobody, Walker}
    BY <1>3, <1>6, <2>1, <2>3 DEF StepsTo, Moving, Walkable
  <2>5. world.occupant[world.pos[Player]] = Player
    BY <1>1, <1>6 DEF Sound, Exact
  <2>6. t # world.pos[Player]
    BY <1>6, <2>4, <2>5, ActorAssumption
  <2>7. QED
    BY <2>2, <2>4, <2>6 DEF Legal
<1>11. Displaced(Player) => Legal(Player)
  <2> SUFFICES ASSUME Displaced(Player) PROVE Legal(Player)
    OBVIOUS
  <2>1. world'.pos[Player] # v.pos[Player] /\ v.pos[Player] = world.pos[Player]
    BY <1>6, <1>8 DEF Displaced
  <2>2. PICK t : StepsTo(v, world', Player, t)
    BY <1>5, <2>1
  <2>3. /\ Player \notin dead /\ ~Moving(v, Player) /\ world'.pos[Player] = t
        /\ Adjacent(world.pos[Player], t)
    BY <1>6, <2>1, <2>2 DEF StepsTo
  <2>4. QED
    BY <1>6, <1>7, <2>3 DEF Legal
<1>12. \A a \in Actors \ {Player, Walker} : ~Displaced(a)
  BY <1>8, <1>9 DEF Displaced
<1>13. ASSUME NEW a \in Actors, NEW b \in Actors, a # b, Displaced(a), Exchanged(a, b)
       PROVE  FALSE
  <2>1. Displaced(b)
    <3>1. world.pos[a] # world.pos[b]
      BY <1>1, <1>13, Apart
    <3>2. QED
      BY <1>13, <3>1 DEF Displaced, Exchanged
  <2>2. {a, b} = {Player, Walker}
    BY <1>12, <1>13, <2>1
  <2>3. world'.pos[Walker] = world.pos[Player] /\ Displaced(Walker)
    BY <1>13, <2>1, <2>2 DEF Exchanged
  <2>4. QED
    BY <1>10, <2>3
<1>14. QED
  BY <1>10, <1>11, <1>12, <1>13

LEMMA StairsAreLegal ==
  ASSUME IInv, UseStairs
  PROVE  /\ \A a \in Actors : Displaced(a) => Legal(a)
         /\ \A a, b \in Actors : a # b /\ Displaced(a) => ~Exchanged(a, b)
<1> DEFINE t == StairTo[Facing]
<1>1. Sound(world, open) /\ world \in Worlds
  BY InvariantIsSound DEF Sound
<1>2. /\ Facing \in Stairs /\ Player \notin dead
      /\ world' = Teleported(world, Player, t)
  BY DEF UseStairs, CanUse
<1>3. world'.pos = [world.pos EXCEPT ![Player] = t]
  BY <1>1, <1>2 DEF Teleported, Worlds
<1>4. /\ world'.pos[Player] = t
      /\ \A a \in Actors \ {Player} : world'.pos[a] = world.pos[a]
  BY <1>1, <1>3, ActorAssumption DEF Worlds
<1>5. ASSUME NEW a \in Actors, Displaced(a) PROVE a = Player /\ Legal(a)
  BY <1>2, <1>4, <1>5, ActorAssumption DEF Displaced, Legal
<1>6. ASSUME NEW a \in Actors, NEW b \in Actors, a # b, Displaced(a), Exchanged(a, b)
      PROVE  FALSE
  <2>1. world'.pos[b] = world.pos[b] /\ world'.pos[b] = world.pos[a]
    BY <1>4, <1>5, <1>6 DEF Exchanged
  <2>2. QED
    BY <1>1, <1>6, <2>1, Apart
<1>7. QED
  BY <1>5, <1>6

LEMMA NextIsLegal == IInv /\ [Next]_vars => [LegalStep]_vars
<1> SUFFICES ASSUME IInv, Next PROVE LegalStep
  OBVIOUS
<1>1. /\ \A a \in Actors : Displaced(a) => Legal(a)
      /\ \A a, b \in Actors : a # b /\ Displaced(a) => ~Exchanged(a, b)
  <2>1. CASE AFrame
    BY <2>1, FrameIsLegal DEF AFrame
  <2>2. CASE UseStairs
    BY <2>2, StairsAreLegal
  <2>3. CASE world' = world
    BY <2>3 DEF Displaced
  <2>4. QED
    BY <2>1, <2>2, <2>3
       DEF Next, Talk, UseDoor, EndTalk, OrderWalk, SupplyRoute, CancelRoute, Die
<1>2. QED
  BY <1>1 DEF LegalStep, Legal, Exchanged

-----------------------------------------------------------------------------
\* Following a route. The tiles before next are behind the Walker: it stands
\* on the last of them, or is drawn on its way there. A step begun before the
\* route was assigned belongs to none of its tiles: next is 1 until the Walker
\* sets off.
Follows(w, r) ==
    /\ r.status = "moving" =>
         /\ r.path # <<>> /\ r.next <= Len(r.path) + 1
         /\ r.next > 1 => w.pos[Walker] = r.path[r.next - 1]
    /\ r.status = "completed" /\ r.path # <<>> =>
         w.pos[Walker] = r.path[Len(r.path)] /\ ~Moving(w, Walker)

LEMMA AssignedFollows ==
  ASSUME NEW path \in Seq(Tiles), NEW w
  PROVE  Follows(w, Assigned(path))
<1>1. Len(path) \in Nat /\ Len(<<>>) = 0
  OBVIOUS
<1>2. QED
  BY <1>1 DEF Follows, Assigned

\* Whoever has no tile left to go has been to them all.
LEMMA Arrived ==
  ASSUME NEW w, NEW r \in Routes, Follows(w, r), r.status = "moving", Exhausted(r)
  PROVE  w.pos[Walker] = r.path[Len(r.path)]
<1>1. r.next \in Nat /\ Len(r.path) \in Nat /\ r.path \in Seq(Tiles)
  BY DEF Routes
<1>2. r.path # <<>> /\ r.next = Len(r.path) + 1
  BY <1>1 DEF Follows, Exhausted
<1>3. Len(r.path) > 0
  BY <1>1, <1>2
<1>4. QED
  BY <1>1, <1>2, <1>3 DEF Follows

\* The direction from_delta finds for a neighbour leads to it.
LEMMA TowardNeighbour ==
  ASSUME NEW p \in Ground, NEW q, Adjacent(p, q)
  PROVE  Ahead(p, Toward(p, q)) = q
<1>1. p[1] \in Int /\ p[2] \in Int
  BY GroundFacts
<1>2. PICK d \in {"north", "east", "south", "west"} : q = Ahead(p, d)
  BY DEF Adjacent, Directions, Offset
<1>3. CASE d = "north"
  BY <1>1, <1>2, <1>3 DEF Ahead, Toward, Offset
<1>4. CASE d = "east"
  BY <1>1, <1>2, <1>4 DEF Ahead, Toward, Offset
<1>5. CASE d = "south"
  BY <1>1, <1>2, <1>5 DEF Ahead, Toward, Offset
<1>6. CASE d = "west"
  BY <1>1, <1>2, <1>6 DEF Ahead, Toward, Offset
<1>7. QED
  BY <1>2, <1>3, <1>4, <1>5, <1>6

LEMMA BegunWalks ==
  ASSUME NEW w, Sound(w, open), NEW a \in Actors, NEW d \in Directions, CanMove(w, a, d)
  PROVE  Begun(w, a, d).pos[a] = Ahead(w.pos[a], d)
<1> DEFINE turned == Turned(w, a, d)
           t == Ahead(w.pos[a], d)
           occupant == Reserved(turned, a, t)
           pos == [w.pos EXCEPT ![a] = t]
           step == [w.step EXCEPT ![a] = [from |-> w.pos[a], to |-> t, progress |-> 0]]
           v == Begun(w, a, d)
<1>1. /\ turned \in Worlds /\ turned.pos = w.pos /\ turned.step = w.step
      /\ w.pos \in [Actors -> Ground]
  <2>1. Sound(turned, open) /\ turned.pos = w.pos /\ turned.step = w.step
    BY TurnedSound
  <2>2. w.pos \in [Actors -> Ground]
    BY DEF Sound, Worlds
  <2>3. QED
    BY <2>1, <2>2 DEF Sound
<1>2. v = [turned EXCEPT !.occupant = occupant, !.pos = pos, !.step = step]
  BY <1>1 DEF Begun, CanMove, Stepped
<1>3. pos[a] = t
  BY <1>1
<1> HIDE DEF turned, t, occupant, pos, step, v
<1>4. v.pos = pos
  BY <1>1, <1>2 DEF Worlds
<1>5. QED
  BY <1>3, <1>4 DEF v, t

\* One frame of the route: the Walker goes on to the next tile, stops for
\* good, or has arrived.
LEMMA WalkedFollows ==
  ASSUME NEW w, Sound(w, open), NEW r \in Routes, Follows(w, r),
         ~Moving(w, Walker) /\ r.status = "moving" /\ ~Exhausted(r) /\ ~Diverged(w, r)
           => Adjacent(w.pos[Walker], Target(r))
  PROVE  Follows(Walked(w, r).world, Walked(w, r).route)
<1> DEFINE v == Advanced(w, Walker)
           d == Toward(w.pos[Walker], Target(r))
           u == Begun(w, Walker, d)
<1>1. Walker \in Actors /\ w \in Worlds /\ w.pos[Walker] \in Ground /\ v.pos = w.pos
  BY FrameFacts, AdvancedFields DEF Sound, Worlds
<1>2. /\ r.path \in Seq(Tiles) /\ r.next \in Nat \ {0} /\ r.status \in Statuses
      /\ DOMAIN r = {"path", "next", "status"}
  BY DEF Routes
<1>3. \A x : /\ With(r, x).path = r.path /\ With(r, x).next = r.next
             /\ With(r, x).status = x
  BY <1>2 DEF With, Routes
<1>4. \A x : Follows(x, With(r, "blocked"))
  BY <1>3 DEF Follows
<1>5. CASE Moving(w, Walker)
  <2>1. /\ Walked(w, r).world = v
        /\ Walked(w, r).route = IF ~Moving(v, Walker) /\ r.status = "moving" /\ Exhausted(r)
                                THEN With(r, "completed") ELSE r
    BY <1>5 DEF Walked
  <2> HIDE DEF v
  <2>2. CASE ~Moving(v, Walker) /\ r.status = "moving" /\ Exhausted(r)
    <3>1. v.pos[Walker] = r.path[Len(r.path)]
      BY <1>1, <2>2, Arrived
    <3>2. Follows(v, With(r, "completed"))
      BY <1>3, <2>2, <3>1 DEF Follows
    <3>3. QED
      BY <2>1, <2>2, <3>2
  <2>3. CASE ~(~Moving(v, Walker) /\ r.status = "moving" /\ Exhausted(r))
    <3>1. Follows(v, r)
      BY <1>1, <1>5 DEF Follows
    <3>2. QED
      BY <2>1, <2>3, <3>1
  <2>4. QED
    BY <2>2, <2>3
<1>6. CASE ~Moving(w, Walker) /\ r.status # "moving"
  BY <1>6 DEF Walked
<1>7. CASE ~Moving(w, Walker) /\ r.status = "moving" /\ Exhausted(r)
  <2>1. Walked(w, r).world = w /\ Walked(w, r).route = With(r, "completed")
    BY <1>7 DEF Walked
  <2>2. w.pos[Walker] = r.path[Len(r.path)]
    BY <1>7, Arrived
  <2>3. Follows(w, With(r, "completed"))
    BY <1>3, <1>7, <2>2 DEF Follows
  <2>4. QED
    BY <2>1, <2>3
<1>8. CASE ~Moving(w, Walker) /\ r.status = "moving" /\ ~Exhausted(r) /\ Diverged(w, r)
  BY <1>4, <1>8 DEF Walked
<1>9. CASE ~Moving(w, Walker) /\ r.status = "moving" /\ ~Exhausted(r) /\ ~Diverged(w, r)
  <2>1. /\ Walked(w, r).world = u
        /\ Walked(w, r).route = IF CanMove(w, Walker, d) THEN [r EXCEPT !.next = @ + 1]
                                ELSE With(r, "blocked")
    BY <1>9 DEF Walked
  <2>2. CASE ~CanMove(w, Walker, d)
    BY <1>4, <2>1, <2>2
  <2>3. CASE CanMove(w, Walker, d)
    <3>1. d \in Directions
      BY TowardType
    <3>2. u.pos[Walker] = Target(r)
      BY <1>1, <1>9, <2>3, <3>1, BegunWalks, TowardNeighbour
    <3> DEFINE r2 == [r EXCEPT !.next = @ + 1]
    <3>3. r2.path = r.path /\ r2.next = r.next + 1 /\ r2.status = r.status
      BY DEF Routes
    <3>4. Walked(w, r).route = r2
      BY <2>1, <2>3
    <3> HIDE DEF u, r2
    <3>5. r.path # <<>> /\ Len(r.path) \in Nat /\ r.next <= Len(r.path)
      BY <1>2, <1>9 DEF Follows, Exhausted
    <3>6. r2.next - 1 = r.next
      BY <1>2, <3>3
    <3>7. Follows(u, r2)
      BY <1>2, <1>9, <3>2, <3>3, <3>5, <3>6 DEF Follows, Target
    <3>8. QED
      BY <2>1, <3>4, <3>7
  <2>4. QED
    BY <2>2, <2>3
<1>10. QED
  BY <1>5, <1>6, <1>7, <1>8, <1>9

LEMMA FrameFollows ==
  ASSUME IInv, Follows(world, route), NEW d \in Directions \cup {Still}, Frame(d)
  PROVE  Follows(world', route')
<1> DEFINE u == Advanced(world, Player)
           after == Walked(u, route)
           v == after.world
<1>1. Sound(world, open) /\ TypeOK /\ world \in Worlds
  BY InvariantIsSound DEF Sound
<1>2. /\ route' = after.route
      /\ world' = IF d # Still /\ ~talking /\ ~Moving(v, Player) THEN Begun(v, Player, d) ELSE v
      /\ ~FrameAborts
  BY DEF Frame
<1>3. Player \in Actors /\ Walker \in Actors \ {Player} /\ route \in Routes
  BY <1>1, ActorAssumption DEF TypeOK
<1>4. Sound(u, open) /\ u.pos = world.pos /\ u.step[Walker] = world.step[Walker]
  BY <1>1, <1>3, AdvancedSound, AdvancedFields
<1> HIDE DEF u
<1>5. Follows(u, route)
  BY <1>4 DEF Follows, Moving
<1>6. ~Moving(u, Walker) /\ route.status = "moving" /\ ~Exhausted(route) /\ ~Diverged(u, route)
        => Adjacent(u.pos[Walker], Target(route))
  BY <1>2, <1>4 DEF FrameAborts, Moving, Diverged
<1>7. Sound(v, open)
  BY <1>3, <1>4, WalkedSound
<1>8. Follows(v, route')
  BY <1>2, <1>3, <1>4, <1>5, <1>6, WalkedFollows
<1> HIDE DEF after
<1>9. CASE d # Still /\ ~talking /\ ~Moving(v, Player)
  <2>1. d \in Directions /\ world' = Begun(v, Player, d)
    BY <1>2, <1>9
  <2>2. /\ world'.pos = v.pos \/ \E t : StepsTo(v, world', Player, t)
        /\ world'.step[Walker] = v.step[Walker]
    BY <1>3, <1>7, <2>1, BegunFields
  <2>3. world'.pos[Walker] = v.pos[Walker]
    BY <1>3, <1>7, <2>2 DEF StepsTo, Sound, Worlds
  <2>4. QED
    BY <1>8, <2>2, <2>3 DEF Follows, Moving
<1>10. CASE ~(d # Still /\ ~talking /\ ~Moving(v, Player))
  BY <1>2, <1>8, <1>10
<1>11. QED
  BY <1>9, <1>10

LEMMA NextFollows == IInv /\ Follows(world, route) /\ [Next]_vars => Follows(world', route')
<1> SUFFICES ASSUME IInv, Follows(world, route), [Next]_vars PROVE Follows(world', route')
  OBVIOUS
<1>1. CASE AFrame
  BY <1>1, FrameFollows DEF AFrame
<1>2. CASE UseStairs
  <2>1. Sound(world, open) /\ world \in Worlds /\ Player \in Actors /\ Walker \in Actors \ {Player}
    BY InvariantIsSound, ActorAssumption DEF Sound
  <2> DEFINE t == StairTo[Facing]
             occupant == Reserved(world, Player, t)
             pos == [world.pos EXCEPT ![Player] = t]
             visual == [world.visual EXCEPT ![Player] = Drawn(t)]
             step == [world.step EXCEPT ![Player] = NoStep]
  <2>2. /\ route' = route
        /\ world' = [world EXCEPT !.occupant = occupant, !.pos = pos,
                                  !.visual = visual, !.step = step]
    BY <1>2 DEF UseStairs, Teleported
  <2>3. pos[Walker] = world.pos[Walker] /\ step[Walker] = world.step[Walker]
    BY <2>1 DEF Worlds
  <2> HIDE DEF t, occupant, pos, visual, step
  <2>4. world'.pos = pos /\ world'.step = step
    BY <2>1, <2>2 DEF Worlds
  <2>5. QED
    BY <2>2, <2>3, <2>4 DEF Follows, Moving
<1>3. CASE OrderWalk
  BY <1>3, FoundRoutesType, AssignedFollows DEF OrderWalk
<1>4. CASE SupplyRoute
  BY <1>4, StepAssumption, AssignedFollows DEF SupplyRoute
<1>5. CASE CancelRoute
  BY <1>5 DEF CancelRoute, Follows
<1>6. CASE world' = world /\ route' = route
  BY <1>6 DEF Follows, Moving
<1>7. QED
  BY <1>1, <1>2, <1>3, <1>4, <1>5, <1>6
     DEF Next, vars, Talk, UseDoor, EndTalk, Die

\* A route that says it completed brought the Walker to its last tile and to
\* rest there, whatever doors closed, whoever stood in the way and whatever
\* routes were assigned or cancelled before (movement_controller.lua): the
\* safety part of MotionSettles.
THEOREM CompletedMeansArrived == Spec => []ArrivedWhenCompleted
<1>1. Init => IInv /\ Follows(world, route)
  BY InitEstablishes DEF Init, Idle, Follows
<1>2. IInv /\ Follows(world, route) /\ [Next]_vars => (IInv /\ Follows(world, route))'
  BY NextKeeps, NextFollows DEF Follows, Moving
<1>3. IInv /\ Follows(world, route) => ArrivedWhenCompleted
  BY DEF Follows, ArrivedWhenCompleted
<1>4. QED
  BY <1>1, <1>2, <1>3, PTL DEF Spec

-----------------------------------------------------------------------------
\* How long motion lasts: the frames left of a step, and of a route.
FramesLeft(w, a) == IF Moving(w, a) THEN StepFrames - w.step[a].progress ELSE 0

RouteLeft(w, r) ==
    IF r.status = "moving"
    THEN (StepFrames + 1) * (Len(r.path) + 1 - r.next) + FramesLeft(w, Walker) + 1
    ELSE 0

StepShortens(a) ==
    Moving(world, a) =>
        IF AFrame
        THEN \/ FramesLeft(world', a) = FramesLeft(world, a) - 1
             \/ a = Player /\ FramesLeft(world, a) = 1
        ELSE \/ FramesLeft(world', a) = FramesLeft(world, a)
             \/ a = Player /\ FramesLeft(world', a) = 0

RouteShortens ==
    /\ AFrame /\ route.status = "moving" => RouteLeft(world', route') < RouteLeft(world, route)
    /\ RouteLeft(world', route') > RouteLeft(world, route) => Reassigned

MotionShortens == StepShortens(Player) /\ StepShortens(Walker) /\ RouteShortens

LEMMA FramesLeftType ==
  ASSUME NEW w \in Worlds, NEW a \in Actors
  PROVE  /\ FramesLeft(w, a) \in 0 .. StepFrames
         /\ Moving(w, a) <=> FramesLeft(w, a) # 0
<1>1. CASE Moving(w, a)
  <2>1. w.step[a] \in Steps
    BY <1>1 DEF Moving, Worlds
  <2>2. w.step[a].progress \in 0 .. StepFrames - 1
    BY <2>1 DEF Steps
  <2> QED BY <1>1, <2>2, FrameFacts DEF FramesLeft
<1>2. CASE ~Moving(w, a)
  BY <1>2, FrameFacts DEF FramesLeft
<1> QED BY <1>1, <1>2

LEMMA AdvancedShortens ==
  ASSUME NEW w \in Worlds, NEW a \in Actors, Moving(w, a)
  PROVE  FramesLeft(Advanced(w, a), a) = FramesLeft(w, a) - 1
<1> DEFINE s == w.step[a]
           n == s.progress + 1
           next == IF n = StepFrames THEN NoStep ELSE [s EXCEPT !.progress = n]
           v == Advanced(w, a)
<1>1. s \in Steps
  BY DEF Moving, Worlds
<1>2. s.progress \in 0 .. StepFrames - 1 /\ s.progress \in Int /\ FramesLeft(w, a) = StepFrames - s.progress
  BY <1>1, FrameFacts DEF Steps, FramesLeft
<1>3. v.step[a] = next
  <2>1. v = [w EXCEPT !.visual[a] = Between(s, n), !.step[a] = next]
    BY DEF Advanced
  <2> HIDE DEF s, n, next, v
  <2> QED BY <2>1 DEF Worlds
<1>4. CASE n = StepFrames
  <2>1. ~Moving(v, a)
    BY <1>3, <1>4 DEF Moving
  <2>2. FramesLeft(v, a) = 0
    BY <2>1 DEF FramesLeft
  <2> QED BY <1>2, <1>4, <2>2, FrameFacts
<1>5. CASE n # StepFrames
  <2>1. next = [s EXCEPT !.progress = n]
    BY <1>5
  <2>2. next.progress = n /\ next \in [from : Tiles, to : Tiles, progress : Nat]
    <3>1. s.from \in Tiles /\ s.to \in Tiles /\ s.progress \in Nat /\ n \in Nat
      BY <1>1, GroundFacts, FrameFacts DEF Steps
    <3> QED BY <1>1, <2>1, <3>1 DEF Steps
  <2>3. Moving(v, a)
    BY <1>3, <2>2, StepAssumption DEF Moving
  <2>4. FramesLeft(v, a) = StepFrames - n
    <3> HIDE DEF next, v, n
    <3> QED BY <1>3, <2>2, <2>3 DEF FramesLeft
  <2> QED BY <1>2, <2>4, FrameFacts
<1> QED BY <1>4, <1>5

LEMMA SameStep ==
  ASSUME NEW w, NEW v, NEW a, v.step[a] = w.step[a]
  PROVE  FramesLeft(v, a) = FramesLeft(w, a) /\ (Moving(v, a) <=> Moving(w, a))
BY DEF FramesLeft, Moving

LEMMA OneTileLess ==
  ASSUME NEW f \in Nat, NEW n \in Nat, NEW k \in Nat, NEW m \in Int, m <= f,
         NEW before, NEW after,
         before = (f + 1) * (n + 1 - k) + 0 + 1,
         after = (f + 1) * (n + 1 - (k + 1)) + m + 1
  PROVE  after < before
<1>1. n + 1 - k = (n + 1 - (k + 1)) + 1 /\ n + 1 - (k + 1) \in Int
  OBVIOUS
<1> DEFINE x == n + 1 - (k + 1)
<1>2. (f + 1) * (x + 1) = (f + 1) * x + f + 1 /\ (f + 1) * x \in Int
  OBVIOUS
<1>3. before = (f + 1) * x + f + 1 + 0 + 1 /\ after = (f + 1) * x + m + 1
  BY <1>1, <1>2
<1> QED BY <1>2, <1>3

LEMMA TilesLeftType ==
  ASSUME NEW w \in Worlds, NEW r \in Routes, Follows(w, r)
  PROVE  /\ RouteLeft(w, r) \in 0 .. (StepFrames + 1) * (Len(r.path) + 1)
         /\ r.status = "moving" => RouteLeft(w, r) > 0
<1> DEFINE n == Len(r.path)
           k == r.next
           f == StepFrames
           x == FramesLeft(w, Walker)
<1>1. n \in Nat /\ k \in Nat /\ k >= 1 /\ f \in Nat
  BY FrameFacts DEF Routes
<1>2. x \in 0 .. f
  BY FramesLeftType, FrameFacts
<1>3. CASE r.status = "moving"
  <2>1. k <= n + 1
    BY <1>3 DEF Follows
  <2>2. RouteLeft(w, r) = (f + 1) * (n + 1 - k) + x + 1
    BY <1>3 DEF RouteLeft
  <2> HIDE DEF n, k, f, x
  <2>3. PICK m \in Nat : m = n + 1 - k /\ m <= n
    BY <1>1, <2>1
  <2>4. PICK q \in Nat : q = (f + 1) * m
    BY <1>1, <2>3
  <2>5. (f + 1) * (n + 1) = (f + 1) * n + f + 1 /\ (f + 1) * n \in Nat
    BY <1>1
  <2>6. q <= (f + 1) * n
    <3>1. PICK e \in Nat : n = m + e
      BY <1>1, <2>3
    <3>2. (f + 1) * (m + e) = (f + 1) * m + (f + 1) * e /\ (f + 1) * e \in Nat
      BY <1>1, <2>3, <3>1
    <3> QED BY <2>4, <3>1, <3>2
  <2>7. RouteLeft(w, r) = q + x + 1
    BY <2>2, <2>3, <2>4
  <2>8. (f + 1) * (n + 1) \in Nat
    BY <1>1
  <2>9. RouteLeft(w, r) \in 0 .. (f + 1) * (n + 1) /\ RouteLeft(w, r) > 0
    BY <1>1, <1>2, <2>5, <2>6, <2>7, <2>8
  <2> QED BY <2>9 DEF f, n
<1>4. CASE r.status # "moving"
  <2>1. RouteLeft(w, r) = 0
    BY <1>4 DEF RouteLeft
  <2> HIDE DEF n, f
  <2>2. (f + 1) * (n + 1) \in Nat
    BY <1>1
  <2> QED BY <1>4, <2>1, <2>2 DEF f, n
<1> QED BY <1>3, <1>4

\* One frame of an active route brings it closer to its end.
LEMMA WalkedShortens ==
  ASSUME NEW w, Sound(w, open), NEW r \in Routes, Follows(w, r), r.status = "moving"
  PROVE  RouteLeft(Walked(w, r).world, Walked(w, r).route) < RouteLeft(w, r)
<1> DEFINE v == Advanced(w, Walker)
           d == Toward(w.pos[Walker], Target(r))
           u == Begun(w, Walker, d)
           left == RouteLeft(Walked(w, r).world, Walked(w, r).route)
<1>1. w \in Worlds /\ Walker \in Actors
  BY FrameFacts DEF Sound
<1>2. RouteLeft(w, r) \in Int /\ RouteLeft(w, r) > 0
  <2>1. RouteLeft(w, r) \in 0 .. (StepFrames + 1) * (Len(r.path) + 1) /\ RouteLeft(w, r) > 0
    BY <1>1, TilesLeftType
  <2> QED BY <2>1
<1>3. \A x, y : With(r, x).status = x /\ (x # "moving" => RouteLeft(y, With(r, x)) = 0)
  BY DEF With, Routes, RouteLeft
<1>4. CASE \E x, y : x # "moving" /\ Walked(w, r).route = With(r, x) /\ Walked(w, r).world = y
  BY <1>2, <1>3, <1>4
<1>5. CASE Moving(w, Walker)
  <2>1. /\ Walked(w, r).world = v
        /\ Walked(w, r).route = r \/ Walked(w, r).route = With(r, "completed")
    BY <1>5 DEF Walked
  <2>2. CASE Walked(w, r).route = r
    <3>1. FramesLeft(v, Walker) = FramesLeft(w, Walker) - 1 /\ FramesLeft(w, Walker) \in Int
      <4>1. FramesLeft(w, Walker) \in 0 .. StepFrames
        BY <1>1, FramesLeftType
      <4> QED BY <1>1, <1>5, <4>1, AdvancedShortens
    <3> DEFINE q == (StepFrames + 1) * (Len(r.path) + 1 - r.next)
               x == FramesLeft(v, Walker)
               y == FramesLeft(w, Walker)
    <3>2. left = q + x + 1 /\ RouteLeft(w, r) = q + y + 1
      BY <2>1, <2>2 DEF RouteLeft
    <3>3. q \in Int
      BY FrameFacts DEF Routes
    <3>4. x = y - 1 /\ y \in Int
      BY <3>1
    <3> HIDE DEF q, x, y, left
    <3>5. left < RouteLeft(w, r)
      BY <3>2, <3>3, <3>4
    <3> QED BY <3>5 DEF left
  <2> QED BY <1>4, <2>1, <2>2
<1>6. CASE ~Moving(w, Walker) /\ (Exhausted(r) \/ Diverged(w, r))
  BY <1>4, <1>6 DEF Walked
<1>7. CASE ~Moving(w, Walker) /\ ~Exhausted(r) /\ ~Diverged(w, r)
  <2>1. /\ Walked(w, r).world = u
        /\ Walked(w, r).route = IF CanMove(w, Walker, d) THEN [r EXCEPT !.next = @ + 1]
                                ELSE With(r, "blocked")
    BY <1>7 DEF Walked
  <2>2. CASE CanMove(w, Walker, d)
    <3> DEFINE r2 == [r EXCEPT !.next = @ + 1]
    <3>1. r2.path = r.path /\ r2.next = r.next + 1 /\ r2.status = "moving"
      BY DEF Routes
    <3>2. u \in Worlds
      BY <1>1, TowardType, BegunSound DEF Sound
    <3>3. PICK m \in Int : m = FramesLeft(u, Walker) /\ m <= StepFrames
      <4>1. FramesLeft(u, Walker) \in 0 .. StepFrames
        BY <1>1, <3>2, FramesLeftType
      <4> QED BY <4>1, FrameFacts
    <3>4. FramesLeft(w, Walker) = 0
      BY <1>7 DEF FramesLeft
    <3>5. PICK n \in Nat, k \in Nat, f \in Nat : n = Len(r.path) /\ k = r.next /\ f = StepFrames
      BY FrameFacts DEF Routes
    <3> HIDE DEF u, r2
    <3>6. left = (f + 1) * (n + 1 - (k + 1)) + m + 1
      BY <2>1, <2>2, <3>1, <3>3, <3>5 DEF RouteLeft, r2
    <3>7. RouteLeft(w, r) = (f + 1) * (n + 1 - k) + 0 + 1
      BY <3>4, <3>5 DEF RouteLeft
    <3> HIDE DEF left
    <3>8. left < RouteLeft(w, r)
      BY <3>3, <3>5, <3>6, <3>7, OneTileLess
    <3> QED BY <3>8 DEF left
  <2> QED BY <1>4, <2>1, <2>2
<1> QED BY <1>5, <1>6, <1>7

LEMMA FrameShortens ==
  ASSUME IInv, Follows(world, route), NEW d \in Directions \cup {Still}, Frame(d)
  PROVE  /\ route.status = "moving" => RouteLeft(world', route') < RouteLeft(world, route)
         /\ route.status # "moving" => route'.status # "moving"
         /\ Moving(world, Walker) => FramesLeft(world', Walker) = FramesLeft(world, Walker) - 1
         /\ Moving(world, Player) => \/ FramesLeft(world', Player) = FramesLeft(world, Player) - 1
                                     \/ FramesLeft(world, Player) = 1
<1> DEFINE u == Advanced(world, Player)
           after == Walked(u, route)
           v == after.world
<1>1. Sound(world, open) /\ TypeOK /\ world \in Worlds
  BY InvariantIsSound DEF Sound
<1>2. /\ route' = after.route
      /\ world' = IF d # Still /\ ~talking /\ ~Moving(v, Player) THEN Begun(v, Player, d) ELSE v
  BY DEF Frame
<1>3. Player \in Actors /\ Walker \in Actors \ {Player} /\ route \in Routes
  BY <1>1, ActorAssumption DEF TypeOK
<1>4. Sound(u, open) /\ u \in Worlds /\ u.pos = world.pos /\ u.step[Walker] = world.step[Walker]
  BY <1>1, <1>3, AdvancedSound, AdvancedFields DEF Sound
<1>5. Moving(world, Player) => FramesLeft(u, Player) = FramesLeft(world, Player) - 1
  BY <1>1, <1>3, AdvancedShortens
<1> HIDE DEF u
<1>6. Follows(u, route)
  BY <1>4 DEF Follows, Moving
<1>7. Sound(v, open) /\ v \in Worlds
  BY <1>3, <1>4, WalkedSound DEF Sound
<1>8. \A b \in Actors \ {Walker} : v.step[b] = u.step[b]
  BY <1>3, <1>4, WalkedFields
<1>9. route.status = "moving" => RouteLeft(v, after.route) < RouteLeft(u, route)
  BY <1>3, <1>4, <1>6, WalkedShortens
<1>10. RouteLeft(u, route) = RouteLeft(world, route) /\ FramesLeft(u, Walker) = FramesLeft(world, Walker)
       /\ (Moving(u, Walker) <=> Moving(world, Walker))
  BY <1>4, SameStep DEF RouteLeft
<1>11. Moving(u, Walker) => FramesLeft(v, Walker) = FramesLeft(u, Walker) - 1
  BY <1>3, <1>4, AdvancedShortens DEF Walked
<1>12. route.status # "moving" => route' = route
  BY <1>2 DEF Walked
<1>13. world'.step[Walker] = v.step[Walker]
  <2>1. CASE d # Still /\ ~talking /\ ~Moving(v, Player)
    <3>1. d \in Directions /\ world' = Begun(v, Player, d)
      BY <1>2, <2>1
    <3> QED BY <1>3, <1>7, <3>1, BegunFields
  <2>2. CASE ~(d # Still /\ ~talking /\ ~Moving(v, Player))
    BY <1>2, <2>2
  <2> QED BY <2>1, <2>2
<1>14. RouteLeft(world', route') = RouteLeft(v, after.route) /\ FramesLeft(world', Walker) = FramesLeft(v, Walker)
  BY <1>2, <1>13, SameStep DEF RouteLeft
<1>15. ASSUME Moving(world, Player)
       PROVE  \/ FramesLeft(world', Player) = FramesLeft(world, Player) - 1
              \/ FramesLeft(world, Player) = 1
  <2>1. FramesLeft(v, Player) = FramesLeft(u, Player)
    BY <1>3, <1>8, SameStep, ActorAssumption
  <2>2. CASE Moving(v, Player)
    BY <1>2, <1>5, <1>15, <2>1, <2>2
  <2>3. CASE ~Moving(v, Player)
    <3>1. FramesLeft(v, Player) = 0
      BY <2>3 DEF FramesLeft
    <3>2. FramesLeft(world, Player) - 1 = 0
      BY <1>5, <1>15, <2>1, <3>1
    <3>3. FramesLeft(world, Player) \in 0 .. StepFrames
      BY <1>1, <1>3, FramesLeftType
    <3> QED BY <3>2, <3>3
  <2> QED BY <2>2, <2>3
<1> QED BY <1>9, <1>10, <1>11, <1>12, <1>14, <1>15

LEMMA NextShortens ==
  ASSUME IInv, Follows(world, route), IInv', Follows(world', route'), Next
  PROVE  MotionShortens
<1>1. Sound(world, open) /\ TypeOK /\ world \in Worlds /\ world' \in Worlds
  BY InvariantIsSound DEF Sound, IInv, TypeOK
<1>2. Player \in Actors /\ Walker \in Actors /\ Player # Walker /\ route \in Routes /\ route' \in Routes
  BY <1>1, ActorAssumption DEF TypeOK, IInv
<1>3. RouteLeft(world, route) \in Int /\ RouteLeft(world', route') \in Int
      /\ RouteLeft(world, route) >= 0
  <2>1. RouteLeft(world, route) \in 0 .. (StepFrames + 1) * (Len(route.path) + 1)
    BY <1>1, <1>2, TilesLeftType
  <2>2. RouteLeft(world', route') \in 0 .. (StepFrames + 1) * (Len(route'.path) + 1)
    BY <1>1, <1>2, TilesLeftType
  <2> QED BY <2>1, <2>2
<1>4. CASE AFrame
  <2>1. PICK d \in Directions \cup {Still} : Frame(d)
    BY <1>4 DEF AFrame
  <2>2. /\ route.status = "moving" => RouteLeft(world', route') < RouteLeft(world, route)
        /\ route.status # "moving" => route'.status # "moving"
        /\ Moving(world, Walker) => FramesLeft(world', Walker) = FramesLeft(world, Walker) - 1
        /\ Moving(world, Player) => \/ FramesLeft(world', Player) = FramesLeft(world, Player) - 1
                                    \/ FramesLeft(world, Player) = 1
    BY <2>1, FrameShortens
  <2>3. ~(RouteLeft(world', route') > RouteLeft(world, route))
    <3>1. CASE route.status = "moving"
      BY <1>3, <2>2, <3>1
    <3>2. CASE route.status # "moving"
      <4>1. RouteLeft(world', route') = 0
        BY <2>2, <3>2 DEF RouteLeft
      <4> QED BY <1>3, <4>1
    <3> QED BY <3>1, <3>2
  <2> QED BY <1>4, <2>2, <2>3 DEF MotionShortens, StepShortens, RouteShortens
<1>5. CASE ~AFrame
  <2>1. FramesLeft(world', Walker) = FramesLeft(world, Walker)
    <3>1. world' = world \/ UseStairs
      BY <1>5 DEF Next, Talk, UseDoor, EndTalk, OrderWalk, SupplyRoute, CancelRoute, Die
    <3>2. CASE UseStairs
      <4> DEFINE t == StairTo[Facing]
                 occupant == Reserved(world, Player, t)
                 pos == [world.pos EXCEPT ![Player] = t]
                 visual == [world.visual EXCEPT ![Player] = Drawn(t)]
                 step == [world.step EXCEPT ![Player] = NoStep]
      <4>1. world' = [world EXCEPT !.occupant = occupant, !.pos = pos, !.visual = visual, !.step = step]
        BY <3>2 DEF UseStairs, Teleported
      <4>2. step[Walker] = world.step[Walker]
        BY <1>1, <1>2 DEF Worlds
      <4> HIDE DEF t, occupant, pos, visual, step
      <4>3. world'.step = step
        BY <1>1, <4>1 DEF Worlds
      <4> QED BY <4>2, <4>3, SameStep
    <3> QED BY <3>1, <3>2
  <2>2. FramesLeft(world', Player) = FramesLeft(world, Player) \/ FramesLeft(world', Player) = 0
    <3>1. world' = world \/ UseStairs
      BY <1>5 DEF Next, Talk, UseDoor, EndTalk, OrderWalk, SupplyRoute, CancelRoute, Die
    <3>2. CASE UseStairs
      <4> DEFINE t == StairTo[Facing]
                 occupant == Reserved(world, Player, t)
                 pos == [world.pos EXCEPT ![Player] = t]
                 visual == [world.visual EXCEPT ![Player] = Drawn(t)]
                 step == [world.step EXCEPT ![Player] = NoStep]
      <4>1. world' = [world EXCEPT !.occupant = occupant, !.pos = pos, !.visual = visual, !.step = step]
        BY <3>2 DEF UseStairs, Teleported
      <4>2. step[Player] = NoStep
        BY <1>1, <1>2 DEF Worlds
      <4> HIDE DEF t, occupant, pos, visual, step
      <4>3. world'.step = step
        BY <1>1, <4>1 DEF Worlds
      <4> QED BY <4>2, <4>3 DEF FramesLeft, Moving
    <3> QED BY <3>1, <3>2
  <2>3. RouteLeft(world', route') > RouteLeft(world, route) => Reassigned
    <3> SUFFICES ASSUME RouteLeft(world', route') > RouteLeft(world, route) PROVE Reassigned
      OBVIOUS
    <3>1. route' # route
      <4> SUFFICES ASSUME route' = route PROVE FALSE
        OBVIOUS
      <4>1. RouteLeft(world', route') = RouteLeft(world, route)
        BY <2>1 DEF RouteLeft
      <4> QED BY <1>3, <4>1
    <3>2. route'.status = "moving"
      <4> SUFFICES ASSUME route'.status # "moving" PROVE FALSE
        OBVIOUS
      <4>1. RouteLeft(world', route') = 0
        BY DEF RouteLeft
      <4> QED BY <1>3, <4>1
    <3>3. route'.next = 1
      <4>1. OrderWalk \/ SupplyRoute \/ CancelRoute
        BY <1>5, <3>1 DEF Next, Talk, UseDoor, UseStairs, EndTalk, Die
      <4> QED BY <3>2, <4>1 DEF OrderWalk, SupplyRoute, CancelRoute, Assigned
    <3> QED BY <3>1, <3>2, <3>3 DEF Reassigned
  <2> QED BY <1>2, <1>5, <2>1, <2>2, <2>3 DEF MotionShortens, StepShortens, RouteShortens
<1> QED BY <1>4, <1>5

LEMMA FollowsHolds == Spec => [](IInv /\ Follows(world, route))
<1>1. Init => IInv /\ Follows(world, route)
  BY InitEstablishes DEF Init, Idle, Follows
<1>2. IInv /\ Follows(world, route) /\ [Next]_vars => (IInv /\ Follows(world, route))'
  BY NextKeeps, NextFollows DEF Follows, Moving
<1> QED BY <1>1, <1>2, PTL DEF Spec

\* No actor hangs between two tiles and no route goes on for ever, whatever
\* the player does meanwhile: a step under way is a frame shorter after every
\* frame and is changed by nothing else, but that stairs end it; an active
\* route has at most StepFrames + 1 frames to go for each of its tiles and
\* one tile more, fewer after every frame, and more only if another route
\* takes its place. This is what StepsFinish and RouteSettles say but for
\* the fairness of the frames.
THEOREM MotionIsBounded ==
  Spec => /\ [](RouteLeft(world, route) \in 0 .. (StepFrames + 1) * (Len(route.path) + 1))
          /\ [][MotionShortens]_vars
<1>1. IInv /\ Follows(world, route) => RouteLeft(world, route) \in 0 .. (StepFrames + 1) * (Len(route.path) + 1)
  BY TilesLeftType DEF IInv, TypeOK
<1>2. /\ IInv /\ Follows(world, route) /\ (IInv /\ Follows(world, route))' /\ [Next]_vars
      => [MotionShortens]_vars
  <2> SUFFICES ASSUME IInv, Follows(world, route), (IInv /\ Follows(world, route))', Next
               PROVE  MotionShortens
    OBVIOUS
  <2>1. IInv' /\ Follows(world', route')
    BY DEF Follows, Moving
  <2> QED BY <2>1, NextShortens
<1> QED BY <1>1, <1>2, FollowsHolds, PTL DEF Spec

-----------------------------------------------------------------------------
\* The routes of find_path lead from the tile the Walker stands on, tile by
\* tile, so that movement.begin is only ever asked for a neighbour.
Leads(w, r) ==
    r.status = "moving" =>
        /\ Chained(r.path)
        /\ r.next = 1 => Adjacent(w.pos[Walker], r.path[1])

LEMMA NeverAsked ==
  ASSUME IInv, Follows(world, route), Leads(world, route)
  PROVE  ~FrameAborts
<1> SUFFICES ASSUME route.status = "moving", ~Exhausted(route)
             PROVE  Adjacent(world.pos[Walker], Target(route))
  BY DEF FrameAborts
<1>1. route \in Routes /\ route.next \in Nat \ {0} /\ Len(route.path) \in Nat /\ route.next <= Len(route.path)
  BY DEF IInv, TypeOK, Routes, Exhausted
<1>2. CASE route.next = 1
  BY <1>2 DEF Leads, Target
<1>3. CASE route.next # 1
  <2>1. route.next > 1 /\ route.next \in 2 .. Len(route.path)
    BY <1>1, <1>3
  <2>2. world.pos[Walker] = route.path[route.next - 1]
    BY <2>1 DEF Follows
  <2> QED BY <2>1, <2>2 DEF Leads, Chained, Target
<1> QED BY <1>2, <1>3

LEMMA FrameLeads ==
  ASSUME IInv, Leads(world, route), AFrame
  PROVE  Leads(world', route')
<1>1. PICK d \in Directions \cup {Still} : Frame(d)
  BY DEF AFrame
<1> DEFINE u == Advanced(world, Player)
           after == Walked(u, route)
           v == after.world
<1>2. Sound(world, open) /\ TypeOK /\ world \in Worlds
  BY InvariantIsSound DEF Sound
<1>3. Player \in Actors /\ Walker \in Actors \ {Player} /\ route \in Routes
  BY <1>2, ActorAssumption DEF TypeOK
<1>4. Sound(u, open) /\ u \in Worlds /\ u.pos = world.pos
  BY <1>2, <1>3, AdvancedSound, AdvancedFields DEF Sound
<1>5. /\ route' = after.route
      /\ world' = IF d # Still /\ ~talking /\ ~Moving(v, Player) THEN Begun(v, Player, d) ELSE v
  BY <1>1 DEF Frame
<1> HIDE DEF u
<1>6. Sound(v, open)
  BY <1>3, <1>4, WalkedSound
<1>7. world'.pos[Walker] = v.pos[Walker]
  <2>1. CASE d # Still /\ ~talking /\ ~Moving(v, Player)
    <3>1. d \in Directions /\ world' = Begun(v, Player, d)
      BY <1>5, <2>1
    <3>2. world'.pos = v.pos \/ \E t : StepsTo(v, world', Player, t)
      BY <1>3, <1>6, <3>1, BegunFields
    <3> QED BY <1>3, <1>6, <3>2 DEF StepsTo, Sound, Worlds
  <2>2. CASE ~(d # Still /\ ~talking /\ ~Moving(v, Player))
    BY <1>5, <2>2
  <2> QED BY <2>1, <2>2
<1>8. \A x : With(route, x).status = x
  BY <1>3 DEF With, Routes
<1>9. ASSUME route'.status = "moving", route'.next = 1
      PROVE  route' = route /\ v.pos = u.pos
  <2>1. route.status = "moving"
    BY <1>5, <1>9 DEF Walked
  <2>2. CASE Moving(u, Walker)
    <3>1. after.route = route \/ after.route = With(route, "completed")
      BY <2>2 DEF Walked
    <3>2. v = Advanced(u, Walker)
      BY <2>2 DEF Walked
    <3> QED BY <1>3, <1>4, <1>5, <1>8, <1>9, <3>1, <3>2, AdvancedFields
  <2>3. CASE ~Moving(u, Walker) /\ (Exhausted(route) \/ Diverged(u, route))
    BY <1>5, <1>8, <1>9, <2>1, <2>3 DEF Walked
  <2>4. CASE ~Moving(u, Walker) /\ ~Exhausted(route) /\ ~Diverged(u, route)
    <3>1. after.route = [route EXCEPT !.next = @ + 1] \/ after.route = With(route, "blocked")
      BY <2>1, <2>4 DEF Walked
    <3>2. [route EXCEPT !.next = @ + 1].next # 1
      BY <1>3 DEF Routes
    <3>3. route' # With(route, "blocked")
      BY <1>8, <1>9
    <3>4. route' # [route EXCEPT !.next = @ + 1]
      BY <1>9, <3>2
    <3> QED BY <1>5, <3>1, <3>3, <3>4
  <2> QED BY <2>2, <2>3, <2>4
<1>10. ASSUME route'.status = "moving" PROVE route.status = "moving" /\ route'.path = route.path
  <2>1. route.status = "moving"
    BY <1>5, <1>10 DEF Walked
  <2>2. \/ route' = route \/ route' = [route EXCEPT !.next = @ + 1]
        \/ route' = With(route, "completed") \/ route' = With(route, "blocked")
    BY <1>5 DEF Walked
  <2>3. [route EXCEPT !.next = @ + 1].path = route.path
    BY <1>3 DEF Routes
  <2> QED BY <1>8, <1>10, <2>1, <2>2, <2>3
<1> HIDE DEF v, after
<1> QED BY <1>4, <1>7, <1>9, <1>10 DEF Leads

LEMMA NextLeads ==
  ASSUME IInv, Leads(world, route), [Next]_vars, \A steps \in Supplied : steps = <<>>
  PROVE  Leads(world', route')
<1>1. CASE AFrame
  BY <1>1, FrameLeads
<1>2. CASE UseStairs
  <2>1. world \in Worlds /\ Player \in Actors /\ Walker \in Actors \ {Player}
    BY InvariantIsSound, ActorAssumption DEF Sound
  <2> DEFINE t == StairTo[Facing]
             occupant == Reserved(world, Player, t)
             pos == [world.pos EXCEPT ![Player] = t]
             visual == [world.visual EXCEPT ![Player] = Drawn(t)]
             step == [world.step EXCEPT ![Player] = NoStep]
  <2>2. /\ route' = route
        /\ world' = [world EXCEPT !.occupant = occupant, !.pos = pos, !.visual = visual, !.step = step]
    BY <1>2 DEF UseStairs, Teleported
  <2>3. pos[Walker] = world.pos[Walker]
    BY <2>1 DEF Worlds
  <2> HIDE DEF t, occupant, pos, visual, step
  <2>4. world'.pos = pos
    BY <2>1, <2>2 DEF Worlds
  <2> QED BY <2>2, <2>3, <2>4 DEF Leads
<1>3. CASE OrderWalk
  <2>1. PICK path \in FoundRoutes(world) : route' = Assigned(path) /\ world' = world
    BY <1>3 DEF OrderWalk
  <2>2. /\ Assigned(path).path = path
        /\ Assigned(path).status = IF path = <<>> THEN "completed" ELSE "moving"
    BY DEF Assigned
  <2>3. path # <<>> => Chained(path) /\ Adjacent(world.pos[Walker], path[1])
    BY DEF FoundRoutes, FreeRoutes, Chains
  <2> QED BY <2>1, <2>2, <2>3 DEF Leads
<1>4. CASE SupplyRoute
  BY <1>4 DEF SupplyRoute, Assigned, Leads
<1>5. CASE CancelRoute
  BY <1>5 DEF CancelRoute, Leads
<1>6. CASE world' = world /\ route' = route
  BY <1>6 DEF Leads
<1> QED BY <1>1, <1>2, <1>3, <1>4, <1>5, <1>6 DEF Next, vars, Talk, UseDoor, EndTalk, Die

\* As long as every route that is not empty comes from find_path, the assert
\* of movement.begin holds in every frame: cancelling, replacing a route in
\* the middle of a step and blocking doors never ask for a step to a tile
\* that is not next to the Walker.
THEOREM FoundRoutesNeverAbort ==
  ASSUME \A steps \in Supplied : steps = <<>>
  PROVE  Spec => []~FrameAborts
<1>1. Init => Leads(world, route)
  BY DEF Init, Idle, Leads
<1>2. IInv /\ Leads(world, route) /\ [Next]_vars => Leads(world', route')
  BY NextLeads
<1>3. Leads(world', route') => Leads(world, route)'
  BY DEF Leads
<1>4. IInv /\ Follows(world, route) /\ Leads(world, route) => ~FrameAborts
  BY NeverAsked
<1> QED BY <1>1, <1>2, <1>3, <1>4, FollowsHolds, PTL DEF Spec

-----------------------------------------------------------------------------
\* Saving and loading. What is on disk was captured from a sound world: the
\* player stands in no wall and in no door that was saved closed.
Saved(data) ==
    /\ data.at \in Ground \ Solid
    /\ data.facing \in Directions
    /\ data.open \subseteq Doors
    /\ data.dead => Player \in Mortal
    /\ \A d \in Doors : data.at = DoorAt[d] => d \in data.open

FileSound == file # NoSave => Saved(file)

SavedInv == IInv /\ FileSound

LEMMA CaptureSound ==
  ASSUME IInv
  PROVE  Saved(Capture)
<1>1. TypeOK /\ NobodyShutIn /\ Player \in Actors
  BY FrameFacts DEF IInv
<1>2. world.pos \in [Actors -> Ground] /\ world.facing \in [Actors -> Directions]
  BY <1>1 DEF TypeOK, Worlds
<1>3. /\ Capture.at = world.pos[Player] /\ Capture.facing = world.facing[Player]
      /\ Capture.open = open /\ (Capture.dead <=> Player \in dead)
  BY DEF Capture
<1>4. QED
  BY <1>1, <1>2, <1>3 DEF Saved, TypeOK, NobodyShutIn

\* The session built from a file: the player where it was saved, everybody
\* else at home, each on a tile of its own because spawn insists on it.
LEMMA SessionKeeps ==
  ASSUME NEW data, Saved(data), SessionFrom(data)
  PROVE  IInv'
<1> DEFINE pos == [Home EXCEPT ![Player] = data.at]
           facing == [HomeFacing EXCEPT ![Player] = data.facing]
<1>1. Home \in [Actors -> Ground \ Solid] /\ HomeFacing \in [Actors -> Directions] /\ Player \in Actors
  BY MapAssumption, FacingAssumption, FrameFacts
<1>2. pos \in [Actors -> Ground] /\ facing \in [Actors -> Directions]
  BY <1>1 DEF Saved
<1>3. \A a \in Actors : pos[a] = IF a = Player THEN data.at ELSE Home[a]
  BY <1>1
<1>4. \A a, b \in Actors : pos[a] = pos[b] => a = b
  BY <1>3, MapAssumption DEF SessionFrom, Restorable
<1>5. \A a \in Actors : /\ pos[a] \notin Solid
                         /\ \A d \in Doors : pos[a] = DoorAt[d] => d \in data.open
  BY <1>1, <1>3, CastAssumption DEF Saved
<1>6. world' = Settled(pos, facing) /\ open' = data.open
  BY DEF SessionFrom
<1> HIDE DEF pos, facing
<1>7. Sound(world', open')
  BY <1>2, <1>4, <1>5, <1>6, SettledSound
<1>8. dead' \subseteq Mortal
  BY DEF SessionFrom, Saved
<1>9. TypeOK'
  BY <1>7, <1>8, IdleType DEF SessionFrom, Saved, TypeOK, Sound
<1>10. QED
  BY <1>7, <1>9, InvariantIsSound

LEMMA FreshKeeps ==
  ASSUME FreshSession
  PROVE  IInv'
<1>1. Sound(world', open')
  BY FreshSound DEF FreshSession
<1>2. TypeOK'
  BY <1>1, IdleType DEF FreshSession, TypeOK, Sound, Doors
<1>3. QED
  BY <1>1, <1>2, InvariantIsSound

LEMMA SavedNextKeeps == SavedInv /\ [SavedNext]_savedVars => SavedInv'
<1> SUFFICES ASSUME SavedInv, [SavedNext]_savedVars PROVE SavedInv'
  OBVIOUS
<1>1. CASE Play
  BY <1>1, NextKeeps DEF Play, SavedInv, FileSound
<1>2. CASE Save
  <2>1. IInv' /\ Saved(file')
    BY <1>2, NextKeeps, CaptureSound DEF Save, SavedInv
  <2>2. QED
    BY <2>1 DEF SavedInv, FileSound
<1>3. CASE Load
  <2>1. IInv' /\ file' = file
    BY <1>3, SessionKeeps DEF Load, SavedInv, FileSound
  <2>2. QED
    BY <2>1 DEF SavedInv, FileSound
<1>4. CASE Reset
  BY <1>4, FreshKeeps DEF Reset, SavedInv, FileSound
<1>5. CASE Restart
  <2>1. IInv' /\ file' = file
    BY <1>5, SessionKeeps, FreshKeeps DEF Restart, SavedInv, FileSound
  <2>2. QED
    BY <2>1 DEF SavedInv, FileSound
<1>6. CASE UNCHANGED savedVars
  <2>1. IInv' /\ file' = file
    BY <1>6, NextKeeps DEF savedVars, vars, SavedInv
  <2>2. QED
    BY <2>1 DEF SavedInv, FileSound
<1>7. QED
  BY <1>1, <1>2, <1>3, <1>4, <1>5, <1>6 DEF SavedNext

LEMMA SavedHolds == SavedSpec => []SavedInv
<1>1. SavedInit => SavedInv
  BY InitEstablishes DEF SavedInit, SavedInv, FileSound
<1>2. QED
  BY <1>1, SavedNextKeeps, PTL DEF SavedSpec

\* Saving in the middle of a step, closing a door behind the save, dying,
\* loading, starting afresh and a process that ends at any time: the world
\* keeps its reservations exact, nobody shut in, everybody on its tile.
THEOREM LoadedSessionsSound ==
  SavedSpec => [](OccupancyExact /\ NobodyShutIn /\ DrawnWhereItGoes)
<1>1. SavedInv => OccupancyExact /\ NobodyShutIn /\ DrawnWhereItGoes
  BY DEF SavedInv, IInv
<1>2. QED
  BY <1>1, SavedHolds, PTL

\* No handler ever moves the dead, tears an actor out of a step, makes one
\* jump except over a stair, or exchanges two actors, in a session that was
\* loaded from any file as in a fresh one.
THEOREM MovesStayLegal == SavedSpec => MovesAreLegal
<1>1. SavedInv /\ [SavedNext]_savedVars => [LegalStep \/ Load \/ Reset \/ Restart]_savedVars
  <2> SUFFICES ASSUME IInv, SavedNext
               PROVE  LegalStep \/ Load \/ Reset \/ Restart \/ UNCHANGED savedVars
    BY DEF SavedInv
  <2>1. CASE Play
    <3>1. LegalStep \/ UNCHANGED vars
      BY <2>1, NextIsLegal DEF Play
    <3>2. UNCHANGED vars => UNCHANGED savedVars
      BY <2>1 DEF Play, vars, savedVars
    <3>3. QED
      BY <3>1, <3>2
  <2>2. CASE Save
    <3>1. world' = world
      BY <2>2 DEF Save, vars
    <3>2. \A a \in Actors : ~Displaced(a)
      BY <3>1 DEF Displaced
    <3>3. QED
      BY <3>2 DEF LegalStep
  <2>3. QED
    BY <2>1, <2>2 DEF SavedNext
<1>2. QED
  BY <1>1, SavedHolds, PTL DEF SavedSpec, MovesAreLegal

=============================================================================
