------------------------- MODULE TojeWorld_proofs -------------------------
(***************************************************************************)
(* Proofs about TojeWorld for every world, every number of dimensions,     *)
(* regions, chunks and workers.  A chunk is past when its entities are in  *)
(* the editor of its region, and current while they are seated.  The       *)
(* inductive invariant IInv has one part per idea:                         *)
(*   TypeInv      the types;                                               *)
(*   OwnInv       workers are in different regions, inside them, and visit *)
(*                vehicles of their Contexts;                              *)
(*   PhaseInv     who has left saw every region claimed, Ok is the end;    *)
(* and, as long as no region has failed:                                   *)
(*   CurrentInv   an entity of the current chunk is there, seated, or kept *)
(*                for the player;                                          *)
(*   PastInv      so is one of a past chunk, and the seats are right;      *)
(*   FileInv      what is written is what is neither seated nor driven;    *)
(*   RootInv      all Contexts agree about the player's vehicle, and one   *)
(*                still to be merged has it;                               *)
(*   ShoulderInv  the same for the entity on the shoulder;                 *)
(*   KnotInv      the same for the knot, within the dimension;             *)
(*   LeadInv      a lead is tied, or in a Context still to be merged;      *)
(*   EndInv       what level.dat gets is what the last Context has.        *)
(***************************************************************************)
EXTENDS TojeWorld, FiniteSetTheorems, TLAPS

DimOf(c) == RegionOf(c)[1]
RegOf(c) == RegionOf(c)[2]

Active(w) == pc[w] \in {"convert", "attach", "write"}

\* No region has failed.
Good == ok /\ result # "error" /\ \A w \in Workers : pc[w] # "fail"

Past(c) ==
  \/ DimOf(c) < dim
  \/ /\ DimOf(c) = dim
     /\ RegOf(c) \in claimed
     /\ \A w \in Workers : Active(w) /\ region[w] = RegOf(c) => Turn(c) < at[w]

Current(w, c) == pc[w] = "attach" /\ c = Chunk(w)

Home(e) == world.at[e]

Seated(e) == \E v \in Entities : \E i \in riders[v] : Links(v)[i] = e

\* The player's vehicle, once it has gone with the player.
Taken(e) == DrivenByPlayer(e) /\ InOneChunk(e) /\ ~Seated(e)

Contexts ==
  [leashed : SUBSET Entities, knots : SUBSET Chunks,
   vehicles : UNION {[S -> SUBSET Nat] : S \in SUBSET Entities},
   root : Entities \cup {None}, held : BOOLEAN, shoulder : Entities \cup {None}]

TypeInv ==
  /\ world \in Worlds
  /\ dim \in DOMAIN Dims
  /\ claimed \subseteq DOMAIN Dims[dim]
  /\ pc \in [Workers -> {"take", "convert", "attach", "write", "fail", "left"}]
  /\ region \in [Workers -> Nat] /\ at \in [Workers -> Nat]
  /\ here \in [Workers -> SUBSET Entities] /\ visits \in [Workers -> SUBSET Entities]
  /\ editor \in [Workers -> SUBSET (Chunks \X Entities)]
  /\ ctx \in [Workers -> Contexts] /\ sum \in [Workers -> Contexts]
  /\ total \in Contexts /\ bin \in Contexts
  /\ ok \in BOOLEAN /\ cancelled \in BOOLEAN
  /\ riders \in [Entities -> SUBSET Nat]
  /\ tie \in [Entities -> {"none", "uuid", "knot"}]
  /\ file \subseteq Chunks \X Entities
  /\ player \in [vehicle : Entities \cup {None}, shoulder : Entities \cup {None}]
  /\ result \in {None, "ok", "error"}

OwnInv ==
  /\ \A w \in Workers : Active(w) =>
       /\ region[w] \in claimed
       /\ IF pc[w] = "write" THEN at[w] = Len(RegionChunks(w)) + 1
                             ELSE at[w] \in DOMAIN RegionChunks(w)
  /\ \A v, w \in Workers : v # w /\ Active(v) /\ Active(w) => region[v] # region[w]
  /\ \A w \in Workers : pc[w] = "attach" => visits[w] \subseteq DOMAIN ctx[w].vehicles
  /\ \A w \in Workers : \A v \in DOMAIN ctx[w].vehicles : Links(v) # <<>>

PhaseInv ==
  /\ \A w \in Workers : pc[w] = "left" => Unclaimed = {}
  /\ result # None => AllLeft
  /\ result = "ok" => Good /\ dim = Len(Dims)

\* The passengers v has taken from its chunk, but for the player's vehicle x.
Filled(v, x) ==
  {i \in DOMAIN Links(v) : Links(v)[i] \in Came(Home(v)) /\ Links(v)[i] # x}

HeldOf(w) == IF ctx[w].held THEN ctx[w].root ELSE None

\* Between two turns of the loop over the vehicles of chunk c.
Standing(w, c) ==
  /\ here[w] \subseteq Came(c)
  /\ \A v \in Came(c) :
       /\ v \in visits[w] => riders[v] = {} /\ ctx[w].vehicles[v] = DOMAIN Links(v)
       /\ v \notin visits[w] => riders[v] = Filled(v, HeldOf(w))
       /\ v \in here[w] <=> ~Seated(v) /\ HeldOf(w) # v
  /\ \A v \in Came(c) : DrivenByPlayer(v) =>
       /\ ctx[w].root = v
       /\ ctx[w].held <=> v \notin visits[w] /\ InOneChunk(v)
       /\ ctx[w].held => ~Seated(v)

CurrentInv == \A w \in Workers, c \in Chunks : Current(w, c) => Standing(w, c)

PastInv ==
  /\ \A v \in Entities : riders[v] \subseteq Filled(v, None)
  /\ world.shoulder \in Entities => riders[world.shoulder] = {}
  /\ \A v \in Entities : riders[v] # {} =>
       Past(Home(v)) \/ \E w \in Workers : Current(w, Home(v)) /\ v \notin visits[w]
  /\ \A v \in Entities \ {world.shoulder} : Past(Home(v)) /\ ~Passenger(v) =>
       riders[v] = {i \in Filled(v, None) : ~Taken(Links(v)[i])}

\* In a file, or in an editor that will be written.
Written(p) == p \in file \/ \E w \in Workers : Active(w) /\ p \in editor[w]

FileInv ==
  /\ \A p \in Chunks \X Entities : Written(p) => Home(p[2]) = p[1] /\ Past(p[1])
  /\ \A e \in Entities : Past(Home(e)) =>
       (Written(<<Home(e), e>>) <=> e # world.shoulder /\ ~Seated(e) /\ ~DrivenByPlayer(e))

\* The Contexts of the dimension that will be merged into bin.
Pending ==
  {total} \cup {ctx[w] : w \in {u \in Workers : Active(u)}}
          \cup {sum[w] : w \in {u \in Workers : pc[u] # "left"}}

\* What a Context says about the player's vehicle, of a chunk that is past.
RootRight(x) ==
  IF x.root = None THEN ~x.held
  ELSE DrivenByPlayer(x.root) /\ Past(Home(x.root)) /\ (x.held <=> Taken(x.root))

RootsRight ==
  /\ RootRight(bin) /\ RootRight(total)
  /\ \A w \in Workers : RootRight(sum[w])
  /\ \A w \in Workers : Active(w) =>
       RootRight(ctx[w]) \/ (ctx[w].root # None /\ Current(w, Home(ctx[w].root))
                               /\ DrivenByPlayer(ctx[w].root))

RootInv ==
  /\ RootsRight
  /\ \A e \in Entities : DrivenByPlayer(e) /\ Past(Home(e)) =>
       bin.root = e \/ \E x \in Pending : x.root = e

ShouldersRight ==
  \A x \in {bin, total} \cup {ctx[w] : w \in Workers} \cup {sum[w] : w \in Workers} :
    x.shoulder \in {None, world.shoulder}

ShoulderInv ==
  /\ ShouldersRight
  /\ \A w \in Workers, c \in Chunks :
       Current(w, c) /\ Shouldered(c) => ctx[w].shoulder = world.shoulder
  /\ \A c \in Chunks : Past(c) /\ Shouldered(c) =>
       bin.shoulder = world.shoulder \/ \E x \in Pending : x.shoulder = world.shoulder

KnotInv ==
  /\ \A w \in Workers : Active(w) =>
       (world.knot \in ctx[w].knots <=>
          /\ DimOf(world.knot) = dim /\ RegOf(world.knot) = region[w]
          /\ Turn(world.knot) < at[w] \/ Current(w, world.knot))
  /\ Past(world.knot) /\ DimOf(world.knot) = dim => \E x \in Pending : world.knot \in x.knots

\* A lead whose end the conversion can know.
Leads(e) ==
  /\ e \in world.leashed \ {world.shoulder} /\ ~Passenger(e) /\ ~DrivenByPlayer(e)
  /\ DimOf(world.knot) = DimOf(Home(e))

InTurn(e) ==
  RegionOf(world.knot) = RegionOf(Home(e)) /\ Turn(world.knot) <= Turn(Home(e))

LeadInv ==
  /\ \A e \in Entities : Leads(e) /\ ~Past(Home(e)) => tie[e] = "uuid"
  /\ \A w \in Workers : pc[w] = "attach" => Came(Chunk(w)) \cap world.leashed \subseteq ctx[w].leashed
  /\ \A e \in Entities : Leads(e) /\ Past(Home(e)) =>
       /\ tie[e] = "knot" <=> \/ InTurn(e)
                              \/ world.reaches /\ (DimOf(Home(e)) < dim \/ result # None)
       /\ ~InTurn(e) /\ DimOf(Home(e)) = dim =>
            \E x \in Pending : e \in x.leashed

EndInv ==
  result = "ok" => /\ \A e \in Entities : DrivenByPlayer(e) => bin.root = e
                   /\ bin.shoulder = world.shoulder
                   /\ player.vehicle = DrainRootVehicle(bin) /\ player.shoulder = bin.shoulder

\* What holds as long as no region has failed.
GoodInv ==
  /\ CurrentInv
  /\ PastInv
  /\ FileInv
  /\ RootInv
  /\ ShoulderInv
  /\ KnotInv
  /\ LeadInv
  /\ EndInv

IInv ==
  /\ TypeInv
  /\ OwnInv
  /\ PhaseInv
  /\ Good => GoodInv

-----------------------------------------------------------------------------
(* Chunks and their places *)

LEMMA ChunkAt ==
  ASSUME NEW d \in DOMAIN Dims, NEW r \in DOMAIN Dims[d], NEW i \in DOMAIN Dims[d][r]
  PROVE  /\ Dims[d][r][i] \in Chunks
         /\ d \in Nat \ {0} /\ r \in Nat \ {0} /\ i \in Nat \ {0}
         /\ i <= Len(Dims[d][r])
<1>1. Dims \in Seq(Seq(Seq(Chunks) \ {<<>>}))
  BY DimsAssumption
<1>2. Dims[d] \in Seq(Seq(Chunks) \ {<<>>})
  BY <1>1
<1>3. Dims[d][r] \in Seq(Chunks)
  BY <1>2
<1>. QED  BY <1>1, <1>2, <1>3

LEMMA DimLengths ==
  /\ DOMAIN Dims = 1 .. Len(Dims) /\ Len(Dims) \in Nat \ {0}
  /\ \A d \in DOMAIN Dims : \A r \in DOMAIN Dims[d] :
       /\ DOMAIN Dims[d][r] = 1 .. Len(Dims[d][r])
       /\ Len(Dims[d][r]) \in Nat \ {0}
<1>1. Dims \in Seq(Seq(Seq(Chunks) \ {<<>>})) /\ Dims # <<>>
  BY DimsAssumption
<1>2. ASSUME NEW d \in DOMAIN Dims PROVE Dims[d] \in Seq(Seq(Chunks) \ {<<>>})
  BY <1>1
<1>3. ASSUME NEW d \in DOMAIN Dims, NEW r \in DOMAIN Dims[d]
      PROVE  Dims[d][r] \in Seq(Chunks) /\ Dims[d][r] # <<>>
  BY <1>2
<1>4. Len(Dims) # 0
  BY <1>1
<1>5. ASSUME NEW d \in DOMAIN Dims, NEW r \in DOMAIN Dims[d]
      PROVE  Len(Dims[d][r]) # 0
  BY <1>3
<1>. QED  BY <1>1, <1>3, <1>4, <1>5

LEMMA PlaceOf ==
  ASSUME NEW c \in Chunks
  PROVE  /\ DimOf(c) \in DOMAIN Dims
         /\ RegOf(c) \in DOMAIN Dims[DimOf(c)]
         /\ Turn(c) \in DOMAIN Dims[DimOf(c)][RegOf(c)]
         /\ Dims[DimOf(c)][RegOf(c)][Turn(c)] = c
         /\ RegionOf(c) = <<DimOf(c), RegOf(c)>>
<1>. DEFINE P == UNION {{d} \X DOMAIN Dims[d] : d \in DOMAIN Dims}
<1>1. PICK d \in DOMAIN Dims : \E r \in DOMAIN Dims[d] : c \in Range(Dims[d][r])
  BY DEF Chunks
<1>2. PICK r \in DOMAIN Dims[d] : c \in Range(Dims[d][r])
  BY <1>1
<1>3. <<d, r>> \in P /\ c \in Range(Dims[<<d, r>>[1]][<<d, r>>[2]])
  BY <1>2
<1>4. RegionOf(c) \in P /\ c \in Range(Dims[RegionOf(c)[1]][RegionOf(c)[2]])
  BY <1>3 DEF RegionOf
<1>5. /\ DimOf(c) \in DOMAIN Dims /\ RegOf(c) \in DOMAIN Dims[DimOf(c)]
      /\ RegionOf(c) = <<DimOf(c), RegOf(c)>>
      /\ c \in Range(Dims[DimOf(c)][RegOf(c)])
  BY <1>4 DEF DimOf, RegOf
<1>6. PICK i \in DOMAIN Dims[DimOf(c)][RegOf(c)] : Dims[DimOf(c)][RegOf(c)][i] = c
  BY <1>5 DEF Range
<1>7. Turn(c) = CHOOSE j \in DOMAIN Dims[DimOf(c)][RegOf(c)] : Dims[DimOf(c)][RegOf(c)][j] = c
  BY DEF Turn, DimOf, RegOf
<1>8. Turn(c) \in DOMAIN Dims[DimOf(c)][RegOf(c)] /\ Dims[DimOf(c)][RegOf(c)][Turn(c)] = c
  BY <1>6, <1>7
<1>. QED  BY <1>5, <1>8

\* A chunk is in one place.
LEMMA PlaceIs ==
  ASSUME NEW d \in DOMAIN Dims, NEW r \in DOMAIN Dims[d], NEW i \in DOMAIN Dims[d][r],
         NEW c, c = Dims[d][r][i]
  PROVE  c \in Chunks /\ DimOf(c) = d /\ RegOf(c) = r /\ Turn(c) = i
<1>1. c \in Chunks
  BY ChunkAt
<1>. QED  BY <1>1, PlaceOf, DimsAssumption

LEMMA PlaceNat ==
  ASSUME NEW c \in Chunks
  PROVE  DimOf(c) \in Nat \ {0} /\ RegOf(c) \in Nat \ {0} /\ Turn(c) \in Nat \ {0}
BY PlaceOf, ChunkAt

-----------------------------------------------------------------------------
(* Worlds and Contexts *)

LEMMA WorldIs ==
  ASSUME TypeInv
  PROVE  /\ world.at \in [Entities -> Chunks]
         /\ world.links \in [Entities -> Seq(Entities \cup {Player})]
         /\ \A a, b \in Entities : \A i \in DOMAIN Links(a), j \in DOMAIN Links(b) :
              Links(a)[i] = Links(b)[j] => a = b /\ i = j
         /\ \A a \in Entities : \A i \in DOMAIN Links(a) : Links(a)[i] # a
         /\ world.leashed \subseteq Entities
         /\ world.knot \in Chunks
         /\ world.shoulder \in Entities \cup {None}
         /\ world.reaches \in BOOLEAN
         /\ \A e \in Entities : Home(e) \in Chunks
         /\ \A e \in Entities : Links(e) \in Seq(Entities \cup {Player})
         /\ \A e \in Entities : DOMAIN Links(e) \subseteq Nat
         /\ \A e \in Entities : \A i \in DOMAIN Links(e) : Links(e)[i] \in Entities \cup {Player}
<1>1. world \in Worlds
  BY DEF TypeInv
<1>2. /\ world.at \in [Entities -> Chunks]
      /\ world.links \in [Entities -> Seq(Entities \cup {Player})]
      /\ \A a, b \in Entities : \A i \in DOMAIN Links(a), j \in DOMAIN Links(b) :
           Links(a)[i] = Links(b)[j] => a = b /\ i = j
      /\ \A a \in Entities : \A i \in DOMAIN Links(a) : Links(a)[i] # a
      /\ world.leashed \subseteq Entities
      /\ world.knot \in Chunks
      /\ world.shoulder \in Entities \cup {None}
      /\ world.reaches \in BOOLEAN
  BY <1>1, WorldsAssumption DEF Links
<1>3. \A e \in Entities : Home(e) \in Chunks /\ Links(e) \in Seq(Entities \cup {Player})
  BY <1>2 DEF Home, Links
<1>4. \A e \in Entities : DOMAIN Links(e) \subseteq Nat
  BY <1>3
<1>5. \A e \in Entities : \A i \in DOMAIN Links(e) : Links(e)[i] \in Entities \cup {Player}
  BY <1>3
<1>. QED  BY <1>2, <1>3, <1>4, <1>5

LEMMA CameIs ==
  ASSUME NEW c
  PROVE  /\ \A e : e \in Came(c) <=> e \in Entities /\ Home(e) = c /\ e # world.shoulder
         /\ Came(c) \subseteq Entities
BY DEF Came, Home

\* Who rides what, in terms of the chunk.
LEMMA RidesIs ==
  ASSUME TypeInv
  PROVE  /\ \A v, p \in Entities : Together(v, p) <=> v # world.shoulder /\ p \in Came(Home(v))
         /\ \A e \in Entities : DrivenByPlayer(e) <=>
              e # world.shoulder /\ \E i \in DOMAIN Links(e) : Links(e)[i] = Player
         /\ \A e, f \in Entities : DrivenByPlayer(e) /\ DrivenByPlayer(f) => e = f
         /\ \A v \in Entities \ {world.shoulder} :
              InOneChunk(v) <=> \A i \in DOMAIN Links(v) :
                                  Links(v)[i] # Player => Links(v)[i] \in Came(Home(v))
         /\ \A e \in Entities : Passenger(e) <=>
              \E v \in Entities \ {world.shoulder} : e \in Came(Home(v))
                                                     /\ \E i \in DOMAIN Links(v) : Links(v)[i] = e
<1>. USE WorldIs, CameIs, NamesAssumption
<1>1. \A v, p \in Entities : Together(v, p) <=> v # world.shoulder /\ p \in Came(Home(v))
  BY DEF Together, Home
<1>2. \A e \in Entities : DrivenByPlayer(e) <=>
        e # world.shoulder /\ \E i \in DOMAIN Links(e) : Links(e)[i] = Player
  BY DEF DrivenByPlayer, Carries, Range
<1>3. \A e, f \in Entities : DrivenByPlayer(e) /\ DrivenByPlayer(f) => e = f
  BY <1>2
<1>4. \A v \in Entities \ {world.shoulder} :
        InOneChunk(v) <=> \A i \in DOMAIN Links(v) :
                            Links(v)[i] # Player => Links(v)[i] \in Came(Home(v))
  BY <1>1 DEF InOneChunk, Carries, Range
<1>5. \A e \in Entities : Passenger(e) <=>
        \E v \in Entities \ {world.shoulder} : e \in Came(Home(v))
                                               /\ \E i \in DOMAIN Links(v) : Links(v)[i] = e
  BY <1>1 DEF Passenger, Carries, Range
<1>. QED  BY <1>1, <1>2, <1>3, <1>4, <1>5

LEMMA BlankIs ==
  /\ Blank \in Contexts /\ Blank.leashed = {} /\ Blank.knots = {} /\ Blank.root = None
  /\ Blank.held = FALSE /\ Blank.shoulder = None /\ DOMAIN Blank.vehicles = {}
<1>1. <<>> \in [{} -> SUBSET Nat] /\ DOMAIN <<>> = {}
  OBVIOUS
<1>. QED  BY <1>1 DEF Blank, Contexts

LEMMA MakeIs ==
  ASSUME NEW x \in Contexts
  PROVE  /\ Make(x) \in Contexts /\ Make(x).leashed = {} /\ Make(x).knots = {}
         /\ Make(x).root = x.root /\ Make(x).held = x.held /\ Make(x).shoulder = None
         /\ DOMAIN Make(x).vehicles = {}
<1>1. <<>> \in [{} -> SUBSET Nat] /\ DOMAIN <<>> = {}
  OBVIOUS
<1>. QED  BY <1>1 DEF Make, Blank, Contexts

LEMMA MergeIs ==
  ASSUME NEW from \in Contexts, NEW to \in Contexts
  PROVE  /\ MergeInto(from, to) \in Contexts
         /\ MergeInto(from, to).leashed = to.leashed \cup from.leashed
         /\ MergeInto(from, to).knots = to.knots \cup from.knots
         /\ MergeInto(from, to).root = IF to.root = None THEN from.root ELSE to.root
         /\ MergeInto(from, to).held = IF to.root = None THEN from.held ELSE to.held
         /\ MergeInto(from, to).shoulder = IF to.shoulder = None THEN from.shoulder ELSE to.shoulder
BY DEF MergeInto, Contexts

LEMMA ReadIs ==
  ASSUME TypeInv, NEW x \in Contexts, NEW c \in Chunks
  PROVE  /\ Read(x, c) \in Contexts
         /\ Read(x, c).leashed = x.leashed \cup (Came(c) \cap world.leashed)
         /\ Read(x, c).knots = IF world.knot = c THEN x.knots \cup {c} ELSE x.knots
         /\ Read(x, c).shoulder = IF Shouldered(c) THEN world.shoulder ELSE x.shoulder
         /\ \A e \in DOMAIN Read(x, c).vehicles : Links(e) # <<>> \/ e \in DOMAIN x.vehicles
         /\ \A e \in Came(c) : Links(e) # <<>> =>
              e \in DOMAIN Read(x, c).vehicles /\ Read(x, c).vehicles[e] = DOMAIN Links(e)
         /\ (\E e \in Came(c) : DrivenByPlayer(e)) =>
              /\ Read(x, c).root \in Came(c) /\ DrivenByPlayer(Read(x, c).root)
              /\ ~Read(x, c).held
         /\ (\A e \in Came(c) : ~DrivenByPlayer(e)) =>
              Read(x, c).root = x.root /\ Read(x, c).held = x.held
<1>. DEFINE cars == {e \in Came(c) : Links(e) # <<>>}
            mine == {e \in Came(c) : Player \in Carries(e)}
            noted == [e \in cars \cup DOMAIN x.vehicles |->
                        IF e \in cars THEN DOMAIN Links(e) ELSE x.vehicles[e]]
            root == IF mine = {} THEN x.root ELSE CHOOSE e \in mine : TRUE
            held == mine = {} /\ x.held
<1>1. PICK S \in SUBSET Entities : x.vehicles \in [S -> SUBSET Nat]
  BY DEF Contexts
<1>2. noted = [e \in cars \cup S |-> IF e \in cars THEN DOMAIN Links(e) ELSE x.vehicles[e]]
  BY <1>1
<1>3. noted \in [cars \cup S -> SUBSET Nat] /\ cars \cup S \in SUBSET Entities
  <2>1. cars \cup S \in SUBSET Entities
    BY CameIs
  <2>2. ASSUME NEW e \in cars PROVE DOMAIN Links(e) \in SUBSET Nat
    BY CameIs, WorldIs
  <2>3. ASSUME NEW e \in S PROVE x.vehicles[e] \in SUBSET Nat
    BY <1>1
  <2>. HIDE DEF cars
  <2>. QED  BY <2>1, <2>2, <2>3, <1>2
<1>4. mine = {e \in Came(c) : DrivenByPlayer(e)}
  BY CameIs DEF DrivenByPlayer
<1>5. /\ mine # {} => root \in mine /\ ~held
      /\ mine = {} => root = x.root /\ held = x.held
  BY DEF Contexts
<1>6. root \in Entities \cup {None} /\ held \in BOOLEAN
  BY <1>5, CameIs DEF Contexts
<1>7. Read(x, c) = [x EXCEPT !.shoulder = IF Shouldered(c) THEN world.shoulder ELSE @,
                             !.leashed = @ \cup (Came(c) \cap world.leashed),
                             !.knots = IF world.knot = c THEN @ \cup {c} ELSE @,
                             !.vehicles = noted, !.root = root, !.held = held]
  BY DEF Read
<1>8. Shouldered(c) => world.shoulder \in Entities
  BY DEF Shouldered
<1>. DEFINE leashed == x.leashed \cup (Came(c) \cap world.leashed)
            knots == IF world.knot = c THEN x.knots \cup {c} ELSE x.knots
            shoulder == IF Shouldered(c) THEN world.shoulder ELSE x.shoulder
<1>12. /\ leashed \in SUBSET Entities /\ knots \in SUBSET Chunks
       /\ shoulder \in Entities \cup {None}
  BY <1>8, CameIs, WorldIs DEF Contexts
<1>13. noted \in UNION {[T -> SUBSET Nat] : T \in SUBSET Entities}
  <2>. HIDE DEF noted, cars
  <2>. QED  BY <1>3
<1>14. Read(x, c) = [x EXCEPT !.shoulder = shoulder, !.leashed = leashed, !.knots = knots,
                              !.vehicles = noted, !.root = root, !.held = held]
  BY <1>7
<1>15. /\ x = [leashed |-> x.leashed, knots |-> x.knots, vehicles |-> x.vehicles,
               root |-> x.root, held |-> x.held, shoulder |-> x.shoulder]
  BY DEF Contexts
<1>. HIDE DEF noted, root, held, mine, cars, leashed, knots, shoulder
<1>16. Read(x, c) = [leashed |-> leashed, knots |-> knots, vehicles |-> noted,
                     root |-> root, held |-> held, shoulder |-> shoulder]
  BY <1>14, <1>15
<1>9. /\ Read(x, c) \in Contexts
      /\ Read(x, c).leashed = x.leashed \cup (Came(c) \cap world.leashed)
      /\ Read(x, c).knots = IF world.knot = c THEN x.knots \cup {c} ELSE x.knots
      /\ Read(x, c).shoulder = IF Shouldered(c) THEN world.shoulder ELSE x.shoulder
      /\ Read(x, c).vehicles = noted /\ Read(x, c).root = root /\ Read(x, c).held = held
  BY <1>6, <1>12, <1>13, <1>16 DEF Contexts, leashed, knots, shoulder
<1>10. /\ \A e \in DOMAIN noted : Links(e) # <<>> \/ e \in DOMAIN x.vehicles
       /\ \A e \in Came(c) : Links(e) # <<>> => e \in DOMAIN noted /\ noted[e] = DOMAIN Links(e)
  BY DEF cars, noted
<1>11. /\ (\E e \in Came(c) : DrivenByPlayer(e)) =>
            root \in Came(c) /\ DrivenByPlayer(root) /\ ~held
       /\ (\A e \in Came(c) : ~DrivenByPlayer(e)) => root = x.root /\ held = x.held
  BY <1>4, <1>5
<1>. QED  BY <1>9, <1>10, <1>11

-----------------------------------------------------------------------------

\* What depends on the world only does not change with a step.
LEMMA WorldSame ==
  ASSUME world' = world
  PROVE  /\ \A e \in Entities : /\ Home(e)' = Home(e) /\ Links(e)' = Links(e)
                                /\ DrivenByPlayer(e)' <=> DrivenByPlayer(e)
                                /\ InOneChunk(e)' <=> InOneChunk(e)
                                /\ Passenger(e)' <=> Passenger(e)
                                /\ Leads(e)' <=> Leads(e)
                                /\ InTurn(e)' <=> InTurn(e)
         /\ \A c \in Chunks : Came(c)' = Came(c) /\ (Shouldered(c)' <=> Shouldered(c))
         /\ \A v \in Entities : \A x : Filled(v, x)' = Filled(v, x)
BY DEF Home, Links, DrivenByPlayer, InOneChunk, Passenger, Leads, InTurn, Came, Shouldered,
       Filled, Together, Carries, DimOf, RegionOf, Turn

LEMMA SeatedSame ==
  ASSUME world' = world, riders' = riders
  PROVE  \A e \in Entities : (Seated(e)' <=> Seated(e)) /\ (Taken(e)' <=> Taken(e))
BY WorldSame DEF Seated, Taken, Links, DrivenByPlayer, InOneChunk, Together, Carries

-----------------------------------------------------------------------------
(* The initial states *)

LEMMA FirstChunk ==
  ASSUME NEW c \in Chunks, DimOf(c) < 1 PROVE FALSE
BY PlaceNat

LEMMA InitInv ==
  Init => IInv
<1>. SUFFICES ASSUME Init PROVE IInv
  OBVIOUS
<1>1. TypeInv
  <2>1. 1 \in DOMAIN Dims
    BY DimLengths
  <2>. QED  BY <2>1, BlankIs, WorldsAssumption DEF Init, TypeInv
<1>. USE <1>1
<1>2. \A w \in Workers : pc[w] = "take" /\ ~Active(w)
  BY DEF Init, Active
<1>3. result = None /\ None \notin {"ok", "error"}
  BY NamesAssumption DEF Init
<1>4. OwnInv /\ PhaseInv
  BY <1>2, <1>3, BlankIs DEF OwnInv, PhaseInv, Init
<1>5. \A c \in Chunks : ~Past(c) /\ \A w \in Workers : ~Current(w, c)
  BY <1>2, FirstChunk DEF Past, Current, Init
<1>6. \A v \in Entities : riders[v] = {}
  BY DEF Init
<1>7. \A e \in Entities : Home(e) \in Chunks
  BY WorldIs
<1>8. world.knot \in Chunks
  BY WorldIs
<1>9. CurrentInv /\ PastInv /\ FileInv
  BY <1>2, <1>5, <1>6, <1>7 DEF CurrentInv, PastInv, FileInv, Written, Init
<1>10. RootInv /\ ShoulderInv /\ KnotInv
  BY <1>2, <1>5, <1>7, <1>8, BlankIs DEF RootInv, RootsRight, RootRight, ShoulderInv, ShouldersRight, KnotInv, Init
<1>11. LeadInv
  BY <1>2, <1>5, <1>7 DEF LeadInv, Leads, Init
<1>12. EndInv
  BY <1>3 DEF EndInv
<1>. QED  BY <1>4, <1>9, <1>10, <1>11, <1>12 DEF IInv, GoodInv

-----------------------------------------------------------------------------
(* Types, the workers' regions, the phases *)

LEMMA RegionIs ==
  ASSUME TypeInv, NEW r \in DOMAIN Dims[dim]
  PROVE  /\ DOMAIN Dims[dim][r] = 1 .. Len(Dims[dim][r]) /\ Len(Dims[dim][r]) \in Nat \ {0}
         /\ r \in Nat
         /\ \A i \in DOMAIN Dims[dim][r] : Dims[dim][r][i] \in Chunks
<1>1. dim \in DOMAIN Dims
  BY DEF TypeInv
<1>2. 1 \in DOMAIN Dims[dim][r]
  BY <1>1, DimLengths
<1>. QED  BY <1>1, <1>2, DimLengths, ChunkAt

\* The chunk a worker converts.
LEMMA AtChunk ==
  ASSUME TypeInv, OwnInv, NEW w \in Workers, pc[w] \in {"convert", "attach"}
  PROVE  /\ Chunk(w) \in Chunks /\ DimOf(Chunk(w)) = dim
         /\ RegOf(Chunk(w)) = region[w] /\ Turn(Chunk(w)) = at[w]
         /\ region[w] \in claimed /\ at[w] \in 1 .. Len(RegionChunks(w))
         /\ at[w] \in Nat /\ Len(RegionChunks(w)) \in Nat
<1>1. dim \in DOMAIN Dims /\ claimed \subseteq DOMAIN Dims[dim]
  BY DEF TypeInv
<1>2. region[w] \in claimed /\ at[w] \in DOMAIN RegionChunks(w)
  BY DEF OwnInv, Active
<1>3. at[w] \in DOMAIN Dims[dim][region[w]] /\ region[w] \in DOMAIN Dims[dim]
  BY <1>1, <1>2 DEF RegionChunks
<1>4. Chunk(w) = Dims[dim][region[w]][at[w]]
  BY DEF Chunk, RegionChunks
<1>5. /\ Chunk(w) \in Chunks /\ DimOf(Chunk(w)) = dim
      /\ RegOf(Chunk(w)) = region[w] /\ Turn(Chunk(w)) = at[w]
  BY <1>1, <1>3, <1>4, PlaceIs
<1>6. at[w] \in 1 .. Len(RegionChunks(w)) /\ Len(RegionChunks(w)) \in Nat
  BY <1>3, RegionIs DEF RegionChunks
<1>. QED  BY <1>2, <1>5, <1>6

LEMMA NextTypes ==
  TypeInv /\ OwnInv /\ PhaseInv /\ [Next]_vars => TypeInv'
<1>. SUFFICES ASSUME TypeInv, OwnInv, PhaseInv, [Next]_vars PROVE TypeInv'
  OBVIOUS
<1>. USE DEF dimVars, chunkVars, endVars
<1>1. /\ \A w \in Workers : ctx[w] \in Contexts /\ sum[w] \in Contexts
      /\ total \in Contexts /\ bin \in Contexts /\ Make(bin) \in Contexts
  BY MakeIs DEF TypeInv
<1>2. ASSUME NEW w \in Workers, Take(w) PROVE TypeInv'
  <2>1. PICK r \in Unclaimed : claimed' = claimed \cup {r} /\ region' = [region EXCEPT ![w] = r]
    BY <1>2 DEF Take
  <2>2. r \in DOMAIN Dims[dim] /\ r \in Nat
    BY RegionIs DEF Unclaimed
  <2>3. sum' \in [Workers -> Contexts]
    BY <1>1, <1>2, MergeIs DEF Take, Join, TypeInv
  <2>4. pc' \in [Workers -> {"take", "convert", "attach", "write", "fail", "left"}]
    BY <1>2 DEF Take, Goto, TypeInv
  <2>. QED  BY <1>1, <1>2, <2>1, <2>2, <2>3, <2>4 DEF Take, TypeInv
<1>3. ASSUME NEW w \in Workers, ReadChunk(w) PROVE TypeInv'
  <2>1. Chunk(w) \in Chunks
    BY <1>3, AtChunk DEF ReadChunk
  <2>2. Read(ctx[w], Chunk(w)) \in Contexts /\ Came(Chunk(w)) \subseteq Entities
    BY <1>1, <2>1, ReadIs, CameIs
  <2>3. DOMAIN Read(ctx[w], Chunk(w)).vehicles \subseteq Entities
    BY <2>2 DEF Contexts
  <2>. QED  BY <1>3, <2>2, <2>3 DEF ReadChunk, Goto, TypeInv
<1>4. ASSUME NEW w \in Workers, NEW v \in Entities, SeatPassengers(w, v) PROVE TypeInv'
  <2>. DEFINE cars == IF Waits(w, v) = {} THEN Restrict(ctx[w].vehicles, DOMAIN ctx[w].vehicles \ {v})
                      ELSE [ctx[w].vehicles EXCEPT ![v] = Waits(w, v)]
              held == ctx[w].held \/ (Waits(w, v) = {} /\ ctx[w].root = v)
              x == [ctx[w] EXCEPT !.vehicles = cars, !.held = held]
  <2>0. ctx[w] \in Contexts
    BY <1>1
  <2>1. PICK S \in SUBSET Entities : ctx[w].vehicles \in [S -> SUBSET Nat]
    BY <2>0 DEF Contexts
  <2>3. v \in S
    BY <1>4, <2>1 DEF SeatPassengers, OwnInv
  <2>2. cars \in UNION {[T -> SUBSET Nat] : T \in SUBSET Entities}
    <3>1. CASE Waits(w, v) = {}
      <4>1. cars \in [S \ {v} -> SUBSET Nat]
        BY <2>1, <3>1 DEF Restrict
      <4>. QED  BY <4>1
    <3>2. CASE Waits(w, v) # {}
      <4>1. Waits(w, v) \in SUBSET Nat
        BY <2>1, <2>3 DEF Waits
      <4>2. cars \in [S -> SUBSET Nat]
        BY <2>1, <3>2, <4>1
      <4>. QED  BY <4>2
    <3>. QED  BY <3>1, <3>2
  <2>4. Boards(w, v) \in SUBSET Nat
    BY <2>1, <2>3 DEF Boards
  <2>5. ctx' = [ctx EXCEPT ![w] = x]
    BY <1>1, <1>4 DEF SeatPassengers, TypeInv
  <2>. HIDE DEF cars
  <2>6. x \in Contexts
    BY <1>1, <2>2 DEF Contexts
  <2>. HIDE DEF x
  <2>7. ctx' \in [Workers -> Contexts]
    BY <2>5, <2>6 DEF TypeInv
  <2>8. riders' \in [Entities -> SUBSET Nat]
    BY <1>4, <2>4 DEF SeatPassengers, TypeInv
  <2>9. here' \in [Workers -> SUBSET Entities] /\ visits' \in [Workers -> SUBSET Entities]
    BY <1>4 DEF SeatPassengers, TypeInv
  <2>. QED  BY <1>4, <2>7, <2>8, <2>9 DEF SeatPassengers, TypeInv
<1>5. ASSUME NEW w \in Workers, FinishChunk(w) PROVE TypeInv'
  <2>. DEFINE x == [ctx[w] EXCEPT !.leashed = @ \ Tied(w)]
  <2>1. Chunk(w) \in Chunks /\ at[w] + 1 \in Nat
    BY <1>5, AtChunk DEF FinishChunk
  <2>2. x \in Contexts /\ ctx' = [ctx EXCEPT ![w] = x]
    BY <1>1, <1>5 DEF FinishChunk, Contexts, TypeInv
  <2>3. {Chunk(w)} \X (here[w] \ {ctx[w].root}) \subseteq Chunks \X Entities
    BY <2>1 DEF TypeInv
  <2>4. tie' \in [Entities -> {"none", "uuid", "knot"}]
    BY <1>5 DEF FinishChunk, TypeInv
  <2>5. /\ pc' \in [Workers -> {"take", "convert", "attach", "write", "fail", "left"}]
        /\ cancelled' \in BOOLEAN
    BY <1>5 DEF FinishChunk, Goto, TypeInv
  <2>. HIDE DEF x
  <2>6. ctx' \in [Workers -> Contexts]
    BY <2>2 DEF TypeInv
  <2>7. editor' \in [Workers -> SUBSET (Chunks \X Entities)]
    BY <1>5, <2>3 DEF FinishChunk, TypeInv
  <2>8. /\ here' \in [Workers -> SUBSET Entities] /\ visits' \in [Workers -> SUBSET Entities]
        /\ at' \in [Workers -> Nat]
    BY <1>5, <2>1 DEF FinishChunk, TypeInv
  <2>. QED  BY <1>5, <2>4, <2>5, <2>6, <2>7, <2>8 DEF FinishChunk, TypeInv
<1>6. ASSUME NEW w \in Workers, WriteRegion(w) PROVE TypeInv'
  <2>1. sum' \in [Workers -> Contexts]
    BY <1>1, <1>6, MergeIs DEF WriteRegion, Join, TypeInv
  <2>. QED  BY <1>6, <2>1 DEF WriteRegion, Goto, TypeInv
<1>7. ASSUME NEW w \in Workers, FailRegion(w) PROVE TypeInv'
  <2>1. sum' \in [Workers -> Contexts]
    BY <1>1, <1>7, MergeIs DEF FailRegion, Join, TypeInv
  <2>. QED  BY <1>7, <2>1 DEF FailRegion, Goto, TypeInv
<1>8. ASSUME NEW w \in Workers, JoinTotal(w) PROVE TypeInv'
  <2>1. total' \in Contexts
    BY <1>1, <1>8, MergeIs DEF JoinTotal
  <2>. QED  BY <1>8, <2>1 DEF JoinTotal, Goto, TypeInv
<1>9. CASE StopWorld
  BY <1>9 DEF StopWorld, TypeInv
<1>10. CASE NextDimension
  <2>1. bin' \in Contexts
    BY <1>1, <1>10, MergeIs DEF NextDimension
  <2>2. dim' \in DOMAIN Dims
    BY <1>10, DimLengths DEF NextDimension, TypeInv
  <2>3. /\ pc' \in [Workers -> {"take", "convert", "attach", "write", "fail", "left"}]
        /\ tie' \in [Entities -> {"none", "uuid", "knot"}]
        /\ claimed' = {}
    BY <1>10 DEF NextDimension, TypeInv
  <2>4. sum' \in [Workers -> Contexts] /\ total' \in Contexts
    BY <1>10, <2>1, MakeIs DEF NextDimension
  <2>. QED  BY <1>10, <2>1, <2>2, <2>3, <2>4 DEF NextDimension, TypeInv
<1>11. CASE Finish
  <2>1. bin' \in Contexts
    BY <1>1, <1>11, MergeIs DEF Finish
  <2>2. DrainRootVehicle(bin') \in Entities \cup {None} /\ bin'.shoulder \in Entities \cup {None}
    BY <2>1 DEF DrainRootVehicle, Contexts
  <2>3. tie' \in [Entities -> {"none", "uuid", "knot"}]
    BY <1>11 DEF Finish, TypeInv
  <2>. QED  BY <1>11, <2>1, <2>2, <2>3 DEF Finish, TypeInv
<1>12. CASE UNCHANGED vars
  BY <1>12 DEF vars, TypeInv
<1>. QED  BY <1>2, <1>3, <1>4, <1>5, <1>6, <1>7, <1>8, <1>9, <1>10, <1>11, <1>12 DEF Next, Done

LEMMA NextOwn ==
  TypeInv /\ OwnInv /\ [Next]_vars => OwnInv'
<1>. SUFFICES ASSUME TypeInv, OwnInv, [Next]_vars PROVE OwnInv'
  OBVIOUS
<1>. USE DEF dimVars, chunkVars, endVars
<1>1. ASSUME pc' = pc, region' = region, at' = at, ctx' = ctx, visits' = visits,
             dim' = dim, claimed' = claimed, world' = world
      PROVE  OwnInv'
  BY <1>1 DEF OwnInv, Active, RegionChunks, Links
<1>2. ASSUME NEW w \in Workers, Take(w) PROVE OwnInv'
  <2>1. PICK r \in Unclaimed : claimed' = claimed \cup {r} /\ region' = [region EXCEPT ![w] = r]
    BY <1>2 DEF Take
  <2>2. 1 \in DOMAIN Dims[dim][r] /\ r \notin claimed
    BY RegionIs DEF Unclaimed
  <2>3. /\ pc[w] = "take" /\ pc' \in {pc, [pc EXCEPT ![w] = "convert"]}
        /\ at' = [at EXCEPT ![w] = 1] /\ ctx' = [ctx EXCEPT ![w] = Make(bin)]
        /\ dim' = dim /\ visits' = visits /\ world' = world
    BY <1>2 DEF Take, Goto
  <2>4. \A u \in Workers : \A v \in DOMAIN ctx'[u].vehicles : Links(v)' # <<>>
    <3>1. bin \in Contexts
      BY DEF TypeInv
    <3>. QED  BY <2>3, <3>1, MakeIs DEF OwnInv, TypeInv, Links
  <2>. QED  BY <2>1, <2>2, <2>3, <2>4 DEF OwnInv, Active, RegionChunks, TypeInv
<1>3. ASSUME NEW w \in Workers, ReadChunk(w) PROVE OwnInv'
  <2>1. /\ pc[w] = "convert" /\ pc' = [pc EXCEPT ![w] = "attach"]
        /\ ctx' = [ctx EXCEPT ![w] = Read(ctx[w], Chunk(w))]
        /\ visits' = [visits EXCEPT ![w] = DOMAIN Read(ctx[w], Chunk(w)).vehicles]
        /\ UNCHANGED <<dim, claimed, region, at>>
    BY <1>3 DEF ReadChunk, Goto
  <2>2. \A u \in Workers : Active(u)' <=> Active(u)
    BY <2>1 DEF Active, TypeInv
  <2>3. \A u \in Workers : RegionChunks(u)' = RegionChunks(u)
    BY <2>1 DEF RegionChunks
  <2>4. \A u \in Workers : pc'[u] = "write" <=> pc[u] = "write"
    BY <2>1 DEF TypeInv
  <2>5. \A u \in Workers : pc'[u] = "attach" => visits'[u] \subseteq DOMAIN ctx'[u].vehicles
    BY <2>1 DEF TypeInv, OwnInv
  <2>6. \A u \in Workers : \A v \in DOMAIN ctx'[u].vehicles : Links(v)' # <<>>
    <3>1. Chunk(w) \in Chunks /\ ctx[w] \in Contexts /\ world' = world
      BY <1>3, AtChunk DEF ReadChunk, TypeInv
    <3>2. \A u \in Workers : \A v \in DOMAIN ctx[u].vehicles : Links(v) # <<>>
      BY DEF OwnInv
    <3>3. \A v \in DOMAIN Read(ctx[w], Chunk(w)).vehicles : Links(v) # <<>>
      <4>1. \A v \in DOMAIN Read(ctx[w], Chunk(w)).vehicles :
              Links(v) # <<>> \/ v \in DOMAIN ctx[w].vehicles
        BY <3>1, ReadIs
      <4>. QED  BY <3>2, <4>1
    <3>4. \A u \in Workers : ctx'[u] = IF u = w THEN Read(ctx[w], Chunk(w)) ELSE ctx[u]
      BY <2>1 DEF TypeInv
    <3>. QED  BY <3>1, <3>2, <3>3, <3>4 DEF Links
  <2>. QED  BY <2>1, <2>2, <2>3, <2>4, <2>5, <2>6 DEF OwnInv
<1>4. ASSUME NEW w \in Workers, NEW v \in Entities, SeatPassengers(w, v) PROVE OwnInv'
  <2>1. pc[w] = "attach" /\ UNCHANGED <<pc, dim, claimed, region, at>>
    BY <1>4 DEF SeatPassengers
  <2>2. /\ visits' = [visits EXCEPT ![w] = @ \ {v}]
        /\ \A u \in Workers \ {w} : ctx'[u] = ctx[u]
    BY <1>4 DEF SeatPassengers, TypeInv
  <2>3. /\ DOMAIN ctx[w].vehicles \ {v} \subseteq DOMAIN ctx'[w].vehicles
        /\ DOMAIN ctx'[w].vehicles \subseteq DOMAIN ctx[w].vehicles
    <3>1. ctx'[w].vehicles = IF Waits(w, v) = {}
                             THEN Restrict(ctx[w].vehicles, DOMAIN ctx[w].vehicles \ {v})
                             ELSE [ctx[w].vehicles EXCEPT ![v] = Waits(w, v)]
      BY <1>4 DEF SeatPassengers, TypeInv, Contexts
    <3>. QED  BY <3>1 DEF Restrict
  <2>4. \A u \in Workers : pc'[u] = "attach" => visits'[u] \subseteq DOMAIN ctx'[u].vehicles
    BY <2>1, <2>2, <2>3 DEF TypeInv, OwnInv
  <2>5. \A u \in Workers : \A e \in DOMAIN ctx'[u].vehicles : Links(e)' # <<>>
    BY <1>4, <2>2, <2>3 DEF SeatPassengers, OwnInv, Links
  <2>. QED  BY <2>1, <2>4, <2>5 DEF OwnInv, Active, RegionChunks
<1>5. ASSUME NEW w \in Workers, FinishChunk(w) PROVE OwnInv'
  <2>1. /\ pc[w] = "attach" /\ at' = [at EXCEPT ![w] = @ + 1]
        /\ \/ pc' = [pc EXCEPT ![w] = IF at[w] = Len(RegionChunks(w)) THEN "write" ELSE "convert"]
           \/ pc' = [pc EXCEPT ![w] = "fail"]
        /\ UNCHANGED <<dim, claimed, region>>
        /\ visits' = [visits EXCEPT ![w] = {}]
        /\ \A u \in Workers \ {w} : ctx'[u] = ctx[u]
    BY <1>5 DEF FinishChunk, Goto, TypeInv
  <2>2. at[w] \in 1 .. Len(RegionChunks(w)) /\ Len(RegionChunks(w)) \in Nat
    BY <2>1, AtChunk
  <2>3. DOMAIN RegionChunks(w) = 1 .. Len(RegionChunks(w))
    <3>1. region[w] \in DOMAIN Dims[dim]
      BY <2>1, AtChunk DEF TypeInv
    <3>. QED  BY <3>1, RegionIs DEF RegionChunks
  <2>4. \A u \in Workers : Active(u)' => Active(u)
    BY <2>1 DEF Active, TypeInv
  <2>5. \A u \in Workers : RegionChunks(u)' = RegionChunks(u)
    BY <2>1 DEF RegionChunks
  <2>6. Active(w)' => IF pc'[w] = "write" THEN at'[w] = Len(RegionChunks(w)) + 1
                                          ELSE at'[w] \in DOMAIN RegionChunks(w)
    BY <2>1, <2>2, <2>3 DEF Active, TypeInv
  <2>7. \A u \in Workers \ {w} : pc'[u] = pc[u] /\ at'[u] = at[u] /\ visits'[u] = visits[u]
    BY <2>1 DEF TypeInv
  <2>8. pc'[w] # "attach"
    BY <2>1 DEF TypeInv
  <2>9. \A u \in Workers : \A v \in DOMAIN ctx'[u].vehicles : Links(v)' # <<>>
    <3>1. ctx'[w].vehicles = ctx[w].vehicles /\ world' = world
      BY <1>5 DEF FinishChunk, TypeInv, Contexts
    <3>. QED  BY <2>1, <3>1 DEF OwnInv, Links
  <2>. QED  BY <2>1, <2>4, <2>5, <2>6, <2>7, <2>8, <2>9 DEF OwnInv
<1>6. ASSUME NEW w \in Workers, pc' \in {[pc EXCEPT ![w] = l] : l \in {"take", "fail", "left"}},
             UNCHANGED <<world, dim, claimed, region, at, ctx, visits>>
      PROVE  OwnInv'
  BY <1>6 DEF OwnInv, Active, RegionChunks, TypeInv, Links
<1>7. ASSUME NEW w \in Workers, WriteRegion(w) \/ FailRegion(w) \/ JoinTotal(w) PROVE OwnInv'
  BY <1>6, <1>7 DEF WriteRegion, FailRegion, JoinTotal, Goto
<1>8. CASE NextDimension
  BY <1>8 DEF NextDimension, OwnInv, Active, Links
<1>9. CASE StopWorld \/ Finish \/ UNCHANGED vars
  BY <1>1, <1>9 DEF StopWorld, Finish, vars
<1>. QED  BY <1>2, <1>3, <1>4, <1>5, <1>7, <1>8, <1>9 DEF Next, Done

LEMMA NextPhase ==
  TypeInv /\ PhaseInv /\ [Next]_vars => PhaseInv'
<1>. SUFFICES ASSUME TypeInv, PhaseInv, [Next]_vars PROVE PhaseInv'
  OBVIOUS
<1>. USE NamesAssumption DEF dimVars, chunkVars, endVars
\* A worker who has left sees no region unclaimed; when all have, none moves.
<1>1. CASE StopWorld
  BY <1>1 DEF StopWorld, PhaseInv, AllLeft, Unclaimed
<1>2. CASE NextDimension
  BY <1>2 DEF NextDimension, PhaseInv
<1>3. CASE Finish
  <2>1. \A w \in Workers : pc'[w] = "left"
    BY <1>3 DEF Finish, AllLeft
  <2>. QED  BY <1>3, <2>1 DEF Finish, PhaseInv, AllLeft, Unclaimed, Good
<1>4. CASE UNCHANGED vars
  BY <1>4 DEF vars, PhaseInv, AllLeft, Unclaimed, Good
<1>5. ASSUME NEW w \in Workers, pc[w] # "left", dim' = dim, claimed \subseteq claimed',
             result' = result,
             \A u \in Workers \ {w} : pc'[u] = pc[u], pc'[w] = "left" => Unclaimed = {}
      PROVE  PhaseInv'
  <2>1. result = None /\ ~AllLeft
    BY <1>5 DEF PhaseInv, AllLeft, TypeInv
  <2>. QED  BY <1>5, <2>1 DEF PhaseInv, Unclaimed
<1>6. ASSUME NEW w \in Workers, Take(w) PROVE PhaseInv'
  BY <1>5, <1>6 DEF Take, Goto, TypeInv
<1>7. ASSUME NEW w \in Workers, ReadChunk(w) \/ FinishChunk(w) \/ WriteRegion(w) \/ FailRegion(w)
      PROVE  PhaseInv'
  BY <1>5, <1>7 DEF ReadChunk, FinishChunk, WriteRegion, FailRegion, Goto, TypeInv
<1>8. ASSUME NEW w \in Workers, NEW v \in Entities, SeatPassengers(w, v) PROVE PhaseInv'
  BY <1>5, <1>8 DEF SeatPassengers
<1>9. ASSUME NEW w \in Workers, JoinTotal(w) PROVE PhaseInv'
  BY <1>5, <1>9 DEF JoinTotal, Goto, TypeInv
<1>. QED  BY <1>1, <1>2, <1>3, <1>4, <1>6, <1>7, <1>8, <1>9 DEF Next, Done

-----------------------------------------------------------------------------
(* The guarded part, one lemma per action *)

\* A run that is good now was good before.
LEMMA GoodBefore ==
  ASSUME TypeInv, [Next]_vars, Good'
  PROVE  Good
<1>. USE DEF dimVars, chunkVars, endVars
<1>1. ok' /\ result' # "error" /\ \A w \in Workers : pc'[w] # "fail"
  BY DEF Good
<1>2. CASE StopWorld \/ NextDimension \/ Finish \/ UNCHANGED vars
  BY <1>1, <1>2, NamesAssumption DEF StopWorld, NextDimension, Finish, AllLeft, vars, Good
<1>3. ASSUME NEW w \in Workers, pc[w] # "fail", \A u \in Workers \ {w} : pc'[u] = pc[u],
             ok' = ok, result' = result
      PROVE  Good
  BY <1>1, <1>3 DEF Good
<1>4. ASSUME NEW w \in Workers, Take(w) \/ ReadChunk(w) \/ FinishChunk(w) \/ WriteRegion(w)
                                \/ JoinTotal(w) \/ \E v \in Entities : SeatPassengers(w, v)
      PROVE  Good
  BY <1>3, <1>4 DEF Take, ReadChunk, FinishChunk, WriteRegion, JoinTotal, SeatPassengers, Goto, TypeInv
<1>5. ASSUME NEW w \in Workers, FailRegion(w) PROVE FALSE
  BY <1>1, <1>5 DEF FailRegion
<1>. QED  BY <1>2, <1>4, <1>5 DEF Next, Done

\* While a worker is at work there is no result yet.
LEMMA NoResultYet ==
  ASSUME PhaseInv, NEW w \in Workers, pc[w] # "left"
  PROVE  result = None /\ result # "ok"
BY NamesAssumption DEF PhaseInv, AllLeft

\* A step does not disturb the chunk of a worker it leaves alone.
LEMMA StandingKept ==
  ASSUME TypeInv, world' = world, NEW w \in Workers, NEW c \in Chunks, Standing(w, c),
         here'[w] = here[w], visits'[w] = visits[w], ctx'[w] = ctx[w],
         \A e \in Came(c) : riders'[e] = riders[e] /\ (Seated(e)' <=> Seated(e))
  PROVE  Standing(w, c)'
<1>1. /\ Came(c)' = Came(c) /\ HeldOf(w)' = HeldOf(w)
      /\ \A e \in Came(c) : /\ e \in Entities /\ Links(e)' = Links(e)
                            /\ InOneChunk(e)' <=> InOneChunk(e)
                            /\ DrivenByPlayer(e)' <=> DrivenByPlayer(e)
                            /\ Filled(e, HeldOf(w))' = Filled(e, HeldOf(w))
  BY WorldSame, CameIs DEF HeldOf
<1>. QED  BY <1>1 DEF Standing

\* What the invariant says of the seats stays when no seat changes and no chunk
\* becomes past.
LEMMA PastKept ==
  ASSUME TypeInv, PastInv, world' = world, riders' = riders,
         \A c \in Chunks : Past(c)' <=> Past(c),
         \A w \in Workers, c \in Chunks : Current(w, c) =>
           Current(w, c)' /\ visits'[w] = visits[w]
  PROVE  PastInv'
<1>1. \A e \in Entities : Home(e) \in Chunks
  BY WorldIs
<1>2. \A v \in Entities : riders'[v] \subseteq Filled(v, None)'
  BY WorldSame DEF PastInv
<1>3. world.shoulder \in Entities => riders'[world.shoulder] = {}
  BY DEF PastInv
<1>4. \A v \in Entities : riders'[v] # {} =>
        Past(Home(v))' \/ \E w \in Workers : Current(w, Home(v))' /\ v \notin visits'[w]
  BY <1>1, WorldSame DEF PastInv
<1>5. ASSUME NEW v \in Entities \ {world.shoulder}, Past(Home(v))', ~Passenger(v)'
      PROVE  riders'[v] = {i \in Filled(v, None)' : ~Taken(Links(v)[i])'}
  <2>1. riders[v] = {i \in Filled(v, None) : ~Taken(Links(v)[i])}
    BY <1>1, <1>5, WorldSame DEF PastInv
  <2>2. \A i \in Filled(v, None) : Links(v)[i] \in Entities
    BY CameIs DEF Filled
  <2>3. \A i \in Filled(v, None) : Taken(Links(v)[i])' <=> Taken(Links(v)[i])
    BY <2>2, SeatedSame, WorldSame
  <2>. QED  BY <2>1, <2>3, WorldSame
<1>. QED  BY <1>2, <1>3, <1>4, <1>5 DEF PastInv

LEMMA FileKept ==
  ASSUME TypeInv, FileInv, world' = world, riders' = riders,
         \A c \in Chunks : Past(c)' <=> Past(c),
         \A p \in Chunks \X Entities : Written(p)' <=> Written(p)
  PROVE  FileInv'
<1>1. \A e \in Entities : Home(e) \in Chunks
  BY WorldIs
<1>2. ASSUME NEW p \in Chunks \X Entities, Written(p)'
      PROVE  Home(p[2])' = p[1] /\ Past(p[1])'
  BY <1>2, WorldSame DEF FileInv
<1>3. ASSUME NEW e \in Entities, Past(Home(e))'
      PROVE  Written(<<Home(e), e>>)' <=> e # world'.shoulder /\ ~Seated(e)' /\ ~DrivenByPlayer(e)'
  <2>1. /\ Home(e)' = Home(e) /\ Past(Home(e)) /\ <<Home(e), e>> \in Chunks \X Entities
        /\ Written(<<Home(e), e>>)' <=> Written(<<Home(e), e>>)
    BY <1>1, <1>3, WorldSame
  <2>. QED  BY <2>1, WorldSame, SeatedSame DEF FileInv
<1>. QED  BY <1>2, <1>3 DEF FileInv

\* What a Context still has to tell is told by a later one.
Covers(y, x) ==
  /\ x.leashed \subseteq y.leashed /\ x.knots \subseteq y.knots
  /\ x.root # None => y.root # None
  /\ x.shoulder # None => y.shoulder # None

Covered == \A x \in Pending : \E y \in Pending' : Covers(y, x)

LEMMA RootRightStays ==
  ASSUME TypeInv, world' = world, \A c \in Chunks : Past(c) => Past(c)',
         \A e \in Entities : Past(Home(e)) => (Taken(e)' <=> Taken(e)),
         NEW x \in Contexts, RootRight(x), NEW y, y.root = x.root, y.held = x.held
  PROVE  RootRight(y)'
<1>1. x.root \in Entities \cup {None}
  BY DEF Contexts
<1>. QED  BY <1>1, WorldIs, WorldSame DEF RootRight

LEMMA RootRightKept ==
  ASSUME TypeInv, world' = world, riders' = riders, \A c \in Chunks : Past(c) => Past(c)',
         NEW x \in Contexts, RootRight(x), NEW y, y.root = x.root, y.held = x.held
  PROVE  RootRight(y)'
BY SeatedSame, RootRightStays

LEMMA RootKept ==
  ASSUME TypeInv, TypeInv', RootInv, RootsRight', Covered, world' = world, bin' = bin,
         \A c \in Chunks : Past(c)' <=> Past(c)
  PROVE  RootInv'
<1>. SUFFICES ASSUME NEW e \in Entities, DrivenByPlayer(e)', Past(Home(e))'
              PROVE  bin'.root = e \/ \E y \in Pending' : y.root = e
  BY DEF RootInv
<1>1. DrivenByPlayer(e) /\ Past(Home(e)) /\ e # None
  BY WorldIs, WorldSame, NamesAssumption
<1>2. CASE bin.root = e
  BY <1>2
<1>3. ASSUME NEW x \in Pending, x.root = e PROVE \E y \in Pending' : y.root = e
  <2>1. PICK y \in Pending' : y.root # None
    BY <1>1, <1>3 DEF Covered, Covers
  <2>2. y.root \in Entities
    <3>1. y \in Contexts
      BY <2>1 DEF Pending, TypeInv
    <3>. QED  BY <2>1, <3>1 DEF Contexts
  <2>3. DrivenByPlayer(y.root)'
    BY <2>1 DEF Pending, RootsRight, RootRight
  <2>4. DrivenByPlayer(y.root)
    BY <2>2, <2>3, WorldSame
  <2>. QED  BY <1>1, <2>1, <2>2, <2>4, RidesIs
<1>. QED  BY <1>1, <1>2, <1>3 DEF RootInv

LEMMA ShoulderKept ==
  ASSUME TypeInv, ShoulderInv, ShouldersRight', Covered, world' = world, bin' = bin,
         \A c \in Chunks : Past(c)' <=> Past(c),
         \A w \in Workers, c \in Chunks : Current(w, c)' /\ Shouldered(c) => ctx'[w].shoulder = world.shoulder
  PROVE  ShoulderInv'
<1>. SUFFICES ASSUME NEW c \in Chunks, Past(c)', Shouldered(c)'
              PROVE  bin'.shoulder = world'.shoulder \/ \E y \in Pending' : y.shoulder = world'.shoulder
  BY WorldSame DEF ShoulderInv
<1>1. Past(c) /\ Shouldered(c) /\ world.shoulder # None
  BY WorldSame, NamesAssumption DEF Shouldered
<1>2. ASSUME NEW x \in Pending, x.shoulder = world.shoulder
      PROVE  \E y \in Pending' : y.shoulder = world'.shoulder
  <2>1. PICK y \in Pending' : y.shoulder # None
    BY <1>1, <1>2 DEF Covered, Covers
  <2>2. y.shoulder \in {None, world'.shoulder}
    BY <2>1 DEF Pending, ShouldersRight
  <2>. QED  BY <2>1, <2>2
<1>. QED  BY <1>1, <1>2 DEF ShoulderInv

\* The knots and the leads of the dimension.
LEMMA KnotKept ==
  ASSUME TypeInv, KnotInv, Covered, world' = world, dim' = dim,
         \A c \in Chunks : Past(c)' <=> Past(c),
         \A w \in Workers : Active(w)' =>
           (world.knot \in ctx'[w].knots <=>
              /\ DimOf(world.knot) = dim /\ RegOf(world.knot) = region'[w]
              /\ Turn(world.knot) < at'[w] \/ Current(w, world.knot)')
  PROVE  KnotInv'
<1>1. Past(world.knot)' <=> Past(world.knot)
  BY WorldIs
<1>. QED  BY <1>1 DEF KnotInv, Covered, Covers

LEMMA LeadKept ==
  ASSUME TypeInv, LeadInv, Covered, world' = world, dim' = dim, tie' = tie,
         result' = result,
         \A c \in Chunks : Past(c)' <=> Past(c),
         \A w \in Workers : pc'[w] = "attach" => Came(Chunk(w)') \cap world.leashed \subseteq ctx'[w].leashed
  PROVE  LeadInv'
<1>1. \A e \in Entities : /\ Leads(e)' <=> Leads(e)
                          /\ InTurn(e)' <=> InTurn(e)
                          /\ Past(Home(e))' <=> Past(Home(e))
                          /\ Home(e)' = Home(e)
  BY WorldIs, WorldSame
<1>2. \A w \in Workers : pc'[w] = "attach" => Came(Chunk(w))' \cap world'.leashed \subseteq ctx'[w].leashed
  BY DEF Came
<1>3. ASSUME NEW e \in Entities, NEW x \in Pending, e \in x.leashed PROVE \E y \in Pending' : e \in y.leashed
  BY <1>3 DEF Covered, Covers
<1>. QED  BY <1>1, <1>2, <1>3 DEF LeadInv

\* Contexts that are merged are right about the player's vehicle when both are.
LEMMA MergedRight ==
  ASSUME NEW x \in Contexts, NEW y \in Contexts, RootRight(x), RootRight(y)
  PROVE  RootRight(MergeInto(x, y))
BY MergeIs DEF RootRight

LEMMA MergedCovers ==
  ASSUME NEW x \in Contexts, NEW y \in Contexts
  PROVE  Covers(MergeInto(x, y), x) /\ Covers(MergeInto(x, y), y)
BY MergeIs DEF Covers

\* A worker that goes on with the same Context, as it was.
LEMMA CtxRightKept ==
  ASSUME TypeInv, RootsRight, world' = world,
         \A e \in Entities : Past(Home(e)) => (Taken(e)' <=> Taken(e)),
         \A c \in Chunks : Past(c) => Past(c)',
         NEW w \in Workers, Active(w), ctx'[w] = ctx[w],
         \A c \in Chunks : Current(w, c) => Current(w, c)'
  PROVE  RootRight(ctx[w])' \/ (ctx'[w].root # None /\ Current(w, Home(ctx[w].root))'
                                  /\ DrivenByPlayer(ctx[w].root)')
<1>1. ctx[w] \in Contexts
  BY DEF TypeInv
<1>2. CASE RootRight(ctx[w])
  BY <1>1, <1>2, RootRightStays
<1>3. CASE ctx[w].root # None /\ Current(w, Home(ctx[w].root)) /\ DrivenByPlayer(ctx[w].root)
  <2>1. ctx[w].root \in Entities
    BY <1>1, <1>3 DEF Contexts
  <2>2. DrivenByPlayer(ctx[w].root)'
    BY <1>3, <2>1, WorldSame
  <2>3. Home(ctx[w].root) \in Chunks /\ Home(ctx[w].root)' = Home(ctx[w].root)
    BY <2>1, WorldIs, WorldSame
  <2>. QED  BY <1>3, <2>2, <2>3
<1>. QED  BY <1>2, <1>3 DEF RootsRight


LEMMA StutterKeeps ==
  ASSUME TypeInv, TypeInv', GoodInv, UNCHANGED vars
  PROVE  GoodInv'
<1>. USE DEF vars, dimVars, chunkVars, endVars
<1>1. /\ \A c \in Chunks : Past(c)' <=> Past(c)
      /\ \A w \in Workers : Chunk(w)' = Chunk(w) /\ (Active(w)' <=> Active(w))
      /\ \A w \in Workers, c \in Chunks : Current(w, c)' <=> Current(w, c)
  BY DEF Past, Active, Chunk, RegionChunks, Current
<1>2. world' = world /\ riders' = riders /\ bin' = bin /\ tie' = tie /\ dim' = dim
  OBVIOUS
<1>3. Covered
  <2>1. Pending' = Pending
    BY <1>1 DEF Pending
  <2>. QED  BY <2>1 DEF Covered, Covers
<1>4. CurrentInv'
  <2>. SUFFICES ASSUME NEW w \in Workers, NEW c \in Chunks, Current(w, c)' PROVE Standing(w, c)'
    BY DEF CurrentInv
  <2>1. Standing(w, c) /\ here'[w] = here[w] /\ visits'[w] = visits[w] /\ ctx'[w] = ctx[w]
    BY <1>1 DEF GoodInv, CurrentInv
  <2>2. \A e \in Came(c) : riders'[e] = riders[e] /\ (Seated(e)' <=> Seated(e))
    BY <1>2, SeatedSame, CameIs
  <2>. QED  BY <1>2, <2>1, <2>2, StandingKept
<1>5. PastInv'
  <2>1. visits' = visits
    OBVIOUS
  <2>. QED  BY <1>1, <1>2, <2>1, PastKept DEF GoodInv
<1>6. FileInv'
  <2>1. \A p : Written(p)' <=> Written(p)
    BY <1>1 DEF Written
  <2>. QED  BY <1>1, <1>2, <2>1, FileKept DEF GoodInv
<1>7. RootInv'
  <2>1. RootInv /\ RootsRight
    BY DEF GoodInv, RootInv
  <2>2. RootsRight'
    <3>1. \A x \in Contexts : RootRight(x) => RootRight(x)'
      BY <1>1, <1>2, RootRightKept
    <3>2. \A w \in Workers : ctx[w].root # None => ctx[w].root \in Entities
      BY DEF TypeInv, Contexts
    <3>3. bin \in Contexts /\ total \in Contexts /\ \A w \in Workers : ctx[w] \in Contexts /\ sum[w] \in Contexts
      BY DEF TypeInv
    <3>. QED  BY <1>1, <1>2, <2>1, <3>1, <3>2, <3>3, WorldSame, WorldIs DEF RootsRight
  <2>. QED  BY <1>1, <1>2, <1>3, <2>1, <2>2, RootKept
<1>8. ShoulderInv'
  <2>1. ShoulderInv /\ ShouldersRight'
    BY DEF GoodInv, ShoulderInv, ShouldersRight
  <2>2. \A w \in Workers, c \in Chunks : Current(w, c)' /\ Shouldered(c) => ctx'[w].shoulder = world.shoulder
    BY <1>1, <2>1 DEF ShoulderInv
  <2>. QED  BY <1>1, <1>2, <1>3, <2>1, <2>2, ShoulderKept
<1>9. KnotInv'
  <2>1. KnotInv
    BY DEF GoodInv
  <2>2. \A w \in Workers : Active(w)' =>
           (world.knot \in ctx'[w].knots <=>
              /\ DimOf(world.knot) = dim /\ RegOf(world.knot) = region'[w]
              /\ Turn(world.knot) < at'[w] \/ Current(w, world.knot)')
    BY <1>1, <2>1, WorldIs DEF KnotInv
  <2>. QED  BY <1>1, <1>2, <1>3, <2>1, <2>2, KnotKept
<1>10. LeadInv'
  <2>1. LeadInv
    BY DEF GoodInv
  <2>2. \A w \in Workers : pc'[w] = "attach" => Came(Chunk(w)') \cap world.leashed \subseteq ctx'[w].leashed
    BY <1>1, <2>1 DEF LeadInv
  <2>3. result' = result
    OBVIOUS
  <2>. QED  BY <1>1, <1>2, <1>3, <2>1, <2>2, <2>3, LeadKept
<1>11. EndInv'
  BY WorldSame DEF GoodInv, EndInv, DrainRootVehicle
<1>. QED  BY <1>4, <1>5, <1>6, <1>7, <1>8, <1>9, <1>10, <1>11 DEF GoodInv

LEMMA TakeKeeps ==
  ASSUME TypeInv, TypeInv', OwnInv, PhaseInv, GoodInv, Good, NEW w \in Workers, Take(w)
  PROVE  GoodInv'
<1>. USE DEF dimVars, chunkVars, endVars
<1>1. PICK r \in Unclaimed : claimed' = claimed \cup {r} /\ region' = [region EXCEPT ![w] = r]
  BY DEF Take
<1>2. /\ world' = world /\ riders' = riders /\ bin' = bin /\ tie' = tie /\ dim' = dim
      /\ visits' = visits /\ here' = here /\ file' = file /\ result' = result
      /\ total' = total /\ sum' = sum
      /\ pc[w] = "take" /\ pc' = [pc EXCEPT ![w] = "convert"]
      /\ at' = [at EXCEPT ![w] = 1]
      /\ ctx' = [ctx EXCEPT ![w] = Make(bin)] /\ editor' = [editor EXCEPT ![w] = {}]
  BY DEF Take, Goto, Good
<1>3. /\ \A u \in Workers \ {w} : /\ pc'[u] = pc[u] /\ region'[u] = region[u] /\ at'[u] = at[u]
                                  /\ ctx'[u] = ctx[u] /\ editor'[u] = editor[u]
                                  /\ Active(u)' <=> Active(u)
                                  /\ Chunk(u)' = Chunk(u)
                                  /\ \A c \in Chunks : Current(u, c)' <=> Current(u, c)
      /\ Active(w)' /\ ~Active(w) /\ pc'[w] = "convert" /\ pc[w] = "take"
      /\ ctx'[w] = Make(bin) /\ editor'[w] = {} /\ at'[w] = 1 /\ region'[w] = r
      /\ \A c \in Chunks : ~Current(w, c) /\ ~Current(w, c)'
  BY <1>1, <1>2 DEF TypeInv, Active, Chunk, RegionChunks, Current
<1>4. ASSUME NEW c \in Chunks PROVE Past(c)' <=> Past(c)
  <2>1. r \notin claimed /\ Turn(c) \in Nat \ {0}
    BY PlaceNat DEF Unclaimed
  <2>. QED  BY <1>1, <1>2, <1>3, <2>1 DEF Past
<1>5. \A u \in Workers, c \in Chunks : Current(u, c)' <=> Current(u, c)
  BY <1>3
<1>6. bin \in Contexts
  BY DEF TypeInv
<1>7. Covered
  BY <1>2, <1>3 DEF Covered, Covers, Pending
<1>8. CurrentInv'
  <2>. SUFFICES ASSUME NEW u \in Workers, NEW c \in Chunks, Current(u, c)' PROVE Standing(u, c)'
    BY DEF CurrentInv
  <2>1. Standing(u, c) /\ here'[u] = here[u] /\ visits'[u] = visits[u] /\ ctx'[u] = ctx[u]
    BY <1>2, <1>3 DEF GoodInv, CurrentInv
  <2>2. \A e \in Came(c) : riders'[e] = riders[e] /\ (Seated(e)' <=> Seated(e))
    BY <1>2, SeatedSame, CameIs
  <2>. QED  BY <1>2, <2>1, <2>2, StandingKept
<1>9. PastInv'
  BY <1>2, <1>4, <1>5, PastKept DEF GoodInv
<1>10. FileInv'
  <2>1. \A p : Written(p)' <=> Written(p)
    BY <1>2, <1>3 DEF Written
  <2>. QED  BY <1>2, <1>4, <2>1, FileKept DEF GoodInv
<1>11. RootInv'
  <2>1. RootInv /\ RootsRight
    BY DEF GoodInv, RootInv
  <2>2. \A x \in Contexts : RootRight(x) => RootRight(x)' /\ (x = bin => RootRight(Make(bin))')
    BY <1>2, <1>4, <1>6, RootRightKept, MakeIs
  <2>3. RootRight(bin)' /\ RootRight(total)' /\ \A u \in Workers : RootRight(sum[u])'
    BY <1>2, <2>1, <2>2 DEF RootsRight, TypeInv
  <2>4. ASSUME NEW u \in Workers, Active(u)'
        PROVE  RootRight(ctx[u])' \/ (ctx'[u].root # None /\ Current(u, Home(ctx[u].root))'
                                        /\ DrivenByPlayer(ctx[u].root)')
    <3>1. CASE u = w
      <4>1. RootRight(Make(bin))
        BY <1>6, <2>1, MakeIs DEF RootsRight, RootRight
      <4>2. RootRight(ctx[w])'
        BY <1>2, <1>3, <1>4, <1>6, <4>1, RootRightKept, MakeIs
      <4>. QED  BY <3>1, <4>2
    <3>2. CASE u # w
      BY <1>2, <1>3, <1>4, <2>1, <2>4, <3>2, SeatedSame, CtxRightKept
    <3>. QED  BY <3>1, <3>2
  <2>5. RootsRight'
    BY <2>3, <2>4 DEF RootsRight
  <2>. QED  BY <1>2, <1>4, <1>7, <2>1, <2>5, RootKept
<1>12. ShoulderInv'
  <2>1. ShoulderInv /\ ShouldersRight
    BY DEF GoodInv, ShoulderInv
  <2>2. ShouldersRight'
    BY <1>2, <1>3, <1>6, <2>1, MakeIs DEF ShouldersRight
  <2>3. \A u \in Workers, c \in Chunks : Current(u, c)' /\ Shouldered(c) => ctx'[u].shoulder = world.shoulder
    BY <1>3, <2>1 DEF ShoulderInv
  <2>. QED  BY <1>2, <1>4, <1>7, <2>1, <2>2, <2>3, ShoulderKept
<1>13. KnotInv'
  <2>1. KnotInv /\ world.knot \in Chunks
    BY WorldIs DEF GoodInv
  <2>2. ASSUME NEW u \in Workers, Active(u)'
        PROVE  world.knot \in ctx'[u].knots <=>
              /\ DimOf(world.knot) = dim /\ RegOf(world.knot) = region'[u]
              /\ Turn(world.knot) < at'[u] \/ Current(u, world.knot)'
    <3>1. CASE u = w
      <4>1. ~Current(w, world.knot)' /\ ctx'[w].knots = {} /\ ~(Turn(world.knot) < at'[w])
        BY <1>2, <1>3, <1>6, <2>1, MakeIs, PlaceNat
      <4>. QED  BY <3>1, <4>1
    <3>2. CASE u # w
      <4>1. Current(u, world.knot)' <=> Current(u, world.knot)
        BY <1>2, <1>3, <2>1, <3>2
      <4>. QED  BY <1>3, <2>1, <2>2, <3>2, <4>1 DEF KnotInv
    <3>. QED  BY <3>1, <3>2
  <2>. QED  BY <1>2, <1>4, <1>7, <2>1, <2>2, KnotKept
<1>14. LeadInv'
  <2>1. LeadInv
    BY DEF GoodInv
  <2>2. \A u \in Workers : pc'[u] = "attach" => Came(Chunk(u)') \cap world.leashed \subseteq ctx'[u].leashed
    BY <1>3, <2>1 DEF LeadInv
  <2>. QED  BY <1>2, <1>4, <1>7, <2>1, <2>2, LeadKept
<1>15. EndInv'
  BY <1>2, <1>3, NoResultYet DEF EndInv
<1>. QED  BY <1>8, <1>9, <1>10, <1>11, <1>12, <1>13, <1>14, <1>15 DEF GoodInv

\* Nothing has been seated in a chunk no worker has reached.
LEMMA FreshChunk ==
  ASSUME TypeInv, PastInv, NEW c \in Chunks, ~Past(c), \A u \in Workers : ~Current(u, c)
  PROVE  \A e \in Came(c) : riders[e] = {} /\ ~Seated(e)
<1>1. \A v \in Entities : Home(v) = c => riders[v] = {}
  BY DEF PastInv
<1>2. ASSUME NEW e \in Came(c), NEW v \in Entities, NEW i \in riders[v], Links(v)[i] = e
      PROVE  FALSE
  <2>1. e \in Came(Home(v))
    BY <1>2 DEF PastInv, Filled
  <2>. QED  BY <1>1, <1>2, <2>1, CameIs
<1>. QED  BY <1>1, <1>2, CameIs DEF Seated

\* No other worker is at the chunk a worker is at, and it is not past.
LEMMA AtFresh ==
  ASSUME TypeInv, OwnInv, NEW w \in Workers, pc[w] \in {"convert", "attach"}
  PROVE  ~Past(Chunk(w)) /\ \A u \in Workers \ {w} : ~Current(u, Chunk(w))
<1>1. Active(w)
  BY DEF Active
<1>2. ~Past(Chunk(w))
  <2>1. DimOf(Chunk(w)) = dim /\ dim \in Nat /\ at[w] \in Nat
    BY AtChunk, PlaceNat
  <2>. QED  BY <1>1, <2>1, AtChunk DEF Past
<1>3. ASSUME NEW u \in Workers \ {w}, Current(u, Chunk(w)) PROVE FALSE
  <2>1. Active(u) /\ pc[u] = "attach" /\ Chunk(u) = Chunk(w)
    BY <1>3 DEF Current, Active
  <2>2. region[u] = region[w]
    BY <2>1, AtChunk
  <2>. QED  BY <1>1, <2>1, <2>2 DEF OwnInv
<1>. QED  BY <1>2, <1>3

LEMMA ReadKeeps ==
  ASSUME TypeInv, TypeInv', OwnInv, PhaseInv, GoodInv, Good, NEW w \in Workers, ReadChunk(w)
  PROVE  GoodInv'
<1>. USE DEF dimVars, chunkVars, endVars
<1>. DEFINE c0 == Chunk(w)
            x == Read(ctx[w], c0)
<1>1. /\ world' = world /\ riders' = riders /\ bin' = bin /\ tie' = tie /\ dim' = dim
      /\ file' = file /\ result' = result /\ claimed' = claimed
      /\ total' = total /\ sum' = sum /\ region' = region /\ at' = at /\ editor' = editor
      /\ pc[w] = "convert" /\ pc' = [pc EXCEPT ![w] = "attach"]
      /\ here' = [here EXCEPT ![w] = Came(c0)]
      /\ ctx' = [ctx EXCEPT ![w] = x]
      /\ visits' = [visits EXCEPT ![w] = DOMAIN x.vehicles]
  BY DEF ReadChunk, Goto
<1>2. /\ c0 \in Chunks /\ DimOf(c0) = dim /\ RegOf(c0) = region[w] /\ Turn(c0) = at[w]
      /\ ctx[w] \in Contexts
  BY <1>1, AtChunk DEF TypeInv
<1>3. ~Past(c0) /\ \A u \in Workers : ~Current(u, c0)
  BY <1>1, AtFresh DEF Current
<1>4. /\ \A u \in Workers : (Active(u)' <=> Active(u)) /\ Chunk(u)' = Chunk(u)
      /\ \A c \in Chunks : Past(c)' <=> Past(c)
  BY <1>1 DEF TypeInv, Active, Chunk, RegionChunks, Past
<1>5. /\ \A u \in Workers \ {w} : /\ pc'[u] = pc[u] /\ ctx'[u] = ctx[u] /\ here'[u] = here[u]
                                  /\ visits'[u] = visits[u]
                                  /\ \A c \in Chunks : Current(u, c)' <=> Current(u, c)
      /\ pc'[w] = "attach" /\ ctx'[w] = x /\ here'[w] = Came(c0) /\ visits'[w] = DOMAIN x.vehicles
      /\ \A c \in Chunks : ~Current(w, c) /\ (Current(w, c)' <=> c = c0)
      /\ Active(w)
  BY <1>1, <1>4 DEF TypeInv, Current, Active
<1>6. /\ x \in Contexts
      /\ x.leashed = ctx[w].leashed \cup (Came(c0) \cap world.leashed)
      /\ x.knots = IF world.knot = c0 THEN ctx[w].knots \cup {c0} ELSE ctx[w].knots
      /\ x.shoulder = IF Shouldered(c0) THEN world.shoulder ELSE ctx[w].shoulder
      /\ \A e \in DOMAIN x.vehicles : Links(e) # <<>> \/ e \in DOMAIN ctx[w].vehicles
      /\ \A e \in Came(c0) : Links(e) # <<>> =>
           e \in DOMAIN x.vehicles /\ x.vehicles[e] = DOMAIN Links(e)
      /\ (\E e \in Came(c0) : DrivenByPlayer(e)) =>
           x.root \in Came(c0) /\ DrivenByPlayer(x.root) /\ ~x.held
      /\ (\A e \in Came(c0) : ~DrivenByPlayer(e)) => x.root = ctx[w].root /\ x.held = ctx[w].held
  BY <1>2, ReadIs
<1>. HIDE DEF c0, x
<1>7. \A e \in Came(c0) : e \in Entities /\ e # None /\ Home(e) = c0 /\ riders[e] = {} /\ ~Seated(e)
  BY <1>2, <1>3, CameIs, FreshChunk, NamesAssumption DEF GoodInv
<1>8. Covered
  <2>1. Covers(x, ctx[w])
    BY <1>6, <1>7, NamesAssumption DEF Covers, Shouldered
  <2>2. /\ total \in Pending' /\ x \in Pending'
        /\ \A u \in Workers \ {w} : Active(u) => ctx[u] \in Pending'
        /\ \A u \in Workers : pc[u] # "left" => sum[u] \in Pending'
    BY <1>1, <1>4, <1>5 DEF Pending
  <2>3. \A y : Covers(y, y)
    BY DEF Covers
  <2>. QED  BY <2>1, <2>2, <2>3 DEF Covered, Pending
<1>9. RootRight(ctx[w])
  <2>1. ctx[w].root # None => Home(ctx[w].root) \in Chunks
    BY <1>2, WorldIs DEF Contexts
  <2>. QED  BY <1>5, <2>1 DEF GoodInv, RootInv, RootsRight
<1>10. CurrentInv'
  <2>. SUFFICES ASSUME NEW u \in Workers, NEW c \in Chunks, Current(u, c)' PROVE Standing(u, c)'
    BY DEF CurrentInv
  <2>1. CASE u # w
    <3>1. Standing(u, c) /\ here'[u] = here[u] /\ visits'[u] = visits[u] /\ ctx'[u] = ctx[u]
      BY <1>5, <2>1 DEF GoodInv, CurrentInv
    <3>2. \A e \in Came(c) : riders'[e] = riders[e] /\ (Seated(e)' <=> Seated(e))
      BY <1>1, SeatedSame, CameIs
    <3>. QED  BY <1>1, <3>1, <3>2, StandingKept
  <2>2. CASE u = w
    <3>1. c = c0 /\ Came(c)' = Came(c)
      BY <1>1, <1>5, <2>2, WorldSame
    <3>2. HeldOf(w)' = IF x.held THEN x.root ELSE None
      BY <1>5 DEF HeldOf
    <3>3. ASSUME NEW v \in Came(c0) PROVE HeldOf(w)' # v
      <4>1. CASE \E e \in Came(c0) : DrivenByPlayer(e)
        BY <1>6, <1>7, <3>2, <4>1
      <4>2. CASE \A e \in Came(c0) : ~DrivenByPlayer(e)
        BY <1>3, <1>6, <1>7, <1>9, <3>2, <4>2 DEF RootRight
      <4>. QED  BY <4>1, <4>2
    <3>4. ASSUME NEW v \in Came(c0)
          PROVE  /\ v \in visits'[w] => riders'[v] = {} /\ ctx'[w].vehicles[v] = DOMAIN Links(v)'
                 /\ v \notin visits'[w] => riders'[v] = Filled(v, HeldOf(w))'
                 /\ v \in here'[w] <=> ~Seated(v)' /\ HeldOf(w)' # v
      <4>1. v \in Entities /\ riders'[v] = {} /\ ~Seated(v)' /\ Links(v)' = Links(v)
        BY <1>1, <1>7, WorldSame, SeatedSame
      <4>2. v \in DOMAIN x.vehicles <=> Links(v) # <<>>
        BY <1>6 DEF OwnInv
      <4>3. /\ v \in visits'[w] <=> v \in DOMAIN x.vehicles
            /\ v \in here'[w] /\ ctx'[w].vehicles = x.vehicles
        BY <1>5
      <4>4. Links(v) = <<>> => Filled(v, HeldOf(w))' = {}
        BY <1>1 DEF Filled, Links
      <4>. QED  BY <1>6, <3>3, <4>1, <4>2, <4>3, <4>4
    <3>5. ASSUME NEW v \in Came(c0), DrivenByPlayer(v)'
          PROVE  /\ ctx'[w].root = v
                 /\ ctx'[w].held <=> v \notin visits'[w] /\ InOneChunk(v)'
                 /\ ctx'[w].held => ~Seated(v)'
      <4>1. v \in Entities /\ DrivenByPlayer(v)
        BY <1>1, <1>7, <3>5, WorldSame
      <4>2. x.root \in Came(c0) /\ DrivenByPlayer(x.root) /\ ~x.held
        BY <1>6, <4>1
      <4>3. x.root = v
        BY <1>7, <4>1, <4>2, RidesIs
      <4>4. Links(v) # <<>>
        BY <4>1, RidesIs
      <4>. QED  BY <1>5, <1>6, <4>2, <4>3, <4>4
    <3>6. here'[w] \subseteq Came(c0)
      BY <1>5
    <3>. QED  BY <2>2, <3>1, <3>4, <3>5, <3>6 DEF Standing
  <2>. QED  BY <2>1, <2>2
<1>11. PastInv'
  <2>1. \A u \in Workers, c \in Chunks : Current(u, c) => Current(u, c)' /\ visits'[u] = visits[u]
    BY <1>5
  <2>. QED  BY <1>1, <1>4, <2>1, PastKept DEF GoodInv
<1>12. FileInv'
  <2>1. \A p : Written(p)' <=> Written(p)
    BY <1>1, <1>4 DEF Written
  <2>. QED  BY <1>1, <1>4, <2>1, FileKept DEF GoodInv
<1>13. RootInv'
  <2>1. RootInv /\ RootsRight
    BY DEF GoodInv, RootInv
  <2>2. \A y \in Contexts : RootRight(y) => RootRight(y)'
    BY <1>1, <1>4, RootRightKept
  <2>3. RootRight(bin)' /\ RootRight(total)' /\ \A u \in Workers : RootRight(sum[u])'
    BY <1>1, <2>1, <2>2 DEF RootsRight, TypeInv
  <2>4. ASSUME NEW u \in Workers, Active(u)'
        PROVE  RootRight(ctx[u])' \/ (ctx'[u].root # None /\ Current(u, Home(ctx[u].root))'
                                        /\ DrivenByPlayer(ctx[u].root)')
    <3>1. CASE u = w /\ \E e \in Came(c0) : DrivenByPlayer(e)
      <4>1. x.root \in Came(c0) /\ DrivenByPlayer(x.root)
        BY <1>6, <3>1
      <4>2. \A v \in Came(c0) : DrivenByPlayer(v) => Home(v)' = c0 /\ DrivenByPlayer(v)'
        BY <1>1, <1>7, WorldSame
      <4>3. ctx'[w].root \in Came(c0) /\ DrivenByPlayer(ctx'[w].root)
        BY <1>5, <4>1
      <4>4. Home(ctx[w].root)' = c0 /\ DrivenByPlayer(ctx[w].root)'
        BY <4>2, <4>3
      <4>. QED  BY <1>2, <1>5, <1>7, <3>1, <4>3, <4>4
    <3>2. CASE u = w /\ \A e \in Came(c0) : ~DrivenByPlayer(e)
      <4>1. ctx'[w].root = ctx[w].root /\ ctx'[w].held = ctx[w].held
        BY <1>5, <1>6, <3>2
      <4>2. RootRight(ctx[w])'
        BY <1>1, <1>2, <1>4, <1>9, <4>1, RootRightKept
      <4>. QED  BY <3>2, <4>2
    <3>3. CASE u # w
      BY <1>1, <1>4, <1>5, <2>1, <2>4, <3>3, SeatedSame, CtxRightKept
    <3>. QED  BY <3>1, <3>2, <3>3
  <2>5. RootsRight'
    BY <2>3, <2>4 DEF RootsRight
  <2>. QED  BY <1>1, <1>4, <1>8, <2>1, <2>5, RootKept
<1>14. ShoulderInv'
  <2>1. ShoulderInv /\ ShouldersRight
    BY DEF GoodInv, ShoulderInv
  <2>2. x.shoulder \in {None, world.shoulder}
    BY <1>6, <2>1 DEF ShouldersRight
  <2>3. ShouldersRight'
    BY <1>1, <1>5, <2>1, <2>2 DEF ShouldersRight
  <2>4. \A u \in Workers, c \in Chunks : Current(u, c)' /\ Shouldered(c) => ctx'[u].shoulder = world.shoulder
    BY <1>5, <1>6, <2>1 DEF ShoulderInv
  <2>. QED  BY <1>1, <1>4, <1>8, <2>1, <2>3, <2>4, ShoulderKept
<1>15. KnotInv'
  <2>1. KnotInv /\ world.knot \in Chunks
    BY WorldIs DEF GoodInv
  <2>2. ASSUME NEW u \in Workers, Active(u)'
        PROVE  world.knot \in ctx'[u].knots <=>
              /\ DimOf(world.knot) = dim /\ RegOf(world.knot) = region'[u]
              /\ Turn(world.knot) < at'[u] \/ Current(u, world.knot)'
    <3>1. CASE u = w
      <4>1. Current(w, world.knot)' <=> world.knot = c0
        BY <1>1, <1>5, <2>1
      <4>2. world.knot \in ctx[w].knots <=> /\ DimOf(world.knot) = dim /\ RegOf(world.knot) = region[w]
                                              /\ Turn(world.knot) < at[w]
        BY <1>5, <2>1 DEF KnotInv
      <4>3. world.knot \in ctx'[w].knots <=> world.knot \in ctx[w].knots \/ world.knot = c0
        BY <1>5, <1>6
      <4>. QED  BY <1>1, <1>2, <3>1, <4>1, <4>2, <4>3
    <3>2. CASE u # w
      <4>1. Current(u, world.knot)' <=> Current(u, world.knot)
        BY <1>1, <1>5, <2>1, <3>2
      <4>. QED  BY <1>1, <1>4, <1>5, <2>1, <2>2, <3>2, <4>1 DEF KnotInv
    <3>. QED  BY <3>1, <3>2
  <2>. QED  BY <1>1, <1>4, <1>8, <2>1, <2>2, KnotKept
<1>16. LeadInv'
  <2>1. LeadInv
    BY DEF GoodInv
  <2>2. \A u \in Workers : pc'[u] = "attach" => Came(Chunk(u)') \cap world.leashed \subseteq ctx'[u].leashed
    BY <1>4, <1>5, <1>6, <2>1 DEF LeadInv, c0
  <2>. QED  BY <1>1, <1>4, <1>8, <2>1, <2>2, LeadKept
<1>17. EndInv'
  BY <1>1, NoResultYet DEF EndInv
<1>. QED  BY <1>10, <1>11, <1>12, <1>13, <1>14, <1>15, <1>16, <1>17 DEF GoodInv

\* One turn of the loop over the vehicles, in terms of the world.
LEMMA SeatIs ==
  ASSUME TypeInv, OwnInv, CurrentInv, PastInv, RootInv, NEW w \in Workers, NEW v \in Entities, SeatPassengers(w, v)
  PROVE  /\ v \in Came(Chunk(w)) /\ riders[v] = {} /\ ~Seated(v) /\ HeldOf(w) # v
         /\ ctx[w].root = v <=> DrivenByPlayer(v)
         /\ \A i \in DOMAIN Links(v) :
              Links(v)[i] \in here[w] <=> Links(v)[i] \in Came(Chunk(w)) /\ HeldOf(w) # Links(v)[i]
         /\ Boards(w, v) = Filled(v, HeldOf(w))
         /\ Waits(w, v) = {} /\ ctx[w].root = v <=> DrivenByPlayer(v) /\ InOneChunk(v)
         /\ DrivenByPlayer(v) => HeldOf(w) = None
<1>. DEFINE c0 == Chunk(w)
<1>1. /\ pc[w] = "attach" /\ v \in visits[w] /\ v \in here[w]
      /\ c0 \in Chunks /\ Current(w, c0) /\ ctx[w] \in Contexts
  BY AtChunk DEF SeatPassengers, Current, TypeInv
<1>2. Standing(w, c0)
  BY <1>1 DEF CurrentInv
<1>. HIDE DEF c0
<1>3. /\ v \in Came(c0) /\ riders[v] = {} /\ ctx[w].vehicles[v] = DOMAIN Links(v)
      /\ ~Seated(v) /\ HeldOf(w) # v /\ Home(v) = c0 /\ v # world.shoulder
  BY <1>1, <1>2, CameIs DEF Standing
<1>4. ctx[w].root = v <=> DrivenByPlayer(v)
  <2>1. CASE DrivenByPlayer(v)
    BY <1>2, <1>3, <2>1 DEF Standing
  <2>2. ASSUME ctx[w].root = v PROVE DrivenByPlayer(v)
    <3>1. ~Past(Home(v)) /\ Active(w) /\ v # None
      BY <1>1, <1>3, AtFresh, NamesAssumption DEF Active, c0
    <3>. QED  BY <2>2, <3>1 DEF RootInv, RootsRight, RootRight
  <2>. QED  BY <2>1, <2>2
<1>5. ASSUME NEW i \in DOMAIN Links(v)
      PROVE  Links(v)[i] \in here[w] <=> Links(v)[i] \in Came(c0) /\ HeldOf(w) # Links(v)[i]
  <2>1. ~Seated(Links(v)[i])
    <3>1. \A u \in Entities : riders[u] \subseteq DOMAIN Links(u)
      BY DEF PastInv, Filled
    <3>. QED  BY <1>3, <3>1, WorldIs DEF Seated
  <2>. QED  BY <1>2, <2>1 DEF Standing
<1>6. Boards(w, v) = Filled(v, HeldOf(w))
  BY <1>3, <1>5 DEF Boards, Filled
<1>7. DrivenByPlayer(v) => HeldOf(w) = None
  BY <1>3, <1>4 DEF HeldOf
<1>8. Waits(w, v) = {} /\ ctx[w].root = v <=> DrivenByPlayer(v) /\ InOneChunk(v)
  <2>1. Waits(w, v) = {} <=> \A i \in DOMAIN Links(v) : Links(v)[i] = Player \/ Links(v)[i] \in here[w]
    BY <1>3 DEF Waits
  <2>2. DrivenByPlayer(v) => (Waits(w, v) = {} <=> \A i \in DOMAIN Links(v) :
                                Links(v)[i] # Player => Links(v)[i] \in Came(c0))
    BY <1>5, <1>7, <2>1, CameIs, NamesAssumption
  <2>3. InOneChunk(v) <=> \A i \in DOMAIN Links(v) : Links(v)[i] # Player => Links(v)[i] \in Came(c0)
    BY <1>3, RidesIs
  <2>. QED  BY <1>4, <2>2, <2>3
<1>. QED  BY <1>3, <1>4, <1>5, <1>6, <1>7, <1>8 DEF c0

LEMMA SeatKeeps ==
  ASSUME TypeInv, TypeInv', OwnInv, PhaseInv, GoodInv, Good,
         NEW w \in Workers, NEW v \in Entities, SeatPassengers(w, v)
  PROVE  GoodInv'
<1>. USE DEF dimVars, chunkVars, endVars
<1>. DEFINE c0 == Chunk(w)
            mine == DrivenByPlayer(v) /\ InOneChunk(v)
<1>1. /\ v \in Came(c0) /\ riders[v] = {} /\ ~Seated(v) /\ HeldOf(w) # v
      /\ ctx[w].root = v <=> DrivenByPlayer(v)
      /\ \A i \in DOMAIN Links(v) :
           Links(v)[i] \in here[w] <=> Links(v)[i] \in Came(c0) /\ HeldOf(w) # Links(v)[i]
      /\ Boards(w, v) = Filled(v, HeldOf(w))
      /\ Waits(w, v) = {} /\ ctx[w].root = v <=> mine
      /\ DrivenByPlayer(v) => HeldOf(w) = None
  BY SeatIs DEF GoodInv
<1>2. /\ world' = world /\ bin' = bin /\ tie' = tie /\ dim' = dim
      /\ file' = file /\ result' = result /\ claimed' = claimed
      /\ total' = total /\ sum' = sum /\ region' = region /\ at' = at /\ editor' = editor
      /\ pc' = pc /\ pc[w] = "attach" /\ v \in visits[w] /\ v \in here[w]
      /\ visits' = [visits EXCEPT ![w] = @ \ {v}]
      /\ riders' = [riders EXCEPT ![v] = @ \cup Boards(w, v)]
  BY DEF SeatPassengers
<1>3. /\ ctx[w] \in Contexts /\ \A u \in Workers \ {w} : ctx'[u] = ctx[u] /\ here'[u] = here[u]
      /\ here'[w] = here[w] \ (Carries(v) \cup (IF mine THEN {v} ELSE {}))
      /\ ctx'[w] = [ctx[w] EXCEPT !.vehicles = IF Waits(w, v) = {} THEN Restrict(@, DOMAIN @ \ {v})
                                               ELSE [@ EXCEPT ![v] = Waits(w, v)],
                                  !.held = @ \/ mine]
  BY <1>1 DEF SeatPassengers, TypeInv
<1>4. /\ ctx'[w].root = ctx[w].root /\ ctx'[w].leashed = ctx[w].leashed
      /\ ctx'[w].knots = ctx[w].knots /\ ctx'[w].shoulder = ctx[w].shoulder
      /\ ctx'[w].held <=> ctx[w].held \/ mine
      /\ \A u \in DOMAIN ctx[w].vehicles \ {v} : ctx'[w].vehicles[u] = ctx[w].vehicles[u]
  <2>1. PICK S \in SUBSET Entities : ctx[w].vehicles \in [S -> SUBSET Nat]
    BY <1>3 DEF Contexts
  <2>2. /\ ctx'[w].root = ctx[w].root /\ ctx'[w].leashed = ctx[w].leashed
        /\ ctx'[w].knots = ctx[w].knots /\ ctx'[w].shoulder = ctx[w].shoulder
    BY <1>3 DEF Contexts
  <2>3. ctx'[w].held <=> ctx[w].held \/ mine
    BY <1>3 DEF Contexts
  <2>4. ctx'[w].vehicles = IF Waits(w, v) = {} THEN Restrict(ctx[w].vehicles, DOMAIN ctx[w].vehicles \ {v})
                           ELSE [ctx[w].vehicles EXCEPT ![v] = Waits(w, v)]
    BY <1>3 DEF Contexts
  <2>5. \A u \in DOMAIN ctx[w].vehicles \ {v} : ctx'[w].vehicles[u] = ctx[w].vehicles[u]
    BY <2>1, <2>4 DEF Restrict
  <2>. QED  BY <2>2, <2>3, <2>5
<1>5. /\ c0 \in Chunks /\ ~Past(c0) /\ Current(w, c0) /\ Active(w)
      /\ \A u \in Workers \ {w} : ~Current(u, c0)
  BY <1>2, AtChunk, AtFresh DEF Current, Active
<1>6. /\ \A u \in Workers : (Active(u)' <=> Active(u)) /\ Chunk(u)' = Chunk(u)
      /\ \A u \in Workers, c \in Chunks : Current(u, c)' <=> Current(u, c)
      /\ \A c \in Chunks : Past(c)' <=> Past(c)
  BY <1>2 DEF Active, Chunk, RegionChunks, Past, Current
<1>7. Standing(w, c0)
  BY <1>5 DEF GoodInv, CurrentInv
<1>8. /\ riders'[v] = Filled(v, HeldOf(w)) /\ \A u \in Entities \ {v} : riders'[u] = riders[u]
      /\ visits'[w] = visits[w] \ {v} /\ \A u \in Workers \ {w} : visits'[u] = visits[u]
  BY <1>1, <1>2 DEF TypeInv
<1>9. \A e : e \in Came(c0) <=> e \in Entities /\ Home(e) = c0 /\ e # world.shoulder
  BY CameIs
<1>. HIDE DEF c0, mine
<1>10. \A i \in DOMAIN Links(v) :
         i \in Filled(v, HeldOf(w)) <=> Links(v)[i] \in here[w]
  BY <1>1, <1>9 DEF Filled
<1>11. ASSUME NEW e \in Entities
       PROVE  Seated(e)' <=> Seated(e) \/ (e \in Carries(v) /\ e \in here[w])
  <2>1. Seated(e)' <=> \E u \in Entities : \E i \in riders'[u] : Links(u)[i] = e
    BY <1>2 DEF Seated, Links
  <2>2. (\E i \in riders'[v] : Links(v)[i] = e) <=> e \in Carries(v) /\ e \in here[w]
    BY <1>8, <1>10 DEF Carries, Range, Filled
  <2>3. Seated(e) <=> \E u \in Entities \ {v} : \E i \in riders[u] : Links(u)[i] = e
    BY <1>1 DEF Seated
  <2>. QED  BY <1>8, <2>1, <2>2, <2>3
<1>12. ASSUME NEW e \in Entities, e \notin Came(c0)
       PROVE  (Seated(e)' <=> Seated(e)) /\ (Taken(e)' <=> Taken(e))
  <2>1. e \notin here[w]
    BY <1>7, <1>12 DEF Standing
  <2>. QED  BY <1>2, <1>11, <2>1, WorldSame DEF Taken
<1>13. \A e \in Entities : Past(Home(e)) => (Taken(e)' <=> Taken(e)) /\ (Seated(e)' <=> Seated(e))
  BY <1>5, <1>9, <1>12
<1>14. mine => HeldOf(w) = None /\ ~ctx[w].held /\ ctx[w].root = v /\ DrivenByPlayer(v) /\ InOneChunk(v)
  BY <1>1, <1>9, NamesAssumption DEF mine, HeldOf
<1>15. HeldOf(w)' = IF mine THEN v ELSE HeldOf(w)
  BY <1>4, <1>14 DEF HeldOf
<1>16. Covered
  <2>1. Covers(ctx'[w], ctx[w]) /\ \A y : Covers(y, y)
    BY <1>4 DEF Covers
  <2>2. /\ total \in Pending' /\ (Active(w) => ctx'[w] \in Pending')
        /\ \A u \in Workers \ {w} : Active(u) => ctx[u] \in Pending'
        /\ \A u \in Workers : pc[u] # "left" => sum[u] \in Pending'
    BY <1>2, <1>3, <1>6 DEF Pending
  <2>. QED  BY <2>1, <2>2 DEF Covered, Pending
<1>17. CurrentInv'
  <2>. SUFFICES ASSUME NEW u \in Workers, NEW c \in Chunks, Current(u, c)' PROVE Standing(u, c)'
    BY DEF CurrentInv
  <2>1. CASE u # w
    <3>1. Standing(u, c) /\ here'[u] = here[u] /\ visits'[u] = visits[u] /\ ctx'[u] = ctx[u]
      BY <1>3, <1>6, <1>8, <2>1 DEF GoodInv, CurrentInv
    <3>2. c # c0
      BY <1>5, <1>6, <2>1
    <3>3. \A e \in Came(c) : riders'[e] = riders[e] /\ (Seated(e)' <=> Seated(e))
      BY <1>1, <1>8, <1>9, <1>12, <3>2, CameIs
    <3>. QED  BY <1>2, <3>1, <3>3, StandingKept
  <2>2. CASE u = w
    <3>1. c = c0 /\ Came(c)' = Came(c)
      BY <1>2, <1>6, <2>2, WorldSame DEF Current, c0
    <3>2. here'[w] \subseteq Came(c0)
      BY <1>3, <1>7 DEF Standing
    <3>3. ASSUME NEW e \in Came(c0)
          PROVE  e \in visits'[w] => riders'[e] = {} /\ ctx'[w].vehicles[e] = DOMAIN Links(e)'
      <4>1. e \in visits[w] \ {v} => e \in DOMAIN ctx[w].vehicles
        BY <1>2 DEF OwnInv
      <4>2. e \in Entities /\ Links(e)' = Links(e)
        BY <1>2, <1>9, WorldSame
      <4>. QED  BY <1>4, <1>7, <1>8, <4>1, <4>2 DEF Standing
    <3>4. ASSUME NEW e \in Came(c0), e \notin visits'[w] PROVE riders'[e] = Filled(e, HeldOf(w))'
      <4>1. e \in Entities /\ \A x : Filled(e, x)' = Filled(e, x)
        BY <1>2, <1>9, WorldSame
      <4>2. CASE e = v
        <5>1. Filled(v, None) = Filled(v, v)
          <6>1. \A i \in DOMAIN Links(v) : Links(v)[i] # v
            BY WorldIs
          <6>2. \A i \in DOMAIN Links(v) : Links(v)[i] \in Came(Home(v)) => Links(v)[i] # None
            BY CameIs, NamesAssumption
          <6>. QED  BY <6>1, <6>2 DEF Filled
        <5>2. mine => Filled(v, HeldOf(w)) = Filled(v, None)
          BY <1>14
        <5>3. Filled(v, HeldOf(w)) = Filled(v, IF mine THEN v ELSE HeldOf(w))
          BY <5>1, <5>2
        <5>. QED  BY <1>8, <1>15, <4>1, <4>2, <5>3
      <4>3. CASE e # v
        <5>1. riders'[e] = Filled(e, HeldOf(w))
          BY <1>7, <1>8, <3>4, <4>1, <4>3 DEF Standing
        <5>2. mine => Filled(e, HeldOf(w)) = Filled(e, v)
          <6>1. \A i \in riders[e] : Links(e)[i] # v
            BY <1>1, <4>1 DEF Seated
          <6>2. riders[e] = riders'[e]
            BY <1>8, <4>1, <4>3
          <6>3. Filled(e, v) \subseteq Filled(e, None) /\ \A i \in Filled(e, None) : Links(e)[i] # v => i \in Filled(e, v)
            BY <1>9, CameIs, NamesAssumption DEF Filled
          <6>. QED  BY <1>14, <5>1, <6>1, <6>2, <6>3
        <5>. QED  BY <1>15, <4>1, <5>1, <5>2
      <4>. QED  BY <4>2, <4>3
    <3>5. ASSUME NEW e \in Came(c0) PROVE e \in here'[w] <=> ~Seated(e)' /\ HeldOf(w)' # e
      <4>1. e \in Entities /\ e # None
        BY <1>9, NamesAssumption
      <4>2. e \in here[w] <=> ~Seated(e) /\ HeldOf(w) # e
        BY <1>7 DEF Standing
      <4>3. CASE mine
        BY <1>3, <1>11, <1>14, <1>15, <4>1, <4>2, <4>3
      <4>4. CASE ~mine
        BY <1>3, <1>11, <1>15, <4>1, <4>2, <4>4
      <4>. QED  BY <4>3, <4>4
    <3>6. ASSUME NEW e \in Came(c0), DrivenByPlayer(e)'
          PROVE  /\ ctx'[w].root = e
                 /\ ctx'[w].held <=> e \notin visits'[w] /\ InOneChunk(e)'
                 /\ ctx'[w].held => ~Seated(e)'
      <4>1. e \in Entities /\ DrivenByPlayer(e) /\ (InOneChunk(e)' <=> InOneChunk(e)) /\ e # None
        BY <1>2, <1>9, <3>6, WorldSame, NamesAssumption
      <4>2. /\ ctx[w].root = e
            /\ ctx[w].held <=> e \notin visits[w] /\ InOneChunk(e)
            /\ ctx[w].held => ~Seated(e)
            /\ e \in here[w] => HeldOf(w) # e
        BY <1>7, <4>1 DEF Standing
      <4>3. CASE e = v
        <5>1. ~ctx[w].held /\ (mine <=> InOneChunk(e))
          BY <1>2, <4>1, <4>2, <4>3 DEF mine
        <5>2. ~Seated(e)'
          <6>1. v \notin Carries(v)
            BY WorldIs DEF Carries, Range
          <6>. QED  BY <1>1, <1>11, <4>3, <6>1
        <5>. QED  BY <1>4, <1>8, <4>1, <4>2, <4>3, <5>1, <5>2
      <4>4. CASE e # v
        <5>1. ~mine
          BY <4>1, <4>4, RidesIs DEF mine
        <5>2. ctx[w].held => e \notin here[w]
          BY <4>2 DEF HeldOf
        <5>. QED  BY <1>4, <1>8, <1>11, <4>1, <4>2, <4>4, <5>1, <5>2
      <4>. QED  BY <4>3, <4>4
    <3>. QED  BY <2>2, <3>1, <3>2, <3>3, <3>4, <3>5, <3>6 DEF Standing
  <2>. QED  BY <2>1, <2>2
<1>18. PastInv'
  <2>1. PastInv /\ \A e \in Entities : Home(e) \in Chunks
    BY WorldIs DEF GoodInv
  <2>2. ASSUME NEW u \in Entities PROVE riders'[u] \subseteq Filled(u, None)'
    <3>1. Filled(v, HeldOf(w)) \subseteq Filled(v, None)
      BY <1>9, CameIs, NamesAssumption DEF Filled
    <3>. QED  BY <1>2, <1>8, <2>1, <3>1, WorldSame DEF PastInv
  <2>3. world'.shoulder \in Entities => riders'[world'.shoulder] = {}
    BY <1>1, <1>2, <1>8, <1>9, <2>1 DEF PastInv
  <2>4. ASSUME NEW u \in Entities, riders'[u] # {}
        PROVE  Past(Home(u))' \/ \E x \in Workers : Current(x, Home(u))' /\ u \notin visits'[x]
    <3>1. Home(u)' = Home(u) /\ Home(u) \in Chunks
      BY <1>2, <2>1, WorldSame
    <3>2. CASE u = v
      BY <1>1, <1>5, <1>6, <1>8, <1>9, <3>1, <3>2
    <3>3. CASE u # v
      BY <1>6, <1>8, <2>1, <2>4, <3>1, <3>3 DEF PastInv
    <3>. QED  BY <3>2, <3>3
  <2>5. ASSUME NEW u \in Entities \ {world'.shoulder}, Past(Home(u))', ~Passenger(u)'
        PROVE  riders'[u] = {i \in Filled(u, None)' : ~Taken(Links(u)[i])'}
    <3>1. /\ u # world.shoulder /\ Past(Home(u)) /\ ~Passenger(u) /\ Home(u) # c0
          /\ Filled(u, None)' = Filled(u, None) /\ Links(u)' = Links(u)
      BY <1>2, <1>5, <1>6, <2>1, <2>5, WorldSame
    <3>2. riders'[u] = {i \in Filled(u, None) : ~Taken(Links(u)[i])}
      BY <1>8, <1>9, <1>1, <2>1, <3>1 DEF PastInv
    <3>3. \A i \in Filled(u, None) : Links(u)[i] \in Entities /\ Links(u)[i] \notin Came(c0)
      BY <1>9, <3>1, CameIs DEF Filled
    <3>4. \A i \in Filled(u, None) : Taken(Links(u)[i])' <=> Taken(Links(u)[i])
      BY <1>12, <3>1, <3>3
    <3>. QED  BY <3>1, <3>2, <3>4
  <2>. QED  BY <2>2, <2>3, <2>4, <2>5 DEF PastInv
<1>19. FileInv'
  <2>1. /\ \A p : Written(p)' <=> Written(p)
        /\ \A e \in Entities : Home(e) \in Chunks /\ Home(e)' = Home(e)
    BY <1>2, <1>6, WorldIs, WorldSame DEF Written
  <2>2. \A p \in Chunks \X Entities : Written(p)' => Home(p[2])' = p[1] /\ Past(p[1])'
    BY <1>6, <2>1 DEF GoodInv, FileInv
  <2>3. ASSUME NEW e \in Entities, Past(Home(e))'
        PROVE  Written(<<Home(e), e>>)' <=> e # world'.shoulder /\ ~Seated(e)' /\ ~DrivenByPlayer(e)'
    <3>1. Past(Home(e)) /\ (Written(<<Home(e), e>>)' <=> Written(<<Home(e), e>>))
      BY <1>6, <2>1, <2>3
    <3>. QED  BY <1>2, <1>13, <3>1, WorldSame DEF GoodInv, FileInv
  <2>. QED  BY <2>2, <2>3 DEF FileInv
<1>20. RootInv'
  <2>1. RootInv /\ RootsRight
    BY DEF GoodInv, RootInv
  <2>2. \A y \in Contexts : RootRight(y) => RootRight(y)'
    BY <1>2, <1>6, <1>13, RootRightStays
  <2>3. RootRight(bin)' /\ RootRight(total)' /\ \A u \in Workers : RootRight(sum[u])'
    BY <1>2, <2>1, <2>2 DEF RootsRight, TypeInv
  <2>4. ASSUME NEW u \in Workers, Active(u)'
        PROVE  RootRight(ctx[u])' \/ (ctx'[u].root # None /\ Current(u, Home(ctx[u].root))'
                                        /\ DrivenByPlayer(ctx[u].root)')
    <3>1. CASE u = w /\ RootRight(ctx[w])
      <4>1. ~mine
        BY <1>1, <1>5, <1>9, <1>14, <3>1, NamesAssumption DEF RootRight
      <4>3. ctx'[w].held = ctx[w].held /\ ctx'[w].root = ctx[w].root
        BY <1>3, <1>4, <4>1 DEF TypeInv, Contexts
      <4>2. RootRight(ctx[w])'
        BY <1>2, <1>3, <1>6, <1>13, <3>1, <4>3, RootRightStays
      <4>. QED  BY <3>1, <4>2
    <3>2. CASE u = w /\ ~RootRight(ctx[w])
      <4>1. ctx[w].root # None /\ Current(w, Home(ctx[w].root)) /\ DrivenByPlayer(ctx[w].root)
        BY <1>5, <2>1, <3>2 DEF RootsRight
      <4>2. ctx'[w].root = ctx[w].root /\ ctx[w].root \in Entities
        BY <1>3, <1>4, <4>1 DEF Contexts
      <4>3. Home(ctx[w].root) \in Chunks /\ Home(ctx[w].root)' = Home(ctx[w].root)
        BY <1>2, <4>2, WorldIs, WorldSame
      <4>4. DrivenByPlayer(ctx[w].root)'
        BY <1>2, <4>1, <4>2, WorldSame
      <4>. QED  BY <1>6, <3>2, <4>1, <4>2, <4>3, <4>4
    <3>3. CASE u # w
      BY <1>2, <1>3, <1>6, <1>13, <2>1, <2>4, <3>3, CtxRightKept
    <3>. QED  BY <3>1, <3>2, <3>3
  <2>5. RootsRight'
    BY <2>3, <2>4 DEF RootsRight
  <2>. QED  BY <1>2, <1>6, <1>16, <2>1, <2>5, RootKept
<1>21. ShoulderInv'
  <2>1. ShoulderInv /\ ShouldersRight
    BY DEF GoodInv, ShoulderInv
  <2>2. \A u \in Workers : ctx'[u].shoulder = ctx[u].shoulder
    BY <1>3, <1>4
  <2>3. ShouldersRight'
    BY <1>2, <2>1, <2>2 DEF ShouldersRight
  <2>4. \A u \in Workers, c \in Chunks : Current(u, c)' /\ Shouldered(c) => ctx'[u].shoulder = world.shoulder
    BY <1>6, <2>1, <2>2 DEF ShoulderInv
  <2>. QED  BY <1>2, <1>6, <1>16, <2>1, <2>3, <2>4, ShoulderKept
<1>22. KnotInv'
  <2>1. KnotInv /\ world.knot \in Chunks /\ \A u \in Workers : ctx'[u].knots = ctx[u].knots
    BY <1>3, <1>4, WorldIs DEF GoodInv
  <2>2. \A u \in Workers : Current(u, world.knot)' <=> Current(u, world.knot)
    BY <1>2, <1>6, <2>1
  <2>3. \A u \in Workers : Active(u)' =>
          (world.knot \in ctx'[u].knots <=>
              /\ DimOf(world.knot) = dim /\ RegOf(world.knot) = region'[u]
              /\ Turn(world.knot) < at'[u] \/ Current(u, world.knot)')
    BY <1>2, <1>6, <2>1, <2>2 DEF KnotInv
  <2>. QED  BY <1>2, <1>6, <1>16, <2>1, <2>3, KnotKept
<1>23. LeadInv'
  <2>1. LeadInv /\ \A u \in Workers : ctx'[u].leashed = ctx[u].leashed
    BY <1>3, <1>4 DEF GoodInv
  <2>2. \A u \in Workers : pc'[u] = "attach" => Came(Chunk(u)') \cap world.leashed \subseteq ctx'[u].leashed
    BY <1>2, <1>6, <2>1 DEF LeadInv
  <2>. QED  BY <1>2, <1>6, <1>16, <2>1, <2>2, LeadKept
<1>24. EndInv'
  BY <1>2, NoResultYet DEF EndInv
<1>. QED  BY <1>17, <1>18, <1>19, <1>20, <1>21, <1>22, <1>23, <1>24 DEF GoodInv

LEMMA SeatedIs ==
  ASSUME TypeInv, PastInv, NEW e \in Entities, Seated(e)
  PROVE  Passenger(e)
<1>1. PICK v \in Entities : \E i \in riders[v] : Links(v)[i] = e
  BY DEF Seated
<1>2. PICK i \in riders[v] : Links(v)[i] = e
  BY <1>1
<1>3. i \in DOMAIN Links(v) /\ e \in Came(Home(v)) /\ v # world.shoulder
  BY <1>2 DEF PastInv, Filled
<1>. QED  BY <1>2, <1>3, RidesIs

\* When no vehicle of the chunk is left to visit.
LEMMA TurnsOver ==
  ASSUME TypeInv, OwnInv, CurrentInv, PastInv, RootInv, NEW w \in Workers, pc[w] = "attach",
         visits[w] \cap here[w] = {}
  PROVE  \A v \in Came(Chunk(w)) :
           /\ HeldOf(w) = v <=> Taken(v)
           /\ ctx[w].root = v <=> DrivenByPlayer(v)
           /\ DrivenByPlayer(v) => (ctx[w].held <=> Taken(v))
           /\ v \in here[w] <=> ~Seated(v) /\ ~Taken(v)
           /\ ~Passenger(v) => riders[v] = {i \in Filled(v, None) : ~Taken(Links(v)[i])}
<1>. DEFINE c0 == Chunk(w)
<1>1. c0 \in Chunks /\ Current(w, c0) /\ Active(w) /\ ~Past(c0)
  BY AtChunk, AtFresh DEF Current, Active
<1>2. Standing(w, c0)
  BY <1>1 DEF CurrentInv
<1>. HIDE DEF c0
<1>3. ASSUME NEW v \in Came(c0)
      PROVE  /\ v \in Entities /\ v # None /\ Home(v) = c0
             /\ ctx[w].root = v <=> DrivenByPlayer(v)
             /\ DrivenByPlayer(v) => (ctx[w].held <=> Taken(v))
             /\ HeldOf(w) = v <=> Taken(v)
             /\ v \in here[w] <=> ~Seated(v) /\ ~Taken(v)
             /\ v \in visits[w] => Seated(v)
  <2>1. v \in Entities /\ v # None /\ Home(v) = c0
    BY CameIs, NamesAssumption
  <2>2. ctx[w].root = v <=> DrivenByPlayer(v)
    <3>1. DrivenByPlayer(v) => ctx[w].root = v
      BY <1>2 DEF Standing
    <3>2. ctx[w].root = v => DrivenByPlayer(v)
      BY <1>1, <2>1 DEF RootInv, RootsRight, RootRight
    <3>. QED  BY <3>1, <3>2
  <2>3. v \in here[w] <=> ~Seated(v) /\ HeldOf(w) # v
    BY <1>2 DEF Standing
  <2>4. DrivenByPlayer(v) => /\ ctx[w].held <=> v \notin visits[w] /\ InOneChunk(v)
                             /\ ctx[w].held => ~Seated(v)
    BY <1>2 DEF Standing
  <2>5. HeldOf(w) = v <=> DrivenByPlayer(v) /\ ctx[w].held
    BY <2>1, <2>2 DEF HeldOf
  <2>6. v \in visits[w] => Seated(v)
    BY <2>3, <2>4, <2>5
  <2>7. DrivenByPlayer(v) => (ctx[w].held <=> Taken(v))
    BY <2>4, <2>6 DEF Taken
  <2>8. HeldOf(w) = v <=> Taken(v)
    BY <2>5, <2>7 DEF Taken
  <2>. QED  BY <2>1, <2>2, <2>3, <2>6, <2>7, <2>8
<1>4. ASSUME NEW v \in Came(c0), ~Passenger(v)
      PROVE  riders[v] = {i \in Filled(v, None) : ~Taken(Links(v)[i])}
  <2>1. v \notin visits[w]
    BY <1>3, <1>4, SeatedIs
  <2>2. riders[v] = Filled(v, HeldOf(w))
    BY <1>2, <2>1 DEF Standing
  <2>3. \A i \in DOMAIN Links(v) : Links(v)[i] \in Came(Home(v)) =>
          Links(v)[i] # None /\ (HeldOf(w) = Links(v)[i] <=> Taken(Links(v)[i]))
    BY <1>3
  <2>. QED  BY <2>2, <2>3 DEF Filled
<1>. QED  BY <1>3, <1>4 DEF c0

LEMMA FinishChunkKeeps ==
  ASSUME TypeInv, TypeInv', OwnInv, PhaseInv, GoodInv, Good, Good', NEW w \in Workers, FinishChunk(w)
  PROVE  GoodInv'
<1>. USE DEF dimVars, chunkVars, endVars
<1>. DEFINE c0 == Chunk(w)
<1>1. /\ world' = world /\ riders' = riders /\ bin' = bin /\ dim' = dim
      /\ file' = file /\ result' = result /\ claimed' = claimed
      /\ total' = total /\ sum' = sum /\ region' = region
      /\ at' = [at EXCEPT ![w] = @ + 1]
      /\ pc[w] = "attach" /\ visits[w] \cap here[w] = {}
      /\ here' = [here EXCEPT ![w] = {}] /\ visits' = [visits EXCEPT ![w] = {}]
      /\ ctx' = [ctx EXCEPT ![w].leashed = @ \ Tied(w)]
      /\ editor' = [editor EXCEPT ![w] = @ \cup ({c0} \X (here[w] \ {ctx[w].root}))]
      /\ tie' = [e \in Entities |-> IF e \in Tied(w) THEN "knot" ELSE tie[e]]
  BY DEF FinishChunk
<1>2. /\ c0 \in Chunks /\ DimOf(c0) = dim /\ RegOf(c0) = region[w] /\ Turn(c0) = at[w]
      /\ at[w] \in Nat /\ region[w] \in claimed /\ dim \in Nat
      /\ ~Past(c0) /\ Current(w, c0) /\ Active(w)
      /\ \A u \in Workers \ {w} : ~Current(u, c0)
      /\ ctx[w] \in Contexts
  <2>1. /\ c0 \in Chunks /\ DimOf(c0) = dim /\ RegOf(c0) = region[w] /\ Turn(c0) = at[w]
        /\ at[w] \in Nat /\ region[w] \in claimed
    BY <1>1, AtChunk
  <2>2. ~Past(c0) /\ \A u \in Workers \ {w} : ~Current(u, c0)
    BY <1>1, AtFresh
  <2>3. Current(w, c0) /\ Active(w) /\ ctx[w] \in Contexts
    BY <1>1 DEF Current, Active, TypeInv
  <2>4. dim \in Nat
    BY <2>1, PlaceNat
  <2>. QED  BY <2>1, <2>2, <2>3, <2>4
<1>3. pc' = [pc EXCEPT ![w] = IF at[w] = Len(RegionChunks(w)) THEN "write" ELSE "convert"]
  <2>1. pc'[w] # "fail"
    BY DEF Good
  <2>. QED  BY <2>1 DEF FinishChunk, Goto, TypeInv
<1>4. /\ \A u \in Workers \ {w} : /\ pc'[u] = pc[u] /\ ctx'[u] = ctx[u] /\ here'[u] = here[u]
                                  /\ visits'[u] = visits[u] /\ editor'[u] = editor[u]
                                  /\ at'[u] = at[u] /\ Chunk(u)' = Chunk(u)
                                  /\ \A c \in Chunks : Current(u, c)' <=> Current(u, c)
      /\ pc'[w] # "attach" /\ at'[w] = at[w] + 1
      /\ editor'[w] = editor[w] \cup ({c0} \X (here[w] \ {ctx[w].root}))
      /\ \A c \in Chunks : Current(w, c) <=> c = c0
      /\ \A c \in Chunks : ~Current(w, c)'
      /\ \A u \in Workers : Active(u)' <=> Active(u)
      /\ \A u \in Workers : pc'[u] # "left" <=> pc[u] # "left"
  BY <1>1, <1>2, <1>3 DEF TypeInv, Current, Active, Chunk, RegionChunks
<1>5. /\ ctx'[w].root = ctx[w].root /\ ctx'[w].held = ctx[w].held
      /\ ctx'[w].knots = ctx[w].knots /\ ctx'[w].shoulder = ctx[w].shoulder
      /\ ctx'[w].leashed = ctx[w].leashed \ Tied(w)
  BY <1>1 DEF TypeInv, Contexts
<1>6. ASSUME NEW c \in Chunks PROVE Past(c)' <=> Past(c) \/ c = c0
  <2>1. /\ c = c0 <=> DimOf(c) = dim /\ RegOf(c) = region[w] /\ Turn(c) = at[w]
        /\ Turn(c) \in Nat
    BY <1>2, PlaceOf, PlaceNat
  <2>2. \A u \in Workers : Active(u) /\ region[u] = region[w] => u = w
    BY <1>2 DEF OwnInv
  <2>3. CASE DimOf(c) = dim /\ RegOf(c) = region[w]
    BY <1>1, <1>2, <1>4, <2>1, <2>2, <2>3 DEF Past
  <2>4. CASE ~(DimOf(c) = dim /\ RegOf(c) = region[w])
    BY <1>1, <1>2, <1>4, <2>1, <2>2, <2>4 DEF Past
  <2>. QED  BY <2>3, <2>4
<1>7. \A v \in Came(c0) :
           /\ HeldOf(w) = v <=> Taken(v)
           /\ ctx[w].root = v <=> DrivenByPlayer(v)
           /\ DrivenByPlayer(v) => (ctx[w].held <=> Taken(v))
           /\ v \in here[w] <=> ~Seated(v) /\ ~Taken(v)
           /\ ~Passenger(v) => riders[v] = {i \in Filled(v, None) : ~Taken(Links(v)[i])}
  BY <1>1, TurnsOver DEF GoodInv
<1>8. here[w] \subseteq Came(c0)
  BY <1>2 DEF GoodInv, CurrentInv, Standing
<1>9. \A e : e \in Came(c0) <=> e \in Entities /\ Home(e) = c0 /\ e # world.shoulder
  BY CameIs
<1>. HIDE DEF c0
<1>10. /\ \A e \in Entities : Home(e) \in Chunks /\ Home(e)' = Home(e)
       /\ \A e \in Entities : (Seated(e)' <=> Seated(e)) /\ (Taken(e)' <=> Taken(e))
                                /\ (DrivenByPlayer(e)' <=> DrivenByPlayer(e))
  BY <1>1, WorldIs, WorldSame, SeatedSame
<1>11. /\ total \in Pending' /\ ctx'[w] \in Pending'
       /\ \A u \in Workers \ {w} : Active(u) => ctx[u] \in Pending'
       /\ \A u \in Workers : pc[u] # "left" => sum[u] \in Pending'
  BY <1>1, <1>2, <1>4 DEF Pending
<1>12. \A x \in Pending : \E y \in Pending' :
         y.root = x.root /\ y.shoulder = x.shoulder /\ y.knots = x.knots
           /\ x.leashed \ Tied(w) \subseteq y.leashed
  BY <1>5, <1>11 DEF Pending
<1>13. CurrentInv'
  <2>. SUFFICES ASSUME NEW u \in Workers, NEW c \in Chunks, Current(u, c)' PROVE Standing(u, c)'
    BY DEF CurrentInv
  <2>1. u # w
    BY <1>4
  <2>2. Standing(u, c) /\ here'[u] = here[u] /\ visits'[u] = visits[u] /\ ctx'[u] = ctx[u]
    BY <1>4, <2>1 DEF GoodInv, CurrentInv
  <2>3. \A e \in Came(c) : riders'[e] = riders[e] /\ (Seated(e)' <=> Seated(e))
    BY <1>1, <1>10, CameIs
  <2>. QED  BY <1>1, <2>2, <2>3, StandingKept
<1>14. PastInv'
  <2>1. PastInv
    BY DEF GoodInv
  <2>2. \A u \in Entities : riders'[u] \subseteq Filled(u, None)'
    BY <1>1, <2>1, WorldSame DEF PastInv
  <2>3. world'.shoulder \in Entities => riders'[world'.shoulder] = {}
    BY <1>1, <2>1 DEF PastInv
  <2>4. ASSUME NEW u \in Entities, riders'[u] # {}
        PROVE  Past(Home(u))' \/ \E x \in Workers : Current(x, Home(u))' /\ u \notin visits'[x]
    <3>1. Past(Home(u)) \/ \E x \in Workers : Current(x, Home(u)) /\ u \notin visits[x]
      BY <1>1, <2>1, <2>4 DEF PastInv
    <3>2. ASSUME NEW x \in Workers, Current(x, Home(u)), u \notin visits[x], x # w
          PROVE  Current(x, Home(u))' /\ u \notin visits'[x]
      BY <1>4, <1>10, <3>2
    <3>. QED  BY <1>4, <1>6, <1>10, <3>1, <3>2
  <2>5. ASSUME NEW u \in Entities \ {world'.shoulder}, Past(Home(u))', ~Passenger(u)'
        PROVE  riders'[u] = {i \in Filled(u, None)' : ~Taken(Links(u)[i])'}
    <3>1. /\ u # world.shoulder /\ (Past(Home(u)) \/ Home(u) = c0) /\ ~Passenger(u)
          /\ Filled(u, None)' = Filled(u, None) /\ Links(u)' = Links(u)
      BY <1>1, <1>6, <1>10, <2>5, WorldSame
    <3>2. riders[u] = {i \in Filled(u, None) : ~Taken(Links(u)[i])}
      BY <1>7, <1>9, <2>1, <3>1 DEF PastInv
    <3>3. \A i \in Filled(u, None) : Links(u)[i] \in Entities
      BY CameIs DEF Filled
    <3>. QED  BY <1>1, <1>10, <3>1, <3>2, <3>3
  <2>. QED  BY <2>2, <2>3, <2>4, <2>5 DEF PastInv
<1>15. FileInv'
  <2>1. FileInv
    BY DEF GoodInv
  <2>2. ASSUME NEW p PROVE Written(p)' <=> Written(p) \/ p \in {c0} \X (here[w] \ {ctx[w].root})
    <3>1. \A u \in Workers \ {w} : Active(u)' /\ p \in editor'[u] <=> Active(u) /\ p \in editor[u]
      BY <1>4
    <3>2. Active(w)' /\ p \in editor'[w] <=> (Active(w) /\ p \in editor[w]) \/ p \in {c0} \X (here[w] \ {ctx[w].root})
      BY <1>2, <1>4
    <3>. QED  BY <1>1, <3>1, <3>2 DEF Written
  <2>3. ASSUME NEW p \in Chunks \X Entities, Written(p)' PROVE Home(p[2])' = p[1] /\ Past(p[1])'
    <3>1. CASE Written(p)
      BY <1>6, <1>10, <2>1, <3>1 DEF FileInv
    <3>2. CASE p \in {c0} \X (here[w] \ {ctx[w].root})
      BY <1>2, <1>6, <1>8, <1>9, <1>10, <3>2
    <3>. QED  BY <2>2, <2>3, <3>1, <3>2
  <2>4. ASSUME NEW e \in Entities, Past(Home(e))'
        PROVE  Written(<<Home(e), e>>)' <=> e # world'.shoulder /\ ~Seated(e)' /\ ~DrivenByPlayer(e)'
    <3>1. CASE Home(e) # c0
      <4>1. Past(Home(e)) /\ (Written(<<Home(e), e>>)' <=> Written(<<Home(e), e>>))
        BY <1>6, <1>10, <2>2, <2>4, <3>1
      <4>. QED  BY <1>1, <1>10, <2>1, <4>1 DEF FileInv
    <3>2. CASE Home(e) = c0
      <4>1. ~Written(<<Home(e), e>>)
        BY <1>2, <1>10, <2>1, <3>2 DEF FileInv
      <4>2. Written(<<Home(e), e>>)' <=> e \in here[w] /\ e # ctx[w].root
        BY <1>10, <2>2, <3>2, <4>1
      <4>3. e \in here[w] /\ e # ctx[w].root <=> e \in Came(c0) /\ ~Seated(e) /\ ~DrivenByPlayer(e)
        BY <1>7, <1>8 DEF Taken
      <4>. QED  BY <1>1, <1>9, <1>10, <3>2, <4>2, <4>3
    <3>. QED  BY <3>1, <3>2
  <2>. QED  BY <2>3, <2>4 DEF FileInv
<1>16. RootInv'
  <2>1. RootInv /\ RootsRight
    BY DEF GoodInv, RootInv
  <2>2. \A y \in Contexts : RootRight(y) => RootRight(y)'
    BY <1>1, <1>6, RootRightKept
  <2>3. RootRight(bin)' /\ RootRight(total)' /\ \A u \in Workers : RootRight(sum[u])'
    BY <1>1, <2>1, <2>2 DEF RootsRight, TypeInv
  <2>4. RootRight(ctx[w])'
    <3>1. CASE RootRight(ctx[w])
      BY <1>1, <1>2, <1>5, <1>6, <3>1, RootRightKept
    <3>2. CASE ~RootRight(ctx[w])
      <4>1. ctx[w].root # None /\ Current(w, Home(ctx[w].root)) /\ DrivenByPlayer(ctx[w].root)
        BY <1>2, <2>1, <3>2 DEF RootsRight
      <4>2. ctx[w].root \in Entities
        BY <1>2, <4>1 DEF Contexts
      <4>3. Home(ctx[w].root) = c0 /\ ctx[w].root \in Came(c0)
        BY <1>4, <1>9, <1>10, <4>1, <4>2 DEF DrivenByPlayer
      <4>4. ctx[w].held <=> Taken(ctx[w].root)
        BY <1>7, <4>1, <4>3
      <4>5. \A v \in Came(c0) : DrivenByPlayer(v) =>
              DrivenByPlayer(v)' /\ Past(Home(v))' /\ (Taken(v)' <=> Taken(v))
        BY <1>2, <1>6, <1>9, <1>10
      <4>6. /\ ctx'[w].root \in Came(c0) /\ DrivenByPlayer(ctx'[w].root)
            /\ ctx'[w].held <=> Taken(ctx'[w].root)
            /\ ctx'[w].root # None
        BY <1>5, <4>1, <4>3, <4>4
      <4>. QED  BY <4>5, <4>6 DEF RootRight
    <3>. QED  BY <3>1, <3>2
  <2>5. ASSUME NEW u \in Workers \ {w}, Active(u)'
        PROVE  RootRight(ctx[u])' \/ (ctx'[u].root # None /\ Current(u, Home(ctx[u].root))'
                                        /\ DrivenByPlayer(ctx[u].root)')
    BY <1>1, <1>4, <1>6, <2>1, <2>5, SeatedSame, CtxRightKept
  <2>6. RootsRight'
    BY <2>3, <2>4, <2>5 DEF RootsRight
  <2>7. ASSUME NEW e \in Entities, DrivenByPlayer(e)', Past(Home(e))'
        PROVE  bin'.root = e \/ \E y \in Pending' : y.root = e
    <3>1. CASE Past(Home(e))
      BY <1>1, <1>10, <1>12, <2>1, <2>7, <3>1 DEF RootInv
    <3>2. CASE Home(e) = c0
      <4>1. e \in Came(c0) /\ DrivenByPlayer(e)
        BY <1>9, <1>10, <2>7, <3>2 DEF DrivenByPlayer
      <4>. QED  BY <1>5, <1>7, <1>11, <4>1
    <3>. QED  BY <1>6, <1>10, <2>7, <3>1, <3>2
  <2>. QED  BY <2>6, <2>7 DEF RootInv
<1>17. ShoulderInv'
  <2>1. ShoulderInv /\ ShouldersRight
    BY DEF GoodInv, ShoulderInv
  <2>2. \A u \in Workers : ctx'[u].shoulder = ctx[u].shoulder
    BY <1>4, <1>5
  <2>3. ShouldersRight'
    <3>1. /\ bin.shoulder \in {None, world.shoulder} /\ total.shoulder \in {None, world.shoulder}
          /\ \A u \in Workers : ctx'[u].shoulder \in {None, world.shoulder}
                                   /\ sum[u].shoulder \in {None, world.shoulder}
      BY <2>1, <2>2 DEF ShouldersRight
    <3>2. ASSUME NEW x \in {bin', total'} \cup {ctx'[u] : u \in Workers} \cup {sum'[u] : u \in Workers}
          PROVE  x.shoulder \in {None, world'.shoulder}
      BY <1>1, <3>1
    <3>. QED  BY <3>2 DEF ShouldersRight
  <2>4. \A u \in Workers, c \in Chunks : Current(u, c)' /\ Shouldered(c) => ctx'[u].shoulder = world.shoulder
    BY <1>4, <2>1, <2>2 DEF ShoulderInv
  <2>5. ASSUME NEW c \in Chunks, Past(c)', Shouldered(c)
        PROVE  bin'.shoulder = world.shoulder \/ \E y \in Pending' : y.shoulder = world.shoulder
    <3>1. CASE Past(c)
      BY <1>1, <1>12, <2>1, <2>5, <3>1 DEF ShoulderInv
    <3>2. CASE c = c0
      BY <1>2, <1>5, <1>11, <2>1, <2>5, <3>2 DEF ShoulderInv
    <3>. QED  BY <1>6, <2>5, <3>1, <3>2
  <2>. QED  BY <1>1, <2>3, <2>4, <2>5, WorldSame DEF ShoulderInv
<1>18. /\ world.knot \in Chunks
       /\ world.knot \in ctx[w].knots <=>
            /\ DimOf(world.knot) = dim /\ RegOf(world.knot) = region[w]
            /\ Turn(world.knot) <= at[w]
  <2>1. world.knot \in Chunks
    BY WorldIs
  <2>2. world.knot = c0 <=> DimOf(world.knot) = dim /\ RegOf(world.knot) = region[w] /\ Turn(world.knot) = at[w]
    BY <1>2, <2>1, PlaceOf
  <2>3. world.knot \in ctx[w].knots <=>
          /\ DimOf(world.knot) = dim /\ RegOf(world.knot) = region[w]
          /\ Turn(world.knot) < at[w] \/ Current(w, world.knot)
    BY <1>2 DEF GoodInv, KnotInv
  <2>. QED  BY <1>2, <1>4, <2>1, <2>2, <2>3, PlaceNat
<1>19. KnotInv'
  <2>1. KnotInv /\ world.knot \in Chunks /\ Turn(world.knot) \in Nat
    BY WorldIs, PlaceNat DEF GoodInv
  <2>2. ASSUME NEW u \in Workers, Active(u)'
        PROVE  world.knot \in ctx'[u].knots <=>
              /\ DimOf(world.knot) = dim /\ RegOf(world.knot) = region'[u]
              /\ Turn(world.knot) < at'[u] \/ Current(u, world.knot)'
    <3>1. CASE u = w
      <4>1. ~Current(w, world.knot)'
        BY <1>1, <1>4, <2>1
      <4>. QED  BY <1>1, <1>2, <1>4, <1>5, <1>18, <2>1, <3>1, <4>1
    <3>2. CASE u # w
      <4>1. Current(u, world.knot)' <=> Current(u, world.knot)
        BY <1>1, <1>4, <2>1, <3>2
      <4>. QED  BY <1>1, <1>4, <2>1, <2>2, <3>2, <4>1 DEF KnotInv
    <3>. QED  BY <3>1, <3>2
  <2>3. ASSUME Past(world.knot)', DimOf(world.knot) = dim
        PROVE  \E y \in Pending' : world.knot \in y.knots
    <3>1. CASE Past(world.knot)
      BY <1>12, <2>1, <2>3, <3>1 DEF KnotInv
    <3>2. CASE world.knot = c0
      <4>1. world.knot \in ctx[w].knots
        BY <1>2, <2>1, <3>2 DEF KnotInv
      <4>. QED  BY <1>5, <1>11, <4>1
    <3>. QED  BY <1>1, <1>6, <2>1, <2>3, <3>1, <3>2
  <2>. QED  BY <1>1, <2>2, <2>3 DEF KnotInv
<1>20. LeadInv'
  <2>1. LeadInv
    BY DEF GoodInv
  <2>2. \A e \in Entities : (Leads(e)' <=> Leads(e)) /\ (InTurn(e)' <=> InTurn(e))
    BY <1>1, WorldSame
  <2>3. Tied(w) \subseteq Came(c0) /\ \A e \in Entities : tie'[e] = IF e \in Tied(w) THEN "knot" ELSE tie[e]
    BY <1>1, <1>8 DEF Tied
  <2>4. ASSUME NEW e \in Entities, Leads(e), Home(e) # c0 \/ ~Past(Home(e))'
        PROVE  e \notin Tied(w) /\ tie'[e] = tie[e] /\ (Past(Home(e))' <=> Past(Home(e)))
    BY <1>2, <1>6, <1>9, <1>10, <2>3, <2>4
  <2>5. ASSUME NEW e \in Entities, Leads(e)', ~Past(Home(e))' PROVE tie'[e] = "uuid"
    BY <2>1, <2>2, <2>4, <2>5 DEF LeadInv
  <2>6. ASSUME NEW u \in Workers, pc'[u] = "attach"
        PROVE  Came(Chunk(u))' \cap world'.leashed \subseteq ctx'[u].leashed
    <3>1. u # w
      BY <1>4, <2>6
    <3>2. Came(Chunk(u))' = Came(Chunk(u))
      BY <1>1, <1>4, <3>1 DEF Came
    <3>. QED  BY <1>1, <1>4, <2>1, <2>6, <3>1, <3>2 DEF LeadInv
  <2>7. ASSUME NEW e \in Entities, Leads(e)', Past(Home(e))'
        PROVE  /\ tie'[e] = "knot" <=> \/ InTurn(e)'
                                       \/ world'.reaches /\ (DimOf(Home(e)') < dim' \/ result' # None)
               /\ ~InTurn(e)' /\ DimOf(Home(e)') = dim' => \E y \in Pending' : e \in y.leashed
    <3>1. CASE Home(e) # c0
      <4>1. /\ Past(Home(e)) /\ Leads(e) /\ e \notin Tied(w) /\ tie'[e] = tie[e]
        BY <2>2, <2>4, <2>7, <3>1
      <4>2. /\ tie[e] = "knot" <=> \/ InTurn(e)
                                   \/ world.reaches /\ (DimOf(Home(e)) < dim \/ result # None)
            /\ ~InTurn(e) /\ DimOf(Home(e)) = dim => \E x \in Pending : e \in x.leashed
        BY <2>1, <4>1 DEF LeadInv
      <4>3. ASSUME NEW x \in Pending, e \in x.leashed PROVE \E y \in Pending' : e \in y.leashed
        BY <1>12, <4>1, <4>3
      <4>. QED  BY <1>1, <1>10, <2>2, <4>1, <4>2, <4>3
    <3>2. CASE Home(e) = c0
      <4>1. Leads(e) /\ e \in Came(c0) /\ ~Passenger(e) /\ ~DrivenByPlayer(e) /\ e \in world.leashed
        BY <1>9, <2>2, <2>7, <3>2 DEF Leads
      <4>2. ~Seated(e) /\ e \in here[w]
        BY <1>7, <4>1, SeatedIs DEF GoodInv, Taken
      <4>3. e \in ctx[w].leashed
        BY <1>1, <2>1, <4>1 DEF LeadInv, c0
      <4>4. InTurn(e) <=> world.knot \in ctx[w].knots
        <5>1. /\ RegionOf(world.knot) = <<DimOf(world.knot), RegOf(world.knot)>>
              /\ RegionOf(c0) = <<dim, region[w]>> /\ Turn(c0) = at[w]
          BY <1>2, <1>18, PlaceOf
        <5>2. InTurn(e) <=> RegionOf(world.knot) = RegionOf(c0) /\ Turn(world.knot) <= Turn(c0)
          BY <3>2 DEF InTurn
        <5>. QED  BY <1>18, <5>1, <5>2
      <4>5. e \in Tied(w) <=> InTurn(e)
        BY <4>2, <4>3, <4>4 DEF Tied
      <4>6. tie[e] = "uuid" /\ result = None
        BY <1>1, <1>2, <2>1, <3>2, <4>1, NoResultYet DEF LeadInv
      <4>7. tie'[e] = "knot" <=> InTurn(e)
        BY <2>3, <4>5, <4>6
      <4>8. ~InTurn(e) => e \in ctx'[w].leashed
        BY <1>5, <4>3, <4>5
      <4>9. ~(DimOf(Home(e)') < dim') /\ result' = None /\ (InTurn(e)' <=> InTurn(e))
        BY <1>1, <1>2, <1>10, <2>2, <3>2, <4>6
      <4>10. ~InTurn(e) => \E y \in Pending' : e \in y.leashed
        BY <1>11, <4>8
      <4>. QED  BY <4>7, <4>9, <4>10
    <3>. QED  BY <3>1, <3>2
  <2>. QED  BY <2>5, <2>6, <2>7 DEF LeadInv
<1>21. EndInv'
  BY <1>1, NoResultYet DEF EndInv
<1>. QED  BY <1>13, <1>14, <1>15, <1>16, <1>17, <1>19, <1>20, <1>21 DEF GoodInv

LEMMA WriteKeeps ==
  ASSUME TypeInv, TypeInv', OwnInv, PhaseInv, GoodInv, Good, Good', NEW w \in Workers, WriteRegion(w)
  PROVE  GoodInv'
<1>. USE DEF dimVars, chunkVars, endVars
<1>1. /\ world' = world /\ riders' = riders /\ bin' = bin /\ tie' = tie /\ dim' = dim
      /\ visits' = visits /\ here' = here /\ result' = result /\ claimed' = claimed
      /\ total' = total /\ region' = region /\ at' = at /\ ctx' = ctx /\ editor' = editor
      /\ pc[w] = "write"
  BY DEF WriteRegion
<1>2. /\ file' = file \cup editor[w] /\ sum' = [sum EXCEPT ![w] = MergeInto(ctx[w], @)]
      /\ pc' = [pc EXCEPT ![w] = "take"]
  <2>1. pc'[w] # "fail"
    BY DEF Good
  <2>. QED  BY <2>1 DEF WriteRegion, Goto, Join, TypeInv
<1>3. /\ \A u \in Workers \ {w} : pc'[u] = pc[u] /\ sum'[u] = sum[u] /\ (Active(u)' <=> Active(u))
      /\ Active(w) /\ ~Active(w)' /\ pc'[w] = "take" /\ sum'[w] = MergeInto(ctx[w], sum[w])
      /\ \A u \in Workers : Chunk(u)' = Chunk(u)
      /\ \A u \in Workers, c \in Chunks : Current(u, c)' <=> Current(u, c)
      /\ \A c \in Chunks : ~Current(w, c)
      /\ bin \in Contexts /\ total \in Contexts
      /\ \A u \in Workers : ctx[u] \in Contexts /\ sum[u] \in Contexts
  BY <1>1, <1>2 DEF TypeInv, Active, Chunk, RegionChunks, Current
<1>4. ASSUME NEW c \in Chunks PROVE Past(c)' <=> Past(c)
  <2>1. ASSUME DimOf(c) = dim, RegOf(c) = region[w] PROVE Turn(c) < at[w]
    <3>1. at[w] = Len(Dims[DimOf(c)][RegOf(c)]) + 1
      BY <1>1, <1>3, <2>1 DEF OwnInv, RegionChunks
    <3>2. /\ Turn(c) \in 1 .. Len(Dims[DimOf(c)][RegOf(c)])
          /\ Len(Dims[DimOf(c)][RegOf(c)]) \in Nat
      BY PlaceOf, DimLengths
    <3>. QED  BY <3>1, <3>2
  <2>. QED  BY <1>1, <1>3, <2>1 DEF Past
<1>5. Covered
  <2>1. /\ Covers(sum'[w], ctx[w]) /\ Covers(sum'[w], sum[w]) /\ \A y : Covers(y, y)
    BY <1>3, MergedCovers DEF Covers
  <2>2. /\ total \in Pending' /\ sum'[w] \in Pending'
        /\ \A u \in Workers \ {w} : Active(u) => ctx[u] \in Pending'
        /\ \A u \in Workers \ {w} : pc[u] # "left" => sum[u] \in Pending'
    BY <1>1, <1>3 DEF Pending
  <2>. QED  BY <2>1, <2>2 DEF Covered, Pending
<1>6. CurrentInv'
  <2>. SUFFICES ASSUME NEW u \in Workers, NEW c \in Chunks, Current(u, c)' PROVE Standing(u, c)'
    BY DEF CurrentInv
  <2>1. Standing(u, c)
    BY <1>3 DEF GoodInv, CurrentInv
  <2>2. \A e \in Came(c) : riders'[e] = riders[e] /\ (Seated(e)' <=> Seated(e))
    BY <1>1, SeatedSame, CameIs
  <2>. QED  BY <1>1, <2>1, <2>2, StandingKept
<1>7. PastInv'
  BY <1>1, <1>3, <1>4, PastKept DEF GoodInv
<1>8. FileInv'
  <2>1. \A p : Written(p)' <=> Written(p)
    BY <1>1, <1>2, <1>3 DEF Written
  <2>. QED  BY <1>1, <1>4, <2>1, FileKept DEF GoodInv
<1>9. RootInv'
  <2>1. RootInv /\ RootsRight
    BY DEF GoodInv, RootInv
  <2>2. \A y \in Contexts : RootRight(y) => RootRight(y)'
    BY <1>1, <1>4, RootRightKept
  <2>3. RootRight(bin)' /\ RootRight(total)' /\ \A u \in Workers \ {w} : RootRight(sum[u])'
    BY <1>1, <1>3, <2>1, <2>2 DEF RootsRight
  <2>4. RootRight(sum[w])'
    <3>1. ctx[w].root # None => Home(ctx[w].root) \in Chunks
      BY <1>3, WorldIs DEF Contexts
    <3>2. RootRight(ctx[w]) /\ RootRight(sum[w])
      BY <1>3, <2>1, <3>1 DEF RootsRight
    <3>3. RootRight(MergeInto(ctx[w], sum[w])) /\ MergeInto(ctx[w], sum[w]) \in Contexts
      BY <1>3, <3>2, MergedRight, MergeIs
    <3>. QED  BY <1>1, <1>3, <1>4, <3>3, RootRightKept
  <2>5. ASSUME NEW u \in Workers, Active(u)'
        PROVE  RootRight(ctx[u])' \/ (ctx'[u].root # None /\ Current(u, Home(ctx[u].root))'
                                        /\ DrivenByPlayer(ctx[u].root)')
    <3>1. Active(u)
      BY <1>3, <2>5
    <3>. QED  BY <1>1, <1>3, <1>4, <2>1, <3>1, SeatedSame, CtxRightKept
  <2>6. RootsRight'
    BY <2>3, <2>4, <2>5 DEF RootsRight
  <2>. QED  BY <1>1, <1>4, <1>5, <2>1, <2>6, RootKept
<1>10. ShoulderInv'
  <2>1. ShoulderInv /\ ShouldersRight
    BY DEF GoodInv, ShoulderInv
  <2>2. \A u \in Workers : sum'[u].shoulder \in {None, world.shoulder}
    BY <1>3, <2>1, MergeIs DEF ShouldersRight
  <2>3. ShouldersRight'
    BY <1>1, <2>1, <2>2 DEF ShouldersRight
  <2>4. \A u \in Workers, c \in Chunks : Current(u, c)' /\ Shouldered(c) => ctx'[u].shoulder = world.shoulder
    BY <1>1, <1>3, <2>1 DEF ShoulderInv
  <2>. QED  BY <1>1, <1>4, <1>5, <2>1, <2>3, <2>4, ShoulderKept
<1>11. KnotInv'
  <2>1. KnotInv /\ world.knot \in Chunks
    BY WorldIs DEF GoodInv
  <2>2. \A u \in Workers : Current(u, world.knot)' <=> Current(u, world.knot)
    BY <1>1, <1>3, <2>1
  <2>3. \A u \in Workers : Active(u)' =>
          (world.knot \in ctx'[u].knots <=>
              /\ DimOf(world.knot) = dim /\ RegOf(world.knot) = region'[u]
              /\ Turn(world.knot) < at'[u] \/ Current(u, world.knot)')
    BY <1>1, <1>3, <2>1, <2>2 DEF KnotInv
  <2>. QED  BY <1>1, <1>4, <1>5, <2>1, <2>3, KnotKept
<1>12. LeadInv'
  <2>1. LeadInv
    BY DEF GoodInv
  <2>2. \A u \in Workers : pc'[u] = "attach" => Came(Chunk(u)') \cap world.leashed \subseteq ctx'[u].leashed
    BY <1>1, <1>3, <2>1 DEF LeadInv
  <2>. QED  BY <1>1, <1>4, <1>5, <2>1, <2>2, LeadKept
<1>13. EndInv'
  BY <1>1, NoResultYet DEF EndInv
<1>. QED  BY <1>6, <1>7, <1>8, <1>9, <1>10, <1>11, <1>12, <1>13 DEF GoodInv

LEMMA JoinKeeps ==
  ASSUME TypeInv, TypeInv', OwnInv, PhaseInv, GoodInv, NEW w \in Workers, JoinTotal(w)
  PROVE  GoodInv'
<1>. USE DEF dimVars, chunkVars, endVars
<1>1. /\ world' = world /\ riders' = riders /\ bin' = bin /\ tie' = tie /\ dim' = dim
      /\ visits' = visits /\ here' = here /\ result' = result /\ claimed' = claimed
      /\ file' = file /\ region' = region /\ at' = at /\ ctx' = ctx /\ editor' = editor
      /\ sum' = sum /\ pc[w] = "take" /\ pc' = [pc EXCEPT ![w] = "left"]
      /\ total' = MergeInto(sum[w], total)
  BY DEF JoinTotal, Goto
<1>2. /\ \A u \in Workers \ {w} : pc'[u] = pc[u]
      /\ \A u \in Workers : (Active(u)' <=> Active(u)) /\ Chunk(u)' = Chunk(u)
      /\ ~Active(w)
      /\ \A u \in Workers, c \in Chunks : Current(u, c)' <=> Current(u, c)
      /\ bin \in Contexts /\ total \in Contexts
      /\ \A u \in Workers : ctx[u] \in Contexts /\ sum[u] \in Contexts
  BY <1>1 DEF TypeInv, Active, Chunk, RegionChunks, Current
<1>3. \A c \in Chunks : Past(c)' <=> Past(c)
  BY <1>1, <1>2 DEF Past
<1>4. Covered
  <2>1. /\ Covers(total', total) /\ Covers(total', sum[w]) /\ \A y : Covers(y, y)
    BY <1>1, <1>2, MergedCovers DEF Covers
  <2>2. /\ total' \in Pending'
        /\ \A u \in Workers : Active(u) => ctx[u] \in Pending'
        /\ \A u \in Workers \ {w} : pc[u] # "left" => sum[u] \in Pending'
    BY <1>1, <1>2 DEF Pending
  <2>. QED  BY <2>1, <2>2 DEF Covered, Pending
<1>5. CurrentInv'
  <2>. SUFFICES ASSUME NEW u \in Workers, NEW c \in Chunks, Current(u, c)' PROVE Standing(u, c)'
    BY DEF CurrentInv
  <2>1. Standing(u, c)
    BY <1>2 DEF GoodInv, CurrentInv
  <2>2. \A e \in Came(c) : riders'[e] = riders[e] /\ (Seated(e)' <=> Seated(e))
    BY <1>1, SeatedSame, CameIs
  <2>. QED  BY <1>1, <2>1, <2>2, StandingKept
<1>6. PastInv'
  BY <1>1, <1>2, <1>3, PastKept DEF GoodInv
<1>7. FileInv'
  <2>1. \A p : Written(p)' <=> Written(p)
    BY <1>1, <1>2 DEF Written
  <2>. QED  BY <1>1, <1>3, <2>1, FileKept DEF GoodInv
<1>8. RootInv'
  <2>1. RootInv /\ RootsRight
    BY DEF GoodInv, RootInv
  <2>2. \A y \in Contexts : RootRight(y) => RootRight(y)'
    BY <1>1, <1>3, RootRightKept
  <2>3. RootRight(bin)' /\ \A u \in Workers : RootRight(sum[u])'
    BY <1>1, <1>2, <2>1, <2>2 DEF RootsRight
  <2>4. RootRight(total)'
    <3>1. RootRight(MergeInto(sum[w], total)) /\ MergeInto(sum[w], total) \in Contexts
      BY <1>2, <2>1, MergedRight, MergeIs DEF RootsRight
    <3>. QED  BY <1>1, <1>3, <3>1, RootRightKept
  <2>5. ASSUME NEW u \in Workers, Active(u)'
        PROVE  RootRight(ctx[u])' \/ (ctx'[u].root # None /\ Current(u, Home(ctx[u].root))'
                                        /\ DrivenByPlayer(ctx[u].root)')
    BY <1>1, <1>2, <1>3, <2>1, <2>5, SeatedSame, CtxRightKept
  <2>6. RootsRight'
    BY <2>3, <2>4, <2>5 DEF RootsRight
  <2>. QED  BY <1>1, <1>3, <1>4, <2>1, <2>6, RootKept
<1>9. ShoulderInv'
  <2>1. ShoulderInv /\ ShouldersRight
    BY DEF GoodInv, ShoulderInv
  <2>2. total'.shoulder \in {None, world.shoulder}
    BY <1>1, <1>2, <2>1, MergeIs DEF ShouldersRight
  <2>3. ShouldersRight'
    BY <1>1, <2>1, <2>2 DEF ShouldersRight
  <2>4. \A u \in Workers, c \in Chunks : Current(u, c)' /\ Shouldered(c) => ctx'[u].shoulder = world.shoulder
    BY <1>1, <1>2, <2>1 DEF ShoulderInv
  <2>. QED  BY <1>1, <1>3, <1>4, <2>1, <2>3, <2>4, ShoulderKept
<1>10. KnotInv'
  <2>1. KnotInv /\ world.knot \in Chunks
    BY WorldIs DEF GoodInv
  <2>2. \A u \in Workers : Current(u, world.knot)' <=> Current(u, world.knot)
    BY <1>1, <1>2, <2>1
  <2>3. \A u \in Workers : Active(u)' =>
          (world.knot \in ctx'[u].knots <=>
              /\ DimOf(world.knot) = dim /\ RegOf(world.knot) = region'[u]
              /\ Turn(world.knot) < at'[u] \/ Current(u, world.knot)')
    BY <1>1, <1>2, <2>1, <2>2 DEF KnotInv
  <2>. QED  BY <1>1, <1>3, <1>4, <2>1, <2>3, KnotKept
<1>11. LeadInv'
  <2>1. LeadInv
    BY DEF GoodInv
  <2>2. \A u \in Workers : pc'[u] = "attach" => Came(Chunk(u)') \cap world.leashed \subseteq ctx'[u].leashed
    BY <1>1, <1>2, <2>1 DEF LeadInv, TypeInv
  <2>. QED  BY <1>1, <1>3, <1>4, <2>1, <2>2, LeadKept
<1>12. EndInv'
  BY <1>1, NoResultYet DEF EndInv
<1>. QED  BY <1>5, <1>6, <1>7, <1>8, <1>9, <1>10, <1>11, <1>12 DEF GoodInv

\* When all workers have left, the dimension is past and the total has it all.
LEMMA AllPast ==
  ASSUME TypeInv, PhaseInv, AllLeft
  PROVE  /\ \A c \in Chunks : Past(c) <=> DimOf(c) <= dim
         /\ \A w \in Workers : ~Active(w) /\ pc[w] = "left" /\ \A c : ~Current(w, c)
         /\ Pending = {total}
         /\ \A p : Written(p) <=> p \in file
         /\ dim \in Nat
<1>1. \A w \in Workers : ~Active(w) /\ pc[w] = "left" /\ \A c : ~Current(w, c)
  BY DEF AllLeft, Active, Current
<1>2. Unclaimed = {}
  BY <1>1, WorkersAssumption DEF PhaseInv
<1>3. dim \in Nat /\ dim \in DOMAIN Dims
  BY DimLengths DEF TypeInv
<1>4. ASSUME NEW c \in Chunks PROVE Past(c) <=> DimOf(c) <= dim
  <2>1. DimOf(c) \in Nat /\ (DimOf(c) = dim => RegOf(c) \in claimed)
    BY <1>2, PlaceOf, PlaceNat DEF Unclaimed
  <2>. QED  BY <1>1, <1>3, <2>1 DEF Past
<1>5. Pending = {total}
  BY <1>1 DEF Pending
<1>. QED  BY <1>1, <1>3, <1>4, <1>5 DEF Written

\* What is merged when all have left is complete.
LEMMA MergedBin ==
  ASSUME TypeInv, PhaseInv, AllLeft, GoodInv, NEW b, b = MergeInto(total, bin)
  PROVE  /\ b \in Contexts /\ RootRight(b)
         /\ \A e \in Entities : DrivenByPlayer(e) /\ Past(Home(e)) => b.root = e
         /\ b.shoulder \in {None, world.shoulder}
         /\ \A c \in Chunks : Past(c) /\ Shouldered(c) => b.shoulder = world.shoulder
<1>1. /\ total \in Contexts /\ bin \in Contexts /\ RootRight(total) /\ RootRight(bin)
      /\ total.shoulder \in {None, world.shoulder} /\ bin.shoulder \in {None, world.shoulder}
  BY DEF TypeInv, GoodInv, RootInv, RootsRight, ShoulderInv, ShouldersRight
<1>2. /\ b \in Contexts /\ RootRight(b)
      /\ b.root = IF bin.root = None THEN total.root ELSE bin.root
      /\ b.shoulder = IF bin.shoulder = None THEN total.shoulder ELSE bin.shoulder
  BY <1>1, MergeIs, MergedRight
<1>3. Pending = {total}
  BY AllPast
<1>4. ASSUME NEW e \in Entities, DrivenByPlayer(e), Past(Home(e)) PROVE b.root = e
  <2>1. (bin.root = e \/ total.root = e) /\ e # None
    BY <1>3, <1>4, NamesAssumption DEF GoodInv, RootInv
  <2>2. b.root # None
    BY <1>2, <2>1
  <2>3. b.root \in Entities /\ DrivenByPlayer(b.root)
    BY <1>2, <2>2 DEF RootRight, Contexts
  <2>. QED  BY <1>4, <2>3, RidesIs
<1>5. ASSUME NEW c \in Chunks, Past(c), Shouldered(c) PROVE b.shoulder = world.shoulder
  BY <1>1, <1>2, <1>3, <1>5 DEF GoodInv, ShoulderInv
<1>. QED  BY <1>1, <1>2, <1>4, <1>5

\* The leads between the regions of a dimension are tied when it ends.
LEMMA TiedAcrossIs ==
  ASSUME TypeInv, PhaseInv, AllLeft, GoodInv, result = None
  PROVE  /\ \A e \in Entities : Leads(e) /\ ~Past(Home(e)) => e \notin TiedAcross
         /\ \A e \in Entities : Leads(e) /\ Past(Home(e)) =>
              (e \in TiedAcross \/ tie[e] = "knot" <=> InTurn(e) \/ world.reaches)
<1>1. /\ \A c \in Chunks : Past(c) <=> DimOf(c) <= dim
      /\ Pending = {total} /\ dim \in Nat
      /\ \A p : Written(p) <=> p \in file
  BY AllPast
<1>2. \A e \in Entities : Home(e) \in Chunks /\ <<Home(e), e>> \in Chunks \X Entities
  BY WorldIs
<1>3. \A e \in TiedAcross : /\ e \in total.leashed /\ world.knot \in total.knots
                            /\ <<Home(e), e>> \in file /\ world.reaches
  BY DEF TiedAcross, Home
<1>4. ASSUME NEW e \in Entities, e \in TiedAcross PROVE Past(Home(e))
  BY <1>1, <1>2, <1>3, <1>4 DEF GoodInv, FileInv
<1>5. ASSUME NEW e \in Entities, Leads(e), Past(Home(e))
      PROVE  e \in TiedAcross \/ tie[e] = "knot" <=> InTurn(e) \/ world.reaches
  <2>1. /\ tie[e] = "knot" <=> InTurn(e) \/ (world.reaches /\ DimOf(Home(e)) < dim)
        /\ ~InTurn(e) /\ DimOf(Home(e)) = dim => e \in total.leashed
    BY <1>1, <1>5 DEF GoodInv, LeadInv
  <2>2. DimOf(Home(e)) <= dim /\ DimOf(Home(e)) \in Nat
    BY <1>1, <1>2, <1>5, PlaceNat
  <2>3. ASSUME world.reaches, ~InTurn(e), DimOf(Home(e)) = dim PROVE e \in TiedAcross
    <3>1. DimOf(world.knot) = dim /\ world.knot \in Chunks
      BY <1>5, <2>3, WorldIs DEF Leads
    <3>2. world.knot \in total.knots
      BY <1>1, <3>1 DEF GoodInv, KnotInv
    <3>3. e # world.shoulder /\ ~Seated(e) /\ ~DrivenByPlayer(e)
      BY <1>5, SeatedIs DEF Leads, GoodInv
    <3>4. <<Home(e), e>> \in file
      BY <1>1, <1>5, <3>3 DEF GoodInv, FileInv
    <3>. QED  BY <2>1, <2>3, <3>2, <3>4 DEF TiedAcross, Home
  <2>4. DimOf(Home(e)) < dim \/ DimOf(Home(e)) = dim
    BY <1>1, <2>2
  <2>5. e \in TiedAcross => world.reaches
    BY <1>3
  <2>. QED  BY <2>1, <2>3, <2>4, <2>5
<1>. QED  BY <1>4, <1>5

LEMMA DimensionKeeps ==
  ASSUME TypeInv, TypeInv', PhaseInv, GoodInv, NextDimension
  PROVE  GoodInv'
<1>. USE DEF dimVars, chunkVars, endVars
<1>1. /\ world' = world /\ riders' = riders /\ dim' = dim + 1 /\ result' = result
      /\ visits' = visits /\ claimed' = {} /\ file' = file /\ ctx' = ctx
      /\ AllLeft /\ result = None
      /\ \A w \in Workers : pc'[w] = "take"
      /\ tie' = [e \in Entities |-> IF e \in TiedAcross THEN "knot" ELSE tie[e]]
      /\ bin' = MergeInto(total, bin) /\ total' = Make(bin') /\ \A w \in Workers : sum'[w] = Make(bin')
  BY DEF NextDimension
<1>2. /\ \A c \in Chunks : Past(c) <=> DimOf(c) <= dim
      /\ Pending = {total} /\ dim \in Nat
      /\ \A w \in Workers : ~Active(w) /\ \A c : ~Current(w, c)
      /\ \A p : Written(p) <=> p \in file
  BY <1>1, AllPast
<1>3. /\ \A w \in Workers : ~Active(w)' /\ \A c \in Chunks : ~Current(w, c)'
      /\ \A p : Written(p)' <=> Written(p)
  BY <1>1, <1>2 DEF Active, Current, Written
<1>4. \A c \in Chunks : (Past(c)' <=> Past(c)) /\ (Past(c)' <=> DimOf(c) < dim') /\ DimOf(c) \in Nat
  BY <1>1, <1>2, PlaceNat DEF Past
<1>5. \A e \in Entities : Home(e) \in Chunks /\ Home(e)' = Home(e)
  BY <1>1, WorldIs, WorldSame
<1>6. /\ bin' \in Contexts /\ RootRight(bin')
      /\ \A e \in Entities : DrivenByPlayer(e) /\ Past(Home(e)) => bin'.root = e
      /\ bin'.shoulder \in {None, world.shoulder}
      /\ \A c \in Chunks : Past(c) /\ Shouldered(c) => bin'.shoulder = world.shoulder
  BY <1>1, MergedBin
<1>7. /\ Make(bin') \in Contexts /\ Make(bin').leashed = {} /\ Make(bin').knots = {}
      /\ Make(bin').root = bin'.root /\ Make(bin').held = bin'.held /\ Make(bin').shoulder = None
  BY <1>6, MakeIs
<1>8. CurrentInv'
  BY <1>3 DEF CurrentInv
<1>9. PastInv'
  BY <1>1, <1>2, <1>4, PastKept DEF GoodInv
<1>10. FileInv'
  BY <1>1, <1>3, <1>4, FileKept DEF GoodInv
<1>11. RootInv'
  <2>1. RootRight(bin)' /\ RootRight(total)' /\ \A w \in Workers : RootRight(sum[w])'
    BY <1>1, <1>4, <1>6, <1>7, RootRightKept
  <2>2. RootsRight'
    BY <1>3, <2>1 DEF RootsRight
  <2>3. \A e \in Entities : DrivenByPlayer(e)' /\ Past(Home(e))' => bin'.root = e
    BY <1>1, <1>4, <1>5, <1>6, WorldSame
  <2>. QED  BY <2>2, <2>3 DEF RootInv
<1>12. ShoulderInv'
  <2>1. ShouldersRight
    BY DEF GoodInv, ShoulderInv
  <2>2. ShouldersRight'
    BY <1>1, <1>6, <1>7, <2>1 DEF ShouldersRight
  <2>3. \A c \in Chunks : Past(c)' /\ Shouldered(c)' => bin'.shoulder = world'.shoulder
    BY <1>1, <1>4, <1>6, WorldSame
  <2>. QED  BY <1>3, <2>2, <2>3 DEF ShoulderInv
<1>13. KnotInv'
  <2>1. world'.knot \in Chunks
    BY <1>1, WorldIs
  <2>2. ~(Past(world.knot)' /\ DimOf(world.knot)' = dim')
    BY <1>1, <1>2, <1>4, <2>1
  <2>. QED  BY <1>3, <2>2 DEF KnotInv
<1>14. LeadInv'
  <2>1. \A e \in Entities : (Leads(e)' <=> Leads(e)) /\ (InTurn(e)' <=> InTurn(e))
    BY <1>1, WorldSame
  <2>2. ASSUME NEW e \in Entities, Leads(e)', ~Past(Home(e))' PROVE tie'[e] = "uuid"
    <3>1. Leads(e) /\ ~Past(Home(e))
      BY <1>4, <1>5, <2>1, <2>2
    <3>2. tie[e] = "uuid" /\ e \notin TiedAcross
      BY <1>1, <3>1, TiedAcrossIs DEF GoodInv, LeadInv
    <3>. QED  BY <1>1, <3>2
  <2>3. ASSUME NEW e \in Entities, Leads(e)', Past(Home(e))'
        PROVE  /\ tie'[e] = "knot" <=> \/ InTurn(e)'
                                       \/ world'.reaches /\ (DimOf(Home(e)') < dim' \/ result' # None)
               /\ DimOf(Home(e)') # dim'
    <3>1. Leads(e) /\ Past(Home(e)) /\ DimOf(Home(e)) < dim' /\ DimOf(Home(e)) \in Nat
      BY <1>4, <1>5, <2>1, <2>3
    <3>2. e \in TiedAcross \/ tie[e] = "knot" <=> InTurn(e) \/ world.reaches
      BY <1>1, <3>1, TiedAcrossIs
    <3>3. tie'[e] = "knot" <=> InTurn(e)' \/ world'.reaches
      BY <1>1, <2>1, <3>2
    <3>. QED  BY <1>1, <1>2, <1>5, <3>1, <3>3
  <2>. QED  BY <1>1, <2>2, <2>3 DEF LeadInv
<1>15. EndInv'
  BY <1>1, NamesAssumption DEF EndInv
<1>. QED  BY <1>8, <1>9, <1>10, <1>11, <1>12, <1>13, <1>14, <1>15 DEF GoodInv

LEMMA FinishKeeps ==
  ASSUME TypeInv, TypeInv', OwnInv, PhaseInv, GoodInv, Good', Finish
  PROVE  GoodInv'
<1>. USE DEF dimVars, chunkVars, endVars
<1>1. /\ world' = world /\ riders' = riders /\ dim' = dim /\ pc' = pc /\ at' = at /\ region' = region
      /\ visits' = visits /\ claimed' = claimed /\ file' = file /\ ctx' = ctx /\ sum' = sum
      /\ total' = total /\ editor' = editor
      /\ AllLeft /\ result = None /\ dim = Len(Dims)
      /\ tie' = [e \in Entities |-> IF e \in TiedAcross THEN "knot" ELSE tie[e]]
      /\ bin' = MergeInto(total, bin)
  BY DEF Finish
<1>2. result' = "ok" /\ player' = [vehicle |-> DrainRootVehicle(bin'), shoulder |-> bin'.shoulder]
  BY DEF Finish, Good
<1>3. /\ \A c \in Chunks : Past(c) <=> DimOf(c) <= dim
      /\ Pending = {total}
      /\ \A w \in Workers : ~Active(w) /\ pc[w] = "left" /\ \A c : ~Current(w, c)
  BY <1>1, AllPast
<1>4. \A w \in Workers : ~Active(w)' /\ \A c \in Chunks : ~Current(w, c)'
  BY <1>1, <1>3 DEF Active, Current
<1>5. /\ \A c \in Chunks : Past(c)' <=> Past(c)
      /\ \A p : Written(p)' <=> Written(p)
      /\ Pending' = Pending
  BY <1>1, <1>3, <1>4 DEF Past, Written, Pending
<1>6. \A c \in Chunks : Past(c)
  BY <1>1, <1>3, PlaceOf, DimLengths
<1>7. \A e \in Entities : Home(e) \in Chunks /\ Home(e)' = Home(e)
  BY <1>1, WorldIs, WorldSame
<1>8. /\ bin' \in Contexts /\ RootRight(bin')
      /\ \A e \in Entities : DrivenByPlayer(e) => bin'.root = e
      /\ bin'.shoulder \in {None, world.shoulder}
      /\ \A c \in Chunks : Shouldered(c) => bin'.shoulder = world.shoulder
  BY <1>1, <1>6, <1>7, MergedBin
<1>9. CurrentInv'
  BY <1>4 DEF CurrentInv
<1>10. PastInv'
  BY <1>1, <1>3, <1>5, PastKept DEF GoodInv
<1>11. FileInv'
  BY <1>1, <1>5, FileKept DEF GoodInv
<1>12. RootInv'
  <2>1. \A y \in Contexts : RootRight(y) => RootRight(y)'
    BY <1>1, <1>5, RootRightKept
  <2>2. RootRight(bin)' /\ RootRight(total)' /\ \A w \in Workers : RootRight(sum[w])'
    BY <1>1, <1>8, <2>1 DEF GoodInv, RootInv, RootsRight, TypeInv
  <2>3. RootsRight'
    BY <1>4, <2>2 DEF RootsRight
  <2>4. \A e \in Entities : DrivenByPlayer(e)' => bin'.root = e
    BY <1>1, <1>8, WorldSame
  <2>. QED  BY <2>3, <2>4 DEF RootInv
<1>13. ShoulderInv'
  <2>1. ShouldersRight
    BY DEF GoodInv, ShoulderInv
  <2>2. ShouldersRight'
    BY <1>1, <1>8, <2>1 DEF ShouldersRight
  <2>3. \A c \in Chunks : Shouldered(c)' => bin'.shoulder = world'.shoulder
    BY <1>1, <1>8, WorldSame
  <2>. QED  BY <1>4, <2>2, <2>3 DEF ShoulderInv
<1>14. KnotInv'
  <2>1. KnotInv /\ world.knot \in Chunks
    BY WorldIs DEF GoodInv
  <2>. QED  BY <1>1, <1>4, <1>5, <2>1 DEF KnotInv
<1>15. LeadInv'
  <2>1. LeadInv /\ None # "ok"
    BY NamesAssumption DEF GoodInv
  <2>2. \A e \in Entities : (Leads(e)' <=> Leads(e)) /\ (InTurn(e)' <=> InTurn(e))
    BY <1>1, WorldSame
  <2>3. ASSUME NEW e \in Entities, Leads(e)'
        PROVE  /\ Past(Home(e))'
               /\ tie'[e] = "knot" <=> InTurn(e)' \/ world'.reaches
               /\ ~InTurn(e)' /\ DimOf(Home(e)') = dim' => \E x \in Pending' : e \in x.leashed
    <3>1. Leads(e) /\ Past(Home(e)) /\ Past(Home(e))'
      BY <1>5, <1>6, <1>7, <2>2, <2>3
    <3>2. e \in TiedAcross \/ tie[e] = "knot" <=> InTurn(e) \/ world.reaches
      BY <1>1, <3>1, TiedAcrossIs
    <3>3. tie'[e] = "knot" <=> InTurn(e)' \/ world'.reaches
      BY <1>1, <2>2, <3>2
    <3>4. ~InTurn(e)' /\ DimOf(Home(e)') = dim' => \E x \in Pending' : e \in x.leashed
      BY <1>1, <1>5, <1>7, <2>1, <2>2, <3>1 DEF LeadInv
    <3>. QED  BY <3>1, <3>3, <3>4
  <2>4. \A w \in Workers : pc'[w] # "attach"
    BY <1>1, <1>3
  <2>. QED  BY <1>2, <2>1, <2>3, <2>4 DEF LeadInv
<1>16. EndInv'
  <2>1. bin'.shoulder = world'.shoulder
    <3>1. CASE world.shoulder \in Entities
      <4>1. Shouldered(Home(world.shoulder)) /\ Home(world.shoulder) \in Chunks
        BY <1>7, <3>1 DEF Shouldered, Home
      <4>. QED  BY <1>1, <1>8, <4>1
    <3>2. CASE world.shoulder \notin Entities
      BY <1>1, <1>8, <3>2, WorldIs
    <3>. QED  BY <3>1, <3>2
  <2>2. \A e \in Entities : DrivenByPlayer(e)' => bin'.root = e
    BY <1>1, <1>8, WorldSame
  <2>3. DrainRootVehicle(bin)' = DrainRootVehicle(bin')
    BY DEF DrainRootVehicle
  <2>. QED  BY <1>2, <2>1, <2>2, <2>3 DEF EndInv
<1>. QED  BY <1>9, <1>10, <1>11, <1>12, <1>13, <1>14, <1>15, <1>16 DEF GoodInv

-----------------------------------------------------------------------------
(* The invariant *)

LEMMA NextGood ==
  ASSUME TypeInv, TypeInv', OwnInv, PhaseInv, GoodInv, Good, Good', [Next]_vars
  PROVE  GoodInv'
<1>1. ASSUME NEW w \in Workers, Take(w) PROVE GoodInv'
  BY <1>1, TakeKeeps
<1>2. ASSUME NEW w \in Workers, ReadChunk(w) PROVE GoodInv'
  BY <1>2, ReadKeeps
<1>3. ASSUME NEW w \in Workers, NEW v \in Entities, SeatPassengers(w, v) PROVE GoodInv'
  BY <1>3, SeatKeeps
<1>4. ASSUME NEW w \in Workers, FinishChunk(w) PROVE GoodInv'
  BY <1>4, FinishChunkKeeps
<1>5. ASSUME NEW w \in Workers, WriteRegion(w) PROVE GoodInv'
  BY <1>5, WriteKeeps
<1>6. ASSUME NEW w \in Workers, FailRegion(w) PROVE FALSE
  BY <1>6 DEF FailRegion, Good
<1>7. ASSUME NEW w \in Workers, JoinTotal(w) PROVE GoodInv'
  BY <1>7, JoinKeeps
<1>8. ASSUME StopWorld PROVE FALSE
  BY <1>8 DEF StopWorld, Good
<1>9. CASE NextDimension
  BY <1>9, DimensionKeeps
<1>10. CASE Finish
  BY <1>10, FinishKeeps
<1>11. CASE UNCHANGED vars
  BY <1>11, StutterKeeps
<1>. QED  BY <1>1, <1>2, <1>3, <1>4, <1>5, <1>6, <1>7, <1>8, <1>9, <1>10, <1>11 DEF Next, Done

LEMMA NextInv ==
  IInv /\ [Next]_vars => IInv'
<1>. SUFFICES ASSUME IInv, [Next]_vars PROVE IInv'
  OBVIOUS
<1>1. TypeInv /\ OwnInv /\ PhaseInv /\ (Good => GoodInv)
  BY DEF IInv
<1>2. TypeInv' /\ OwnInv' /\ PhaseInv'
  BY <1>1, NextTypes, NextOwn, NextPhase
<1>3. ASSUME Good' PROVE GoodInv'
  BY <1>1, <1>2, <1>3, GoodBefore, NextGood
<1>. QED  BY <1>2, <1>3 DEF IInv

\* The types, who owns which region and, as long as no region has failed, where
\* every entity, seat, lead and note of a Context is, in every reachable state.
THEOREM Invariance == Spec => []IInv
BY InitInv, NextInv, PTL DEF Spec

-----------------------------------------------------------------------------
(* What Ok means *)

\* When Run answers ok.
LEMMA AtOk ==
  ASSUME IInv, result = "ok"
  PROVE  /\ TypeInv /\ GoodInv
         /\ \A e \in Entities : Past(Home(e))
         /\ \A p : Written(p) <=> p \in file
         /\ \A e \in Entities : player.vehicle = e <=> Taken(e)
         /\ player.shoulder = world.shoulder
<1>1. /\ TypeInv /\ PhaseInv /\ GoodInv /\ AllLeft /\ dim = Len(Dims)
  BY NamesAssumption DEF IInv, PhaseInv
<1>2. /\ \A c \in Chunks : Past(c) <=> DimOf(c) <= dim
      /\ \A p : Written(p) <=> p \in file
  BY <1>1, AllPast
<1>3. \A e \in Entities : Past(Home(e))
  BY <1>1, <1>2, WorldIs, PlaceOf, DimLengths
<1>4. /\ \A e \in Entities : DrivenByPlayer(e) => bin.root = e
      /\ player.vehicle = IF bin.held THEN bin.root ELSE None
      /\ player.shoulder = world.shoulder
  BY <1>1 DEF GoodInv, EndInv, DrainRootVehicle
<1>5. RootRight(bin)
  BY <1>1 DEF GoodInv, RootInv, RootsRight
<1>6. ASSUME NEW e \in Entities PROVE player.vehicle = e <=> Taken(e)
  <2>1. e # None
    BY NamesAssumption
  <2>2. Taken(e) => bin.root = e
    BY <1>4 DEF Taken
  <2>. QED  BY <1>4, <1>5, <2>1, <2>2 DEF RootRight
<1>. QED  BY <1>1, <1>2, <1>3, <1>4, <1>6

LEMMA OnePlaceAtOk ==
  ASSUME IInv, result = "ok"
  PROVE  OnePlace
<1>. SUFFICES ASSUME NEW e \in Entities
              PROVE  \/ /\ Cardinality(Places(e)) = 1
                        /\ Places(e) \subseteq {<<"chunk", Home(e)>>, <<"carries", Player>>, <<"sits on", Player>>}
                              \cup {<<"rides", v>> : v \in {u \in Entities : e \in Carries(u)}}
                     \/ DrivenByPlayer(e) /\ ~InOneChunk(e) /\ Places(e) = {}
  BY DEF OnePlace, Home
<1>1. /\ TypeInv /\ GoodInv /\ Past(Home(e)) /\ e # None
      /\ \A p : Written(p) <=> p \in file
      /\ player.vehicle = e <=> Taken(e)
      /\ player.shoulder = world.shoulder
  BY AtOk, NamesAssumption
<1>2. /\ <<Home(e), e>> \in file <=> e # world.shoulder /\ ~Seated(e) /\ ~DrivenByPlayer(e)
      /\ \A p \in file : p[2] = e => p[1] = Home(e) /\ p = <<Home(e), e>>
  BY <1>1 DEF GoodInv, FileInv, TypeInv
<1>3. /\ \A u, v \in Entities : (\E i \in riders[u] : Links(u)[i] = e) /\ (\E i \in riders[v] : Links(v)[i] = e) => u = v
      /\ \A v \in Entities : (\E i \in riders[v] : Links(v)[i] = e) => e \in Carries(v) /\ e # world.shoulder
  <2>1. \A v \in Entities : \A i \in riders[v] : i \in DOMAIN Links(v) /\ Links(v)[i] \in Came(Home(v))
    BY <1>1 DEF GoodInv, PastInv, Filled
  <2>. QED  BY <1>1, <2>1, WorldIs, CameIs DEF Carries, Range
<1>. DEFINE chunk == {<<"chunk", p[1]>> : p \in {q \in file : q[2] = e}}
            seat == {<<"rides", v>> : v \in {u \in Entities : \E i \in riders[u] : Links(u)[i] = e}}
            drive == IF player.vehicle = e THEN {<<"carries", Player>>} ELSE {}
            sit == IF player.shoulder = e THEN {<<"sits on", Player>>} ELSE {}
<1>4. Places(e) = chunk \cup seat \cup drive \cup sit
  BY DEF Places
<1>5. chunk = IF e # world.shoulder /\ ~Seated(e) /\ ~DrivenByPlayer(e) THEN {<<"chunk", Home(e)>>} ELSE {}
  BY <1>2
<1>6. (~Seated(e) => seat = {}) /\ (Seated(e) => e # world.shoulder)
  BY <1>3 DEF Seated
<1>7. drive = (IF Taken(e) THEN {<<"carries", Player>>} ELSE {})
      /\ sit = (IF world.shoulder = e THEN {<<"sits on", Player>>} ELSE {})
  BY <1>1
<1>8. DrivenByPlayer(e) => e # world.shoulder
  BY DEF DrivenByPlayer
<1>9. \A x : Cardinality({x}) = 1
  BY FS_Singleton
<1>. HIDE DEF chunk, seat, drive, sit
<1>10. CASE e = world.shoulder
  <2>1. Places(e) = {<<"sits on", Player>>}
    BY <1>4, <1>5, <1>6, <1>7, <1>8, <1>10 DEF Taken
  <2>. QED  BY <1>9, <2>1
<1>11. CASE Seated(e)
  <2>1. PICK v \in Entities : \E i \in riders[v] : Links(v)[i] = e
    BY <1>11 DEF Seated
  <2>2. seat = {<<"rides", v>>} /\ e \in Carries(v)
    BY <1>3, <2>1 DEF seat
  <2>3. Places(e) = {<<"rides", v>>}
    BY <1>4, <1>5, <1>6, <1>7, <1>11, <2>2 DEF Taken
  <2>. QED  BY <1>9, <2>2, <2>3
<1>12. CASE Taken(e)
  <2>1. Places(e) = {<<"carries", Player>>}
    BY <1>4, <1>5, <1>6, <1>7, <1>8, <1>12 DEF Taken
  <2>. QED  BY <1>9, <2>1
<1>13. CASE DrivenByPlayer(e) /\ ~InOneChunk(e) /\ ~Seated(e)
  BY <1>4, <1>5, <1>6, <1>7, <1>8, <1>13 DEF Taken
<1>14. CASE e # world.shoulder /\ ~Seated(e) /\ ~DrivenByPlayer(e)
  <2>1. Places(e) = {<<"chunk", Home(e)>>}
    BY <1>4, <1>5, <1>6, <1>7, <1>14 DEF Taken
  <2>. QED  BY <1>9, <2>1
<1>. QED  BY <1>10, <1>11, <1>12, <1>13, <1>14 DEF Taken

LEMMA SeatsAtOk ==
  ASSUME IInv, result = "ok"
  PROVE  SeatsKept
<1>. SUFFICES ASSUME NEW v \in Entities \ {world.shoulder}, ~Passenger(v)
              PROVE  riders[v] = {i \in DOMAIN Links(v) :
                       Links(v)[i] # Player /\ Together(v, Links(v)[i]) /\ Links(v)[i] # player.vehicle}
  BY DEF SeatsKept
<1>1. /\ TypeInv /\ GoodInv /\ Past(Home(v))
      /\ \A e \in Entities : player.vehicle = e <=> Taken(e)
  BY AtOk
<1>2. riders[v] = {i \in Filled(v, None) : ~Taken(Links(v)[i])}
  BY <1>1 DEF GoodInv, PastInv
<1>3. ASSUME NEW i \in DOMAIN Links(v)
      PROVE  i \in Filled(v, None) /\ ~Taken(Links(v)[i]) <=>
               Links(v)[i] # Player /\ Together(v, Links(v)[i]) /\ Links(v)[i] # player.vehicle
  <2>1. Links(v)[i] \in Entities \cup {Player}
    BY <1>1, WorldIs
  <2>2. CASE Links(v)[i] = Player
    BY <2>2, CameIs, NamesAssumption DEF Filled
  <2>3. CASE Links(v)[i] \in Entities
    <3>1. Together(v, Links(v)[i]) <=> Links(v)[i] \in Came(Home(v))
      BY <1>1, <2>3, RidesIs
    <3>. QED  BY <1>1, <2>3, <3>1, NamesAssumption DEF Filled
  <2>. QED  BY <2>1, <2>2, <2>3
<1>4. Filled(v, None) \subseteq DOMAIN Links(v)
  BY DEF Filled
<1>. QED  BY <1>2, <1>3, <1>4

LEMMA PlayerAtOk ==
  ASSUME IInv, result = "ok"
  PROVE  PlayerComplete
<1>1. /\ TypeInv /\ PastInv
      /\ \A e \in Entities : player.vehicle = e <=> Taken(e)
      /\ player.shoulder = world.shoulder
  BY AtOk DEF GoodInv
<1>. QED  BY <1>1, SeatedIs DEF PlayerComplete, Taken

LEMMA LeadsAtOk ==
  ASSUME IInv, result = "ok"
  PROVE  LeadsTied
<1>1. /\ TypeInv /\ LeadInv
      /\ \A e \in Entities : Past(Home(e))
  BY AtOk DEF GoodInv
<1>2. ASSUME NEW e \in Entities, Leads(e) PROVE tie[e] = "knot" <=> InTurn(e) \/ world.reaches
  BY <1>1, <1>2, NamesAssumption DEF LeadInv
<1>3. world.leashed \subseteq Entities
  BY <1>1, WorldIs
<1>. QED  BY <1>2, <1>3 DEF LeadsTied, Leads, InTurn, Home, DimOf

\* Whichever worker converts which region when, and in whatever order the hash
\* tables give the vehicles: when Run answers ok, no entity is lost or doubled,
\* the seats are filled, the player has what belongs to the player, and the
\* leads the conversion can know are tied.
THEOREM EntitiesKeptHolds == Spec => []EntitiesKept
<1>1. IInv => EntitiesKept
  BY OnePlaceAtOk, SeatsAtOk, PlayerAtOk, LeadsAtOk DEF EntitiesKept
<1>. QED  BY <1>1, Invariance, PTL

=============================================================================
