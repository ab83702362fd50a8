------------------------------ MODULE MCTuning ------------------------------
(***************************************************************************)
(* Instance of Tuning for TLC: grids with steps that share no factor with  *)
(* the reference, and the boundaries of every table.                       *)
(***************************************************************************)
EXTENDS Tuning

Grid(from, to, step) == {from + step * k : k \in 0..(to - from) \div step}
Around(points) == UNION {p - 1..p + 1 : p \in points}

SomePpms == {-71, 0, 250}
SomeRates == Grid(226001, 3200000, 9973)
             \cup {450000, 450001} \cup Around({225000, 300000, 900000, 2000000, 2050000, 2051000, 2081000, 2431000, 3200000})
AllOfR820t == Grid(24000, 1766000, 1009)
              \cup Around({25656, 27656, 51742, 107055, 217680, 438930, 881430}) \cup {0, 1766000, 4290000}
AllOfFc0012 == Grid(22000, 948600, 331) \cup Around({13425, 31875, 47812, 63750, 95625, 765000})
               \cup {0, 224, 225, 300, 948599, 948600, 1700000, 1812599, 1812600, 1820000, 4290000}
=============================================================================
