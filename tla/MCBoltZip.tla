------------------------------ MODULE MCBoltZip ------------------------------
(* Listings of up to three files, in the order of `sort -n`, whose names and *)
(* sizes put the data of a large file just before, on and just after a       *)
(* boundary.  The 32-bit fields are scaled down to less than two large files *)
(* and less than the largest one: offsets, sizes and the start of the        *)
(* directory all pass their range in some listings and not in others.        *)
EXTENDS BoltZip

MCFiles == [namelen : {5, 71}, size : {0, 4026, 4027, 4030, 100000}]
           \cup [namelen : {1, 66, 71}, size : {100001, 102397, 210000}]

MCFileLists ==
  {<<>>} \cup
  UNION {{l \in [1..n -> MCFiles] : \A k \in 1..(n - 1) : l[k].size <= l[k + 1].size} : n \in 1..3}
MCOffsetLimit == 200000
=============================================================================
