------------------------- MODULE FrameEncoderProofs -------------------------
(***************************************************************************)
(* The one-shot encoders for every input, dictionary, window, number of    *)
(* threads and choice of matches: the work is divided evenly, and the      *)
(* frame decodes to the input.                                             *)
(*                                                                         *)
(* The invariant follows the decoder through the blocks while they are     *)
(* written: where in the input it stands before each one, and which tables *)
(* it holds (Run).  A worker's blocks are a run from the start of its      *)
(* segment that assumes no tables; joined runs are a run, because a run    *)
(* that assumes no tables works with any.                                  *)
(***************************************************************************)
EXTENDS FrameEncoder, DataLemmas

(* The products i * len of compress_parallel do not wrap.  With 64-bit     *)
(* lengths and at most 256 jobs they cannot.                               *)
SeamsExact == \A d \in Datas : MaxJobs * Len(d) < Usize

-----------------------------------------------------------------------------
(* The arguments of a call.                                                *)
Arguments ==
  /\ data \in Datas /\ dict \in Dicts \cup {<<>>} /\ structured \in BOOLEAN
  /\ entry # "dict" => dict = <<>> /\ structured = FALSE
  /\ max_offset \in Windows /\ Minimum(MaxBlockSize, Len(data)) <= max_offset
  /\ regular_reach \in 0..max_offset
  /\ n_jobs \in Nat /\ overlap_rlog \in 0..1

(* The constants are what they are in the code.                            *)
LEMMA Constants ==
  /\ Datas \subseteq Seq(Byte) /\ Dicts \subseteq Seq(Byte)
  /\ Windows \subseteq Nat \ {0} /\ MinJobSize \in Nat \ {0} /\ MaxJobs \in Nat \ {0}
  /\ Usize \in Nat \ {0} /\ MaxBlockSize \in Nat \ {0}
BY FrameEncoderAssumption, MaxBlockSizeAssumption, Zenon

(* The input, the dictionary and the two in a row.                         *)
LEMMA Lengths ==
  ASSUME Arguments
  PROVE  /\ data \in Seq(Byte) /\ dict \in Seq(Byte) /\ whole \in Seq(Byte)
         /\ Len(data) \in Nat /\ Len(dict) \in Nat /\ Len(whole) = Len(dict) + Len(data)
         /\ Len(whole) \in Nat /\ (data = <<>> <=> Len(data) = 0)
         /\ MaxBlockSize \in Nat \ {0} /\ max_offset \in Nat \ {0}
<1>1. data \in Seq(Byte) /\ dict \in Seq(Byte) /\ max_offset \in Nat \ {0}
  <2>1. data \in Seq(Byte) /\ max_offset \in Nat \ {0}
    BY Constants, Zenon DEF Arguments
  <2>2. dict \in Dicts \/ dict = <<>>
    BY Zenon DEF Arguments
  <2>3. <<>> \in Seq(Byte)
    OBVIOUS
  <2> QED BY <2>1, <2>2, <2>3, Constants, Zenon
<1>2. whole \in Seq(Byte) /\ Len(whole) = Len(dict) + Len(data)
  <2> HIDE DEF Byte
  <2> QED BY <1>1, ConcatProperties DEF whole
<1> QED
  BY <1>1, <1>2, Constants

-----------------------------------------------------------------------------
(* Dividing the work.                                                      *)

(* effective_jobs: at least one, at most MAX_JOBS, and as many segments of *)
(* MIN_JOB_SIZE as fit the input.                                          *)
LEMMA JobsFacts ==
  ASSUME Arguments
  PROVE  /\ effective_jobs \in 1..MaxJobs
         /\ effective_jobs > 1 => effective_jobs * MinJobSize <= Len(data)
<1> DEFINE n == Len(data)
           q == n \div MinJobSize
           by_size == IF q = 0 THEN 1 ELSE q
           most == Minimum(by_size, MaxJobs)
<1>1. n \in Nat /\ MinJobSize \in Nat \ {0} /\ MaxJobs \in Nat \ {0} /\ n_jobs \in Nat
  BY Lengths, Constants DEF Arguments
<1>2. q \in Nat /\ MinJobSize * q <= n
  <2> HIDE DEF n
  <2>1. q \in Nat /\ n = MinJobSize * q + (n % MinJobSize)
        /\ n % MinJobSize \in 0..MinJobSize - 1
    BY <1>1, DivMod
  <2> DEFINE r == n % MinJobSize
  <2> HIDE DEF q, r
  <2>2. MinJobSize * q \in Nat
    BY <1>1, <2>1, Z3
  <2>3. n = MinJobSize * q + r /\ r \in Nat
    BY <1>1, <2>1 DEF r
  <2> QED BY <2>1, <2>2, <2>3, <1>1
<1> HIDE DEF q, n
<1>3. by_size \in Nat \ {0} /\ most \in 1..MaxJobs /\ most <= by_size
  BY <1>1, <1>2 DEF Minimum
<1>4. effective_jobs = IF n_jobs < 1 THEN 1 ELSE Minimum(n_jobs, most)
  BY Zenon DEF effective_jobs, q, n
<1> HIDE DEF most, by_size
<1>5. effective_jobs \in 1..MaxJobs /\ (effective_jobs > 1 => effective_jobs <= by_size)
  BY <1>1, <1>3, <1>4 DEF Minimum
<1>6. ASSUME effective_jobs > 1 PROVE effective_jobs * MinJobSize <= n
  <2>1. by_size = q /\ effective_jobs <= q
    BY <1>2, <1>5, <1>6 DEF by_size
  <2>2. /\ MinJobSize * effective_jobs <= MinJobSize * q /\ MinJobSize * effective_jobs \in Nat
        /\ MinJobSize * effective_jobs = effective_jobs * MinJobSize /\ MinJobSize * q \in Nat
    <3>1. MinJobSize \in Nat /\ effective_jobs \in Nat
      BY <1>1, <1>5
    <3> QED BY <3>1, <2>1, <1>2, TimesMono
  <2> QED BY <1>1, <1>2, <2>2
<1> QED
  BY <1>5, <1>6 DEF n

(* A multiple of p between -p and 2 * p.                                   *)
LEMMA Bracket ==
  ASSUME NEW p \in Nat \ {0}, NEW x \in Int, -p < p * x, p * x < 2 * p
  PROVE  x \in {0, 1}
<1>1. ASSUME x <= -1 PROVE FALSE
  <2>1. p * (-1 - x) \in Nat
    BY <1>1, Z3
  <2>2. p * (-1 - x) = -p - p * x /\ p * x \in Int
    BY Z3
  <2> QED BY <2>1, <2>2
<1>2. ASSUME x >= 2 PROVE FALSE
  <2>1. p * (x - 2) \in Nat
    BY <1>2, Z3
  <2>2. p * (x - 2) = p * x - 2 * p /\ p * x \in Int
    BY Z3
  <2> QED BY <2>1, <2>2
<1> QED
  BY <1>1, <1>2

(* The seams as exact quotients.                                           *)
LEMMA SeamExact ==
  ASSUME Arguments, SeamsExact, NEW jobs \in 1..MaxJobs, NEW i \in 0..jobs
  PROVE  /\ Seam(i, jobs) \in Nat
         /\ \E r \in 0..jobs - 1 : i * Len(data) = jobs * Seam(i, jobs) + r
<1> DEFINE n == Len(data)
           a == i * n
<1>1. n \in Nat /\ MaxJobs \in Nat \ {0} /\ Usize \in Nat \ {0} /\ jobs \in Nat \ {0} /\ i \in Nat
  BY Lengths, Constants
<1>2. MaxJobs * n < Usize
  BY DEF SeamsExact, Arguments
<1> HIDE DEF n
<1>3. a \in Nat /\ a < Usize
  <2>1. i <= MaxJobs
    BY <1>1
  <2>2. n * i <= n * MaxJobs /\ n * i \in Nat /\ n * i = i * n /\ n * MaxJobs \in Nat
    BY <1>1, <2>1, TimesMono
  <2>3. n * MaxJobs = MaxJobs * n
    BY <1>1, TimesMono
  <2> QED BY <1>1, <1>2, <2>2, <2>3
<1> HIDE DEF a
<1>4. a % Usize = a
  BY <1>1, <1>3, Z3
<1>5. Seam(i, jobs) = a \div jobs
  BY <1>4, Zenon DEF Seam, a, n
<1> QED
  <2>1. /\ a \div jobs \in Nat /\ a % jobs \in 0..jobs - 1
        /\ a = jobs * (a \div jobs) + (a % jobs)
    BY <1>1, <1>3, DivMod
  <2> QED BY <1>5, <2>1, Zenon DEF a, n

(* compress_parallel's segments: from the front to the end of the input,   *)
(* each len / jobs bytes or one more.                                      *)
LEMMA SeamFacts ==
  ASSUME Arguments, SeamsExact, NEW jobs \in 1..MaxJobs
  PROVE  /\ Seam(0, jobs) = 0 /\ Seam(jobs, jobs) = Len(data)
         /\ \A i \in 0..jobs - 1 :
              Seam(i + 1, jobs) - Seam(i, jobs)
                \in {Len(data) \div jobs, Len(data) \div jobs + 1}
<1> DEFINE n == Len(data)
           q == n \div jobs
<1>1. n \in Nat /\ jobs \in Nat \ {0} /\ MaxJobs \in Nat
  BY Lengths, Constants
<1>2. q \in Nat /\ n = jobs * q + (n % jobs) /\ n % jobs \in 0..jobs - 1
  BY <1>1, DivMod
<1>3. Seam(0, jobs) = 0
  <2>1. Seam(0, jobs) \in Nat /\ \E r \in 0..jobs - 1 : 0 * n = jobs * Seam(0, jobs) + r
    BY <1>1, SeamExact
  <2> DEFINE s == Seam(0, jobs)
  <2> HIDE DEF s, n
  <2>2. 0 * n = 0
    BY <1>1
  <2>3. PICK r \in 0..jobs - 1 : 0 = jobs * s + r
    BY <2>1, <2>2 DEF s
  <2>4. jobs * s \in Nat /\ (s > 0 => jobs * s > 0)
    BY <1>1, <2>1, Z3 DEF s
  <2>5. ~(s > 0)
    BY <2>3, <2>4, <1>1
  <2> QED BY <2>1, <2>5 DEF s
<1>4. Seam(jobs, jobs) = n
  <2> DEFINE s == Seam(jobs, jobs)
  <2>1. s \in Nat /\ \E r \in 0..jobs - 1 : jobs * n = jobs * s + r
    BY <1>1, SeamExact
  <2> HIDE DEF s, n
  <2>2. PICK r \in 0..jobs - 1 : jobs * n = jobs * s + r
    BY <2>1
  <2>3. jobs * (n - s) = r
    <3>1. jobs * (n - s) = jobs * n - jobs * s /\ jobs * n \in Int /\ jobs * s \in Int
      BY <1>1, <2>1, Z3
    <3> QED BY <3>1, <2>2, <1>1
  <2>4. n - s \in {0, 1}
    BY <1>1, <2>1, <2>3, Bracket
  <2>5. n - s = 1 => jobs * (n - s) = jobs
    BY <1>1
  <2> QED BY <1>1, <2>1, <2>3, <2>4, <2>5 DEF s
<1>5. ASSUME NEW i \in 0..jobs - 1
      PROVE  Seam(i + 1, jobs) - Seam(i, jobs) \in {q, q + 1}
  <2> DEFINE s == Seam(i, jobs)
             t == Seam(i + 1, jobs)
             x == t - s - q
  <2>1. /\ s \in Nat /\ \E r \in 0..jobs - 1 : i * n = jobs * s + r
        /\ t \in Nat /\ \E r \in 0..jobs - 1 : (i + 1) * n = jobs * t + r
    <3>1. i \in 0..jobs /\ i + 1 \in 0..jobs
      BY <1>1
    <3> QED BY <3>1, SeamExact
  <2> HIDE DEF s, t, n, q
  <2>2. PICK r \in 0..jobs - 1 : i * n = jobs * s + r
    BY <2>1
  <2>3. PICK u \in 0..jobs - 1 : (i + 1) * n = jobs * t + u
    BY <2>1
  <2> DEFINE v == n % jobs
  <2>4. n = jobs * q + v /\ v \in 0..jobs - 1
    BY <1>2
  <2> HIDE DEF v
  <2>5. jobs * x = r + v - u
    <3>1. (i + 1) * n = i * n + n /\ i * n \in Int
      BY <1>1, Z3
    <3>2. jobs * (t - s - q) = jobs * t - jobs * s - jobs * q
      BY <1>1, <1>2, <2>1, Z3
    <3>3. jobs * t \in Int /\ jobs * s \in Int /\ jobs * q \in Int
      BY <1>1, <1>2, <2>1, Z3
    <3> DEFINE jt == jobs * t
               js == jobs * s
               jq == jobs * q
               m == i * n
               k == (i + 1) * n
    <3>4. /\ jt \in Int /\ js \in Int /\ jq \in Int /\ m \in Int /\ k = m + n
          /\ m = js + r /\ k = jt + u /\ n = jq + v
      BY <2>2, <2>3, <2>4, <3>1, <3>3
    <3>5. jobs * x = jt - js - jq
      BY <3>2
    <3> HIDE DEF jt, js, jq, m, k, x
    <3> QED BY <1>1, <2>4, <3>4, <3>5
  <2>6. x \in Int
    BY <1>2, <2>1
  <2> HIDE DEF x
  <2>7. -jobs < jobs * x /\ jobs * x < 2 * jobs
    BY <1>1, <2>4, <2>5
  <2>8. x \in {0, 1}
    BY <1>1, <2>6, <2>7, Bracket
  <2>9. t - s \in {q, q + 1}
    BY <1>2, <2>1, <2>8 DEF x
  <2> QED BY <2>9 DEF s, t
<1> QED
  BY <1>3, <1>4, <1>5

(* A job of the plan, where its segment starts and how long it is.         *)
JobRecord == [lo : Nat, overlap : Nat, hi : Nat, is_last : BOOLEAN]
From(job) == job.lo + job.overlap
Length(job) == job.hi - From(job)

(* A job lies in whole behind the dictionary; the last one ends it.        *)
Part(job) ==
  /\ job \in JobRecord
  /\ Len(dict) <= From(job) /\ From(job) <= job.hi /\ job.hi <= Len(whole)
  /\ job.is_last = (job.hi = Len(whole))

(* The segments of several jobs.                                           *)
Shared(p) ==
  /\ dict = <<>> /\ structured = FALSE /\ data # <<>>
  /\ \A g \in 1..Len(p) : Length(p[g]) >= MinJobSize
  /\ \A g, h \in 1..Len(p) : Length(p[g]) <= Length(p[h]) + 1

Divided(p) ==
  /\ Len(p) \in 1..MaxJobs
  /\ \A g \in 1..Len(p) : Part(p[g])
  /\ From(p[1]) = Len(dict) /\ p[Len(p)].hi = Len(whole)
  /\ \A g \in 1..Len(p) - 1 : p[g].hi = From(p[g + 1])
  /\ Len(p) > 1 => Shared(p)

(* One job of compress_parallel.                                           *)
LEMMA JobPart ==
  ASSUME Arguments, SeamsExact, dict = <<>>, NEW jobs \in 2..MaxJobs,
         jobs * MinJobSize <= Len(data), NEW i \in 0..jobs - 1
  PROVE  /\ Part(Job(i, jobs))
         /\ From(Job(i, jobs)) = Seam(i, jobs) /\ Job(i, jobs).hi = Seam(i + 1, jobs)
         /\ Length(Job(i, jobs)) \in {Len(data) \div jobs, Len(data) \div jobs + 1}
         /\ Length(Job(i, jobs)) >= MinJobSize
<1> DEFINE n == Len(data)
           q == n \div jobs
           a == Seam(i, jobs)
           b == Seam(i + 1, jobs)
           o == IF i = 0 THEN 0 ELSE Minimum(a, overlap_bytes)
           job == [lo |-> a - o, overlap |-> o, hi |-> b, is_last |-> IsLast(i, jobs)]
<1>1. /\ n \in Nat /\ jobs \in Nat \ {0} /\ MinJobSize \in Nat \ {0} /\ MaxJobs \in Nat
      /\ Len(dict) = 0 /\ Len(whole) = n
  BY Lengths, Constants
<1>2. a \in Nat /\ b \in Nat /\ b - a \in {q, q + 1}
  <2>1. i \in 0..jobs /\ i + 1 \in 0..jobs /\ jobs \in 1..MaxJobs
    BY <1>1
  <2> QED BY <2>1, SeamExact, SeamFacts
<1>3. q \in Nat /\ q >= MinJobSize
  <2>1. q \in Nat /\ n = jobs * q + (n % jobs) /\ n % jobs \in 0..jobs - 1
    BY <1>1, DivMod
  <2> DEFINE r == n % jobs
  <2>2. r \in 0..jobs - 1 /\ n = jobs * q + r
    BY <2>1
  <2> HIDE DEF r, q, n
  <2>3. ASSUME q + 1 <= MinJobSize PROVE FALSE
    <3>1. /\ jobs * (q + 1) <= jobs * MinJobSize /\ jobs * (q + 1) \in Nat
          /\ jobs * MinJobSize \in Nat
      BY <1>1, <2>1, <2>3, TimesMono
    <3>2. jobs * (q + 1) = jobs * q + jobs /\ jobs * q \in Int
      BY <1>1, <2>1, Z3
    <3>3. jobs * MinJobSize <= n
      BY DEF n
    <3> QED BY <1>1, <2>2, <3>1, <3>2, <3>3
  <2> QED BY <1>1, <2>1, <2>3
<1>4. overlap_bytes \in Nat
  <2>1. max_offset \in Nat /\ overlap_rlog \in 0..1
    BY Lengths DEF Arguments
  <2>2. <<1, 2, 4, 8>>[overlap_rlog + 1] \in {1, 2}
    <3>1. overlap_rlog = 0 \/ overlap_rlog = 1
      BY <2>1
    <3> QED BY <3>1
  <2> DEFINE d == <<1, 2, 4, 8>>[overlap_rlog + 1]
  <2>3. d \in Nat \ {0}
    BY <2>2
  <2>4. overlap_bytes = max_offset \div d
    BY DEF overlap_bytes
  <2> HIDE DEF d
  <2> QED BY <2>1, <2>3, <2>4, DivMod
<1>5. o \in Nat /\ o <= a
  BY <1>2, <1>4 DEF Minimum
<1>6. Job(i, jobs) = job
  BY Zenon DEF Job
<1>7. (a - o) \in Nat /\ (a - o) + o = a
  BY <1>2, <1>5
<1>8. b <= n /\ (IsLast(i, jobs) = (b = n)) /\ IsLast(i, jobs) \in BOOLEAN
  <2>1. i = jobs - 1 => b = n
    <3>1. i = jobs - 1 => i + 1 = jobs
      BY <1>1
    <3>2. jobs \in 1..MaxJobs
      BY <1>1
    <3>3. Seam(jobs, jobs) = n
      BY <3>2, SeamFacts
    <3> QED BY <3>1, <3>3
  <2>2. ASSUME i # jobs - 1 PROVE b < n
    <3>1. i + 1 \in 0..jobs /\ jobs - (i + 1) \in Nat /\ i + 1 <= jobs - 1 /\ i + 1 \in Nat
      BY <1>1, <2>2
    <3>2. PICK r \in 0..jobs - 1 : (i + 1) * n = jobs * b + r
      BY <1>1, <3>1, SeamExact
    <3> HIDE DEF n, b
    <3> DEFINE k == i + 1
    <3>3. k \in Nat /\ k + 1 <= jobs /\ k * n = jobs * b + r /\ b \in Nat
      BY <1>1, <1>2, <3>1, <3>2
    <3> HIDE DEF k
    <3>4. n * (k + 1) <= n * jobs /\ n * (k + 1) \in Nat /\ n * jobs \in Nat
      BY <1>1, <3>3, TimesMono
    <3>5. n * (k + 1) = k * n + n /\ n * jobs = jobs * n /\ k * n \in Int
      BY <1>1, <3>3, Z3
    <3>6. n > 0
      <4>1. jobs * MinJobSize > 0
        BY <1>1, Z3
      <4> QED BY <4>1, <1>1, Z3 DEF n
    <3>7. b >= n => jobs * n <= jobs * b /\ jobs * b \in Nat /\ jobs * n \in Nat
      BY <1>1, <3>3, TimesMono
    <3> QED BY <1>1, <3>3, <3>4, <3>5, <3>6, <3>7
  <2>3. IsLast(i, jobs) = (i = jobs - 1)
    BY DEF IsLast
  <2> QED BY <1>1, <1>2, <2>1, <2>2, <2>3
<1> HIDE DEF a, b, o, n, q
<1>9. job \in JobRecord /\ job.lo = a - o /\ job.overlap = o /\ job.hi = b
      /\ job.is_last = IsLast(i, jobs)
  BY <1>2, <1>5, <1>7, <1>8 DEF JobRecord
<1> HIDE DEF job
<1>10. From(job) = a /\ Length(job) = b - a
  BY <1>7, <1>9 DEF From, Length
<1>11. Length(job) \in {q, q + 1} /\ Length(job) >= MinJobSize /\ a <= b
  BY <1>1, <1>2, <1>3, <1>10
<1>12. Part(job)
  BY <1>1, <1>2, <1>8, <1>9, <1>10, <1>11 DEF Part
<1>13. Part(job) /\ From(job) = a /\ job.hi = b /\ Length(job) \in {q, q + 1}
       /\ Length(job) >= MinJobSize
  BY <1>9, <1>10, <1>11, <1>12
<1> QED
  BY <1>6, <1>13, Zenon DEF a, b, n, q

(* The plan, whatever the entry point.                                     *)
LEMMA PlanDivides ==
  ASSUME Arguments, SeamsExact, NEW jobs,
         jobs = IF entry = "parallel" THEN effective_jobs ELSE 1,
         NEW p, p = IF jobs <= 1 THEN <<SerialJob>> ELSE [g \in 1..jobs |-> Job(g - 1, jobs)]
  PROVE  Divided(p) /\ Len(p) = jobs
<1>1. jobs \in 1..MaxJobs /\ jobs \in Nat /\ MaxJobs \in Nat \ {0} /\ MinJobSize \in Nat \ {0}
  BY JobsFacts, Constants
<1>2. CASE jobs = 1
  <2>1. p = <<SerialJob>>
    BY <1>1, <1>2
  <2>2. Len(p) = 1 /\ p[1] = SerialJob
    <3>1. \A x : Len(<<x>>) = 1 /\ <<x>>[1] = x
      OBVIOUS
    <3> QED BY <2>1, <3>1, Zenon
  <2>3. /\ SerialJob.lo = 0 /\ SerialJob.overlap = Len(dict) /\ SerialJob.hi = Len(whole)
        /\ SerialJob.is_last = TRUE /\ SerialJob \in JobRecord
    BY Lengths DEF SerialJob, JobRecord
  <2>4. From(SerialJob) = Len(dict) /\ Part(SerialJob)
    <3>1. From(SerialJob) = Len(dict) /\ Len(dict) <= Len(whole)
      <4>1. 0 + Len(dict) = Len(dict)
        BY Lengths
      <4>2. From(SerialJob) = 0 + Len(dict)
        BY <2>3, Zenon DEF From
      <4> QED BY <4>1, <4>2, Lengths
    <3>2. SerialJob.is_last = (SerialJob.hi = Len(whole))
      BY <2>3, Zenon
    <3> QED BY <2>3, <3>1, <3>2, Lengths DEF Part
  <2> QED BY <1>1, <1>2, <2>2, <2>3, <2>4 DEF Divided
<1>3. CASE jobs # 1
  <2>1. p = [g \in 1..jobs |-> Job(g - 1, jobs)] /\ Len(p) = jobs
    BY <1>1, <1>3
  <2>2. /\ entry = "parallel" /\ jobs = effective_jobs /\ jobs \in 2..MaxJobs
        /\ dict = <<>> /\ structured = FALSE
    BY <1>1, <1>3 DEF Arguments
  <2>3. jobs * MinJobSize <= Len(data)
    BY <2>2, JobsFacts
  <2>4. data # <<>>
    <3>1. jobs * MinJobSize > 0 /\ jobs * MinJobSize \in Nat
      BY <1>1, Z3
    <3> QED BY <2>3, <3>1, Lengths
  <2>5. ASSUME NEW g \in 1..jobs
        PROVE  /\ Part(p[g]) /\ From(p[g]) = Seam(g - 1, jobs) /\ p[g].hi = Seam(g, jobs)
               /\ Length(p[g]) \in {Len(data) \div jobs, Len(data) \div jobs + 1}
               /\ Length(p[g]) >= MinJobSize
    <3>1. g - 1 \in 0..jobs - 1 /\ (g - 1) + 1 = g
      BY <1>1
    <3>2. p[g] = Job(g - 1, jobs)
      BY <2>1
    <3> QED BY <2>2, <2>3, <3>1, <3>2, JobPart
  <2>6. Seam(0, jobs) = 0 /\ Seam(jobs, jobs) = Len(data)
    BY <1>1, SeamFacts
  <2>7. From(p[1]) = Len(dict) /\ p[jobs].hi = Len(whole)
    <3>1. 1 \in 1..jobs /\ jobs \in 1..jobs /\ 1 - 1 = 0
      BY <1>1
    <3> QED BY <2>2, <2>5, <2>6, <3>1, Lengths
  <2>8. ASSUME NEW g \in 1..jobs - 1 PROVE p[g].hi = From(p[g + 1])
    <3>1. g \in 1..jobs /\ g + 1 \in 1..jobs /\ (g + 1) - 1 = g
      BY <1>1
    <3>2. p[g].hi = Seam(g, jobs) /\ From(p[g + 1]) = Seam((g + 1) - 1, jobs)
      BY <2>5, <3>1, Zenon
    <3> QED BY <3>1, <3>2, Zenon
  <2>9. ASSUME NEW g \in 1..jobs, NEW h \in 1..jobs
        PROVE  Length(p[g]) <= Length(p[h]) + 1
    <3> DEFINE q == Len(data) \div jobs
    <3>1. q \in Nat
      BY <1>1, Lengths, DivMod
    <3>2. Length(p[g]) \in {q, q + 1} /\ Length(p[h]) \in {q, q + 1}
      BY <2>5
    <3> HIDE DEF q
    <3> QED BY <3>1, <3>2
  <2>10. Shared(p)
    BY <2>1, <2>2, <2>4, <2>5, <2>9 DEF Shared
  <2> QED
    BY <1>1, <2>1, <2>5, <2>7, <2>8, <2>10 DEF Divided
<1> QED
  BY <1>2, <1>3

-----------------------------------------------------------------------------
(* What a block decodes to.                                                *)

(* A stretch of whole.                                                     *)
LEMMA BytesFacts ==
  ASSUME Arguments, NEW a \in 0..Len(whole), NEW b \in a..Len(whole)
  PROVE  /\ Bytes(a, b) \in Seq(Byte) /\ Len(Bytes(a, b)) = b - a
         /\ \A k \in 1..b - a : Bytes(a, b)[k] = whole[a + k]
         /\ \A k \in 1..b - a : whole[a + k] \in Byte
<1>1. whole \in Seq(Byte) /\ Len(whole) \in Nat
  BY Lengths
<1>2. a + 1 \in 1..Len(whole) + 1 /\ b \in a..Len(whole) /\ a \in Nat /\ b \in Nat
  BY <1>1
<1>3. \A i \in 1..Len(whole) : whole[i] \in Byte
  BY <1>1, ElementOfSeq
<1>4. \A i \in (a + 1)..b : whole[i] \in Byte
  BY <1>1, <1>2, <1>3
<1> HIDE DEF Byte
<1>5. /\ SubSeq(whole, a + 1, b) \in Seq(Byte)
      /\ Len(SubSeq(whole, a + 1, b)) = IF a + 1 <= b THEN b - (a + 1) + 1 ELSE 0
      /\ \A i \in 1..b - (a + 1) + 1 : SubSeq(whole, a + 1, b)[i] = whole[(a + 1) + i - 1]
  BY <1>2, <1>4, SubSeqProperties
<1>6. b - (a + 1) + 1 = b - a /\ \A i \in 1..b - a : (a + 1) + i - 1 = a + i
  BY <1>2
<1>7. \A k \in 1..b - a : whole[a + k] \in Byte
  BY <1>2, <1>4
<1> QED
  BY <1>2, <1>5, <1>6, <1>7 DEF Bytes

(* Two stretches in a row.                                                 *)
LEMMA BytesJoin ==
  ASSUME Arguments, NEW a \in 0..Len(whole), NEW b \in a..Len(whole), NEW c \in b..Len(whole)
  PROVE  Bytes(a, b) \o Bytes(b, c) = Bytes(a, c)
<1>1. a \in Nat /\ b \in Nat /\ c \in Nat /\ a <= b /\ b <= c /\ b \in 0..Len(whole)
      /\ c \in a..Len(whole) /\ Len(whole) \in Nat
  BY Lengths
<1>2. /\ Bytes(a, b) \in Seq(Byte) /\ Len(Bytes(a, b)) = b - a
      /\ \A k \in 1..b - a : Bytes(a, b)[k] = whole[a + k]
  BY BytesFacts
<1>3. /\ Bytes(b, c) \in Seq(Byte) /\ Len(Bytes(b, c)) = c - b
      /\ \A k \in 1..c - b : Bytes(b, c)[k] = whole[b + k]
  BY <1>1, BytesFacts
<1>4. /\ Bytes(a, c) \in Seq(Byte) /\ Len(Bytes(a, c)) = c - a
      /\ \A k \in 1..c - a : Bytes(a, c)[k] = whole[a + k]
  BY <1>1, BytesFacts
<1> DEFINE x == Bytes(a, b)
           y == Bytes(b, c)
           z == Bytes(a, c)
<1> HIDE DEF x, y, z, Byte
<1>5. /\ x \in Seq(Byte) /\ y \in Seq(Byte) /\ z \in Seq(Byte)
      /\ Len(x) = b - a /\ Len(y) = c - b /\ Len(z) = Len(x) + Len(y)
  BY <1>1, <1>2, <1>3, <1>4 DEF x, y, z
<1>6. \A i \in 1..Len(x) : z[i] = x[i]
  <2> SUFFICES ASSUME NEW i \in 1..Len(x) PROVE z[i] = x[i]
    OBVIOUS
  <2>1. i \in 1..b - a /\ i \in 1..c - a
    BY <1>1, <1>5
  <2>2. z[i] = whole[a + i] /\ x[i] = whole[a + i]
    BY <1>2, <1>4, <2>1 DEF x, z
  <2> QED BY <2>2
<1>7. \A i \in 1..Len(y) : z[Len(x) + i] = y[i]
  <2> SUFFICES ASSUME NEW i \in 1..Len(y) PROVE z[Len(x) + i] = y[i]
    OBVIOUS
  <2>1. i \in 1..c - b /\ (b - a) + i \in 1..c - a /\ a + ((b - a) + i) = b + i
    BY <1>1, <1>5
  <2>2. z[(b - a) + i] = whole[a + ((b - a) + i)] /\ y[i] = whole[b + i]
    BY <1>3, <1>4, <2>1 DEF y, z
  <2> QED BY <1>5, <2>1, <2>2
<1>8. z = x \o y
  BY <1>5, <1>6, <1>7, ConcatIs
<1> QED
  BY <1>8 DEF x, y, z

(* A stretch is all of whole up to its end.                                *)
LEMMA BytesAll ==
  ASSUME Arguments
  PROVE  /\ Bytes(0, Len(whole)) = whole /\ Bytes(0, Len(dict)) = dict
<1>1. /\ data \in Seq(Byte) /\ dict \in Seq(Byte) /\ whole \in Seq(Byte)
      /\ Len(dict) \in Nat /\ Len(whole) \in Nat /\ Len(dict) <= Len(whole)
  BY Lengths
<1> HIDE DEF Byte
<1>2. SubSeq(whole, 1, Len(whole)) = whole
  BY <1>1, SubSeqFull
<1>3. SubSeq(whole, 1, Len(dict)) = dict
  BY <1>1, CutConcat DEF whole
<1>4. 0 + 1 = 1
  OBVIOUS
<1> QED
  BY <1>2, <1>3, <1>4, Zenon DEF Bytes

(* A period does not change a remainder.                                   *)
LEMMA OnePeriod ==
  ASSUME NEW a \in Nat, NEW p \in Nat \ {0}
  PROVE  (a + p) % p = a % p
<1> DEFINE q == a \div p
           r == a % p
<1>1. q \in Nat /\ r \in 0..p - 1 /\ a = p * q + r
  BY DivMod
<1>2. a + p \in Nat /\ p * q \in Nat
  BY <1>1, Z3
<1>3. (a + p) \div p = q + 1
  <2> HIDE DEF q, r
  <2>1. p * (q + 1) = p * q + p
    BY <1>1, Z3
  <2>2. p * (q + 1) <= a + p /\ a + p < p * (q + 1) + p /\ q + 1 \in Nat
    BY <1>1, <1>2, <2>1
  <2> QED BY <1>2, <2>2, QuotientIs
<1>4. a + p = p * (q + 1) + ((a + p) % p) /\ (a + p) % p \in 0..p - 1
  BY <1>2, <1>3, DivMod
<1> DEFINE s == (a + p) % p
<1> HIDE DEF q, r, s
<1>5. p * (q + 1) = p * q + p
  BY <1>1, Z3
<1>6. s = r
  BY <1>1, <1>2, <1>4, <1>5 DEF s
<1> QED
  BY <1>6 DEF s, r

(* A match copied from one offset back repeats with that period.           *)
LEMMA Periodic ==
  ASSUME NEW s, NEW at \in Nat, NEW off \in 1..at, NEW len \in Nat,
         \A k \in 1..len : s[at + k] = s[at + k - off]
  PROVE  \A k \in 1..len : s[at - off + 1 + ((k - 1) % off)] = s[at + k]
<1> DEFINE T == {k \in 1..len : s[at - off + 1 + ((k - 1) % off)] # s[at + k]}
<1>1. CASE T = {}
  BY <1>1, Zenon
<1>2. CASE T # {}
  <2>1. T \subseteq Nat
    OBVIOUS
  <2>2. \E x \in T : \A y \in T : x <= y
    <3> HIDE DEF T
    <3> QED BY <1>2, <2>1, NatMin, Zenon
  <2>3. PICK x \in T : \A y \in T : x <= y
    BY <2>2
  <2>4. x \in 1..len /\ s[at - off + 1 + ((x - 1) % off)] # s[at + x]
    OBVIOUS
  <2>5. CASE x <= off
    <3>1. (x - 1) % off = x - 1
      BY <2>4, <2>5, Z3
    <3>2. at - off + 1 + (x - 1) = at + x - off
      BY <2>4
    <3> QED BY <2>4, <3>1, <3>2
  <2>6. CASE x > off
    <3> DEFINE y == x - off
    <3>1. y \in 1..len /\ y < x /\ at + x - off = at + y
      BY <2>4, <2>6
    <3>2. y \notin T
      <4> HIDE DEF T
      <4> QED BY <2>3, <2>4, <3>1
    <3>3. s[at - off + 1 + ((y - 1) % off)] = s[at + y]
      BY <3>1, <3>2
    <3>4. (y - 1) % off = (x - 1) % off
      <4>1. y - 1 \in Nat /\ off \in Nat \ {0} /\ (y - 1) + off = x - 1
        BY <2>4, <2>6
      <4> HIDE DEF y
      <4>2. ((y - 1) + off) % off = (y - 1) % off
        BY <4>1, OnePeriod
      <4> QED BY <4>1, <4>2
    <3>5. s[at + x] = s[at + y]
      <4>1. s[at + x] = s[at + x - off]
        BY <2>4
      <4> QED BY <3>1, <4>1
    <3> QED BY <2>4, <3>3, <3>4, <3>5
  <2> QED BY <2>4, <2>5, <2>6
<1> QED BY <1>1, <1>2

-----------------------------------------------------------------------------
(* The blocks and the tables they name.                                    *)
Tables == (Nat \X Nat) \cup {None}
Block ==
  [type : {"raw", "rle", "comp"}, last : BOOLEAN, size : Nat, lits : Seq(Byte),
   id : Tables, reuse : Tables, seq : [ll : Nat, ml : Nat, offset : Nat] \cup {None}]

(* Block b takes a decoder that stands at from and holds the tables before *)
(* to to and after.                                                        *)
Follows(b, from, to, before, after) ==
  /\ b \in Block
  /\ Len(dict) <= from /\ from <= to /\ (data # <<>> => from < to)
  /\ b.size <= MaxBlockSize /\ b.size <= max_offset
  /\ b.last = (to = Len(whole))
  /\ BlockBytes(Bytes(0, from), b) = Bytes(from, to)
  /\ b.reuse # None => b.reuse = before
  /\ b.seq # None => b.seq.offset <= max_offset /\ b.seq.offset <= from + b.seq.ll
  /\ IF b.type = "comp" THEN b.id # None /\ after = b.id ELSE after = before

(* Where a block may lie.                                                  *)
Extent(from, to) ==
  /\ from \in Len(dict)..Len(whole) /\ to \in from..Len(whole)
  /\ to - from <= MaxBlockSize
  /\ IF data = <<>> THEN from = to ELSE from < to

LEMMA ExtentFits ==
  ASSUME Arguments, NEW from, NEW to, Extent(from, to)
  PROVE  /\ from \in Nat /\ to \in Nat /\ to - from \in Nat /\ to - from <= max_offset
         /\ from \in 0..Len(whole) /\ to \in from..Len(whole)
         /\ Len(dict) <= from /\ from <= to /\ (data # <<>> => from < to)
         /\ to - from <= MaxBlockSize
         /\ Bytes(from, to) \in Seq(Byte) /\ Len(Bytes(from, to)) = to - from
<1>1. /\ Len(dict) \in Nat /\ Len(data) \in Nat /\ Len(whole) = Len(dict) + Len(data)
      /\ MaxBlockSize \in Nat /\ max_offset \in Nat
  BY Lengths
<1>2. Minimum(MaxBlockSize, Len(data)) <= max_offset
  BY DEF Arguments
<1>3. /\ from \in Nat /\ to \in Nat /\ to - from \in Nat /\ to - from <= max_offset
      /\ from \in 0..Len(whole) /\ to \in from..Len(whole)
      /\ Len(dict) <= from /\ from <= to /\ (data # <<>> => from < to)
      /\ to - from <= MaxBlockSize
  BY <1>1, <1>2 DEF Extent, Minimum
<1> QED
  BY <1>3, BytesFacts

(* A block stored as it is, or as one repeated byte.                       *)
LEMMA StoreFollows ==
  ASSUME Arguments, NEW from, NEW to, Extent(from, to), NEW last, last = (to = Len(whole)),
         NEW before \in Tables
  PROVE  Follows(store_block(last, Bytes(from, to)), from, to, before, before)
<1> DEFINE chunk == Bytes(from, to)
           rle == chunk # <<>> /\ \A i \in 1..Len(chunk) : chunk[i] = chunk[1]
           b == store_block(last, chunk)
<1>1. /\ chunk \in Seq(Byte) /\ Len(chunk) = to - from /\ to - from \in Nat
      /\ to - from <= MaxBlockSize /\ to - from <= max_offset
      /\ Len(dict) <= from /\ from <= to /\ (data # <<>> => from < to)
  BY ExtentFits
<1> HIDE DEF chunk
<1>2. rle => <<chunk[1]>> \in Seq(Byte)
  <2>1. chunk # <<>> => chunk[1] \in Byte
    BY <1>1
  <2> QED BY <2>1
<1>3. b = [type |-> IF rle THEN "rle" ELSE "raw", last |-> last, size |-> Len(chunk),
           lits |-> IF rle THEN <<chunk[1]>> ELSE chunk,
           id |-> None, reuse |-> None, seq |-> None]
  BY Zenon DEF store_block
<1> HIDE DEF rle
<1> HIDE DEF b
<1>4. /\ b.type = IF rle THEN "rle" ELSE "raw"
      /\ b.last = last /\ b.size = Len(chunk)
      /\ b.lits = IF rle THEN <<chunk[1]>> ELSE chunk
      /\ b.id = None /\ b.reuse = None /\ b.seq = None
  BY <1>3
<1>5. b \in Block
  <2>1. /\ (IF rle THEN "rle" ELSE "raw") \in {"raw", "rle", "comp"} /\ last \in BOOLEAN
        /\ Len(chunk) \in Nat /\ None \in Tables
        /\ (IF rle THEN <<chunk[1]>> ELSE chunk) \in Seq(Byte)
    BY <1>1, <1>2 DEF Tables
  <2> HIDE DEF Byte, Tables
  <2> QED BY <1>3, <2>1 DEF Block
<1>6. BlockBytes(Bytes(0, from), b) = chunk
  <2>1. BlockBytes(Bytes(0, from), b) = PlainBytes(b)
    BY <1>4 DEF BlockBytes
  <2>2. CASE ~rle
    BY <1>4, <2>1, <2>2 DEF PlainBytes
  <2>3. CASE rle
    <3>1. PlainBytes(b) = [k \in 1..Len(chunk) |-> chunk[1]]
      BY <1>4, <2>3 DEF PlainBytes
    <3>2. \A k \in 1..Len(chunk) : chunk[k] = chunk[1]
      BY <2>3, Zenon DEF rle
    <3>3. chunk = [k \in 1..Len(chunk) |-> chunk[k]]
      BY <1>1
    <3> QED BY <2>1, <3>1, <3>2, <3>3
  <2> QED BY <2>2, <2>3
<1>7. b.type # "comp"
  BY <1>4
<1>8. Follows(b, from, to, before, before)
  BY <1>1, <1>4, <1>5, <1>6, <1>7 DEF Follows, chunk
<1> QED
  BY <1>8 DEF b, chunk

(* The matches a worker may use: copies of what a decoder has by then.     *)
Copies(from, to, s) ==
  /\ s \in [at : Nat, offset : Nat, len : Nat]
  /\ from <= s.at /\ s.at + s.len <= to /\ s.offset \in 1..s.at /\ s.offset <= max_offset
  /\ \A k \in 1..s.len : whole[s.at + k] = whole[s.at + k - s.offset]

(* The bytes of a match.                                                   *)
LEMMA MatchBytes ==
  ASSUME Arguments, NEW from, NEW to, Extent(from, to), NEW s, Copies(from, to, s)
  PROVE  CopyMatch(Bytes(0, s.at), s.offset, s.len) = Bytes(s.at, s.at + s.len)
<1> DEFINE at == s.at
           off == s.offset
           len == s.len
           h == Bytes(0, at)
           m == Bytes(at, at + len)
<1>1. /\ at \in Nat /\ off \in 1..at /\ len \in Nat /\ at + len <= to
      /\ \A k \in 1..len : whole[at + k] = whole[at + k - off]
  BY DEF Copies
<1>2. /\ at \in 0..Len(whole) /\ at + len \in at..Len(whole) /\ 0 \in 0..Len(whole)
      /\ at \in 0..Len(whole)
  BY <1>1, ExtentFits
<1>3. /\ Len(h) = at - 0 /\ \A k \in 1..at - 0 : h[k] = whole[0 + k]
  BY <1>2, BytesFacts
<1>4. /\ m \in Seq(Byte) /\ Len(m) = (at + len) - at
      /\ \A k \in 1..(at + len) - at : m[k] = whole[at + k]
  <2> DEFINE e == at + len
  <2>1. e \in at..Len(whole) /\ at \in 0..Len(whole)
    BY <1>2
  <2> HIDE DEF e, at
  <2>2. /\ Bytes(at, e) \in Seq(Byte) /\ Len(Bytes(at, e)) = e - at
        /\ \A k \in 1..e - at : Bytes(at, e)[k] = whole[at + k]
    BY <2>1, BytesFacts
  <2> QED BY <2>2, Zenon DEF e
<1>5. \A k \in 1..len : whole[at - off + 1 + ((k - 1) % off)] = whole[at + k]
  <2> HIDE DEF at, off, len
  <2> QED BY <1>1, Periodic
<1>6. CopyMatch(h, off, len) = [k \in 1..len |-> h[Len(h) - off + 1 + ((k - 1) % off)]]
  BY Zenon DEF CopyMatch
<1> HIDE DEF h, m, at, off, len
<1>7. Len(h) = at /\ Len(m) = len /\ (at + len) - at = len
  BY <1>1, <1>3, <1>4
<1>8. ASSUME NEW k \in 1..len
      PROVE  h[Len(h) - off + 1 + ((k - 1) % off)] = m[k]
  <2>1. (k - 1) % off \in 0..off - 1
    <3>1. k - 1 \in Nat /\ off \in Nat \ {0}
      BY <1>1
    <3> QED BY <3>1, DivMod
  <2> DEFINE i == at - off + 1 + ((k - 1) % off)
  <2>2. i \in 1..at - 0 /\ 0 + i = i
    BY <1>1, <2>1
  <2>3. h[i] = whole[i]
    BY <1>3, <2>2
  <2>4. m[k] = whole[at + k]
    BY <1>4, <1>7
  <2> QED BY <1>5, <1>7, <2>3, <2>4
<1>9. m = [k \in 1..len |-> m[k]]
  BY <1>4, <1>7
<1>10. CopyMatch(h, off, len) = m
  BY <1>6, <1>8, <1>9
<1> QED
  BY <1>10 DEF h, m, at, off, len

(* A compressed block with at most one match, and tables of its own or     *)
(* those of before.                                                        *)
LEMMA CompFollows ==
  ASSUME Arguments, NEW from, NEW to, Extent(from, to),
         NEW last \in BOOLEAN, last <=> to = Len(whole), NEW g \in Nat,
         NEW s, s = None \/ Copies(from, to, s),
         NEW reuse \in Tables, NEW before, reuse # None => reuse = before,
         NEW b, b = compressed_block(g, last, from, to, s, reuse)
  PROVE  Follows(b, from, to, before, b.id) /\ b.id \in Tables
<1> DEFINE lits == IF s = None THEN Bytes(from, to)
                   ELSE Bytes(from, s.at) \o Bytes(s.at + s.len, to)
           id == IF reuse = None THEN <<g, from>> ELSE reuse
           seq == IF s = None THEN None
                  ELSE [ll |-> s.at - from, ml |-> s.len, offset |-> s.offset]
<1>1. /\ from \in Nat /\ to \in Nat /\ to - from \in Nat
      /\ from \in 0..Len(whole) /\ to \in from..Len(whole) /\ Len(whole) \in Nat
      /\ to - from <= MaxBlockSize /\ to - from <= max_offset
      /\ Len(dict) <= from /\ from <= to /\ (data # <<>> => from < to)
  BY ExtentFits, Lengths
<1>2. /\ Bytes(from, to) \in Seq(Byte) /\ Bytes(0, from) \in Seq(Byte)
      /\ Bytes(0, from) \o Bytes(from, to) = Bytes(0, to)
  <2>1. from \in 0..Len(whole) /\ 0 \in 0..Len(whole) /\ from \in 0..from
    BY <1>1
  <2> QED BY <1>1, <2>1, BytesFacts, BytesJoin
<1>3. b = [type |-> "comp", last |-> last, size |-> to - from, lits |-> lits,
           id |-> id, reuse |-> reuse, seq |-> seq]
  BY Zenon DEF compressed_block
<1>4. id \in Tables /\ id # None /\ (reuse # None => id = reuse)
  <2>1. <<g, from>> \in Nat \X Nat
    BY <1>1
  <2>2. None \notin Nat \X Nat
    BY FrameEncoderAssumption, Zenon
  <2> QED BY <2>1, <2>2, Zenon DEF Tables
<1> HIDE DEF id
<1>5. ASSUME s # None
      PROVE  /\ s.at \in Nat /\ s.len \in Nat /\ s.offset \in Nat /\ s.at - from \in Nat
             /\ from <= s.at /\ s.at + s.len <= to /\ s.offset \in 1..s.at
             /\ s.offset <= max_offset /\ Copies(from, to, s)
             /\ s.at \in from..to /\ s.at + s.len \in s.at..to
             /\ seq = [ll |-> s.at - from, ml |-> s.len, offset |-> s.offset]
  <2>1. Copies(from, to, s)
    BY <1>5
  <2>2. /\ s.at \in Nat /\ s.len \in Nat /\ s.offset \in Nat
        /\ from <= s.at /\ s.at + s.len <= to /\ s.offset \in 1..s.at
        /\ s.offset <= max_offset
    BY <2>1 DEF Copies
  <2>3. s.at - from \in Nat /\ s.at \in from..to /\ s.at + s.len \in s.at..to
    <3>1. from \in Nat /\ to \in Nat
      BY <1>1, Zenon
    <3>2. ASSUME NEW at \in Nat, NEW len \in Nat, from <= at, at + len <= to
          PROVE  at - from \in Nat /\ at \in from..to /\ at + len \in at..to
      BY <3>1, <3>2
    <3> QED BY <2>2, <3>2
  <2>4. seq = [ll |-> s.at - from, ml |-> s.len, offset |-> s.offset]
    BY <1>5, Zenon
  <2> QED BY <2>1, <2>2, <2>3, <2>4
<1>6. /\ seq \in [ll : Nat, ml : Nat, offset : Nat] \cup {None}
      /\ seq # None => /\ s # None /\ seq.ll = s.at - from /\ seq.ml = s.len
                       /\ seq.offset = s.offset
      /\ s # None => seq # None
  <2>1. CASE s = None
    BY <2>1
  <2>2. CASE s # None
    <3>1. None \notin [ll : Nat, ml : Nat, offset : Nat]
      BY FrameEncoderAssumption, Zenon
    <3>2. seq \in [ll : Nat, ml : Nat, offset : Nat]
      BY <1>5, <2>2
    <3>3. seq.ll = s.at - from /\ seq.ml = s.len /\ seq.offset = s.offset
      BY <1>5, <2>2
    <3> QED BY <2>2, <3>1, <3>2, <3>3, Zenon
  <2> QED BY <2>1, <2>2
<1>7. ASSUME s # None
      PROVE  /\ Bytes(from, s.at) \in Seq(Byte) /\ Len(Bytes(from, s.at)) = s.at - from
             /\ Bytes(s.at, s.at + s.len) \in Seq(Byte)
             /\ Bytes(s.at + s.len, to) \in Seq(Byte)
             /\ Bytes(from, s.at) \o Bytes(s.at, s.at + s.len) = Bytes(from, s.at + s.len)
             /\ Bytes(from, s.at + s.len) \o Bytes(s.at + s.len, to) = Bytes(from, to)
             /\ Bytes(0, from) \o Bytes(from, s.at) = Bytes(0, s.at)
  <2> DEFINE at == s.at
             e == s.at + s.len
  <2>1. /\ at \in from..Len(whole) /\ at \in 0..Len(whole) /\ e \in 0..Len(whole)
        /\ e \in at..Len(whole) /\ e \in from..Len(whole) /\ to \in e..Len(whole)
        /\ to \in at..Len(whole) /\ from \in 0..Len(whole) /\ 0 \in 0..Len(whole)
        /\ from \in 0..from
    <3>1. /\ from \in Nat /\ to \in Nat /\ Len(whole) \in Nat
          /\ from \in 0..Len(whole) /\ to \in from..Len(whole)
      BY <1>1, Zenon
    <3>2. at \in Nat /\ at \in from..to /\ e \in at..to
      BY <1>5, <1>7, Zenon
    <3> HIDE DEF at, e
    <3> QED BY <3>1, <3>2
  <2> HIDE DEF at, e
  <2>2. /\ Bytes(from, at) \in Seq(Byte) /\ Len(Bytes(from, at)) = at - from
        /\ Bytes(at, e) \in Seq(Byte) /\ Bytes(e, to) \in Seq(Byte)
    BY <2>1, BytesFacts
  <2>3. /\ Bytes(from, at) \o Bytes(at, e) = Bytes(from, e)
        /\ Bytes(from, e) \o Bytes(e, to) = Bytes(from, to)
        /\ Bytes(0, from) \o Bytes(from, at) = Bytes(0, at)
    BY <2>1, BytesJoin
  <2> QED BY <2>2, <2>3, Zenon DEF at, e
<1>8. lits \in Seq(Byte)
  <2>1. CASE s = None
    BY <1>2, <2>1, Zenon
  <2>2. CASE s # None
    <3> HIDE DEF Byte
    <3>1. Bytes(from, s.at) \o Bytes(s.at + s.len, to) \in Seq(Byte)
      BY <1>7, <2>2, ConcatProperties
    <3> QED BY <2>2, <3>1, Zenon
  <2> QED BY <2>1, <2>2
<1>9. s # None => lits = Bytes(from, s.at) \o Bytes(s.at + s.len, to)
  BY Zenon
<1>10. s = None => lits = Bytes(from, to)
  BY Zenon
<1> HIDE DEF lits, seq
<1>11. /\ b.type = "comp" /\ b.last = last /\ b.size = to - from /\ b.lits = lits
       /\ b.id = id /\ b.reuse = reuse /\ b.seq = seq
  BY <1>3
<1>12. b \in Block
  <2> HIDE DEF Byte
  <2>1. "comp" \in {"raw", "rle", "comp"} /\ last \in BOOLEAN
    OBVIOUS
  <2>2. b \in [type : {"raw", "rle", "comp"}, last : BOOLEAN, size : Nat, lits : Seq(Byte),
               id : Tables, reuse : Tables,
               seq : [ll : Nat, ml : Nat, offset : Nat] \cup {None}]
    BY <1>1, <1>3, <1>4, <1>6, <1>8, <2>1
  <2> QED BY <2>2, Zenon DEF Block
<1>13. BlockBytes(Bytes(0, from), b) = Bytes(from, to)
  <2>1. CASE s = None
    BY <1>6, <1>10, <1>11, <2>1 DEF BlockBytes
  <2>2. CASE s # None
    <3> DEFINE h == Bytes(0, from)
               x == Bytes(from, s.at)
               y == Bytes(s.at + s.len, to)
               m == Bytes(s.at, s.at + s.len)
    <3>1. /\ h \in Seq(Byte) /\ x \in Seq(Byte) /\ y \in Seq(Byte) /\ m \in Seq(Byte)
          /\ h \o x = Bytes(0, s.at) /\ (x \o m) \o y = Bytes(from, to)
          /\ Len(x) = s.at - from
      BY <1>2, <1>7, <2>2
    <3>2. lits = x \o y /\ seq # None /\ seq.ll = Len(x) /\ seq.ml = s.len
          /\ seq.offset = s.offset
      BY <1>6, <1>9, <2>2, <3>1
    <3>3. CopyMatch(Bytes(0, s.at), s.offset, s.len) = m
      BY <1>5, <2>2, MatchBytes
    <3> HIDE DEF x, y, m, h, Byte
    <3>4. SubSeq(lits, 1, Len(x)) = x /\ SubSeq(lits, Len(x) + 1, Len(lits)) = y
      BY <3>1, <3>2, CutConcat
    <3>5. 0 + 1 = 1 /\ 0 + Len(x) = Len(x)
      BY <3>1
    <3>6. SequenceBytes(h, lits, 0, seq, seq.offset) = x \o m
      <4>1. SequenceBytes(h, lits, 0, seq, seq.offset)
            = SubSeq(lits, 0 + 1, 0 + seq.ll)
                \o CopyMatch(h \o SubSeq(lits, 0 + 1, 0 + seq.ll), seq.offset, seq.ml)
        BY Zenon DEF SequenceBytes
      <4>2. SubSeq(lits, 0 + 1, 0 + seq.ll) = x
        BY <3>2, <3>4, <3>5, Zenon
      <4> QED BY <3>1, <3>2, <3>3, <4>1, <4>2, Zenon
    <3>7. BlockBytes(h, b) = SequenceBytes(h, lits, 0, seq, seq.offset)
                               \o SubSeq(lits, seq.ll + 1, Len(lits))
      BY <1>11, <3>2, Zenon DEF BlockBytes
    <3>8. SubSeq(lits, seq.ll + 1, Len(lits)) = y
      BY <3>2, <3>4, Zenon
    <3> QED BY <3>1, <3>6, <3>7, <3>8, Zenon DEF h
  <2> QED BY <2>1, <2>2
<1>14. b.seq # None => b.seq.offset <= max_offset /\ b.seq.offset <= from + b.seq.ll
  <2>1. CASE s = None
    BY <1>6, <1>11, <2>1, Zenon
  <2>2. CASE s # None
    <3>1. b.seq = seq /\ seq.ll = s.at - from /\ seq.offset = s.offset
      BY <1>6, <1>11, <2>2, Zenon
    <3>2. s.at \in Nat /\ s.offset \in 1..s.at /\ s.offset <= max_offset /\ from \in Nat
      BY <1>1, <1>5, <2>2, Zenon
    <3>3. s.offset <= from + (s.at - from)
      BY <3>2
    <3> QED BY <3>1, <3>2, <3>3, Zenon
  <2> QED BY <2>1, <2>2, Zenon
<1>15. Follows(b, from, to, before, b.id)
  <2>1. b.last = (to = Len(whole)) /\ (b.reuse # None => b.reuse = before)
        /\ b.size <= MaxBlockSize /\ b.size <= max_offset
    BY <1>1, <1>11
  <2>2. IF b.type = "comp" THEN b.id # None /\ b.id = b.id ELSE b.id = before
    BY <1>4, <1>11
  <2> QED BY <1>1, <1>12, <1>13, <1>14, <2>1, <2>2, Zenon DEF Follows
<1> QED
  BY <1>4, <1>11, <1>15

-----------------------------------------------------------------------------
(* Runs of blocks.                                                         *)

(* The blocks s take a decoder through the ends e and the tables t.        *)
Run(s, e, t) ==
  /\ s \in Seq(Block)
  /\ e \in [0..Len(s) -> Len(dict)..Len(whole)] /\ t \in [0..Len(s) -> Tables]
  /\ \A i \in 1..Len(s) : Follows(s[i], e[i - 1], e[i], t[i - 1], t[i])

Ends(s) == [0..Len(s) -> Len(dict)..Len(whole)]
TablesAt(s) == [0..Len(s) -> Tables]

(* They take it from from and the tables before to to and after.           *)
Reaches(s, from, to, before, after) ==
  \E e \in Ends(s), t \in TablesAt(s) :
    /\ Run(s, e, t)
    /\ e[0] = from /\ e[Len(s)] = to /\ t[0] = before /\ t[Len(s)] = after

(* No block.                                                               *)
LEMMA ReachesNone ==
  ASSUME Arguments, NEW from \in Len(dict)..Len(whole), NEW before \in Tables
  PROVE  Reaches(<<>>, from, from, before, before)
<1> DEFINE e == [i \in 0..0 |-> from]
           t == [i \in 0..0 |-> before]
<1>1. Len(<<>>) = 0 /\ <<>> \in Seq(Block) /\ 1..0 = {} /\ 0 \in 0..0
  OBVIOUS
<1>2. /\ e \in [0..0 -> Len(dict)..Len(whole)] /\ t \in [0..0 -> Tables]
      /\ e[0] = from /\ t[0] = before
  BY <1>1, Zenon
<1> HIDE DEF e, t
<1>3. Run(<<>>, e, t)
  BY <1>1, <1>2, Zenon DEF Run
<1>4. e \in Ends(<<>>) /\ t \in TablesAt(<<>>)
  BY <1>1, <1>2, Zenon DEF Ends, TablesAt
<1> QED
  BY <1>1, <1>2, <1>3, <1>4, Zenon DEF Reaches

(* One more block.                                                         *)
LEMMA ReachesMore ==
  ASSUME Arguments, NEW s, NEW from, NEW mid, NEW to \in Len(dict)..Len(whole), NEW before,
         NEW x, NEW y \in Tables, Reaches(s, from, mid, before, x),
         NEW b, Follows(b, mid, to, x, y)
  PROVE  Reaches(Append(s, b), from, to, before, y) /\ s \in Seq(Block) /\ b \in Block
<1>1. PICK e \in Ends(s), t \in TablesAt(s) :
        /\ Run(s, e, t)
        /\ e[0] = from /\ e[Len(s)] = mid /\ t[0] = before /\ t[Len(s)] = x
  BY Zenon DEF Reaches
<1> DEFINE n == Len(s)
           c == Append(s, b)
           f == [i \in 0..n + 1 |-> IF i = n + 1 THEN to ELSE e[i]]
           u == [i \in 0..n + 1 |-> IF i = n + 1 THEN y ELSE t[i]]
<1>2. s \in Seq(Block) /\ b \in Block
  BY <1>1, Zenon DEF Run, Follows
<1>3. n \in Nat /\ c \in Seq(Block) /\ Len(c) = n + 1 /\ c[n + 1] = b
      /\ \A i \in 1..n : c[i] = s[i]
  BY <1>2, AppendProperties
<1> HIDE DEF c
<1>4. /\ e \in [0..n -> Len(dict)..Len(whole)] /\ t \in [0..n -> Tables]
      /\ \A i \in 1..n : Follows(s[i], e[i - 1], e[i], t[i - 1], t[i])
  BY <1>1, Zenon DEF Run
<1> HIDE DEF n
<1>5. ASSUME NEW i \in 0..n PROVE f[i] = e[i] /\ u[i] = t[i]
  BY <1>3
<1>6. f[n + 1] = to /\ u[n + 1] = y
  BY <1>3
<1>7. f \in [0..n + 1 -> Len(dict)..Len(whole)] /\ u \in [0..n + 1 -> Tables]
  <2>1. ASSUME NEW i \in 0..n + 1 PROVE f[i] \in Len(dict)..Len(whole) /\ u[i] \in Tables
    <3>1. CASE i = n + 1
      BY <1>6, <3>1
    <3>2. CASE i \in 0..n
      BY <1>4, <1>5, <3>2
    <3> QED BY <1>3, <3>1, <3>2
  <2> QED BY <2>1
<1> HIDE DEF f, u
<1>8. ASSUME NEW i \in 1..n + 1 PROVE Follows(c[i], f[i - 1], f[i], u[i - 1], u[i])
  <2>1. CASE i = n + 1
    <3>1. i - 1 = n /\ n \in 0..n
      BY <1>3, <2>1
    <3>2. f[i - 1] = mid /\ u[i - 1] = x /\ f[i] = to /\ u[i] = y /\ c[i] = b
      BY <1>1, <1>3, <1>5, <1>6, <2>1, <3>1 DEF n
    <3> QED BY <3>2, Zenon
  <2>2. CASE i \in 1..n
    <3>1. i - 1 \in 0..n /\ i \in 0..n
      BY <1>3, <2>2
    <3>2. /\ f[i - 1] = e[i - 1] /\ u[i - 1] = t[i - 1] /\ f[i] = e[i] /\ u[i] = t[i]
          /\ c[i] = s[i]
      BY <1>3, <1>5, <2>2, <3>1
    <3> QED BY <1>4, <2>2, <3>2, Zenon
  <2> QED BY <1>3, <2>1, <2>2
<1>9. Run(c, f, u)
  BY <1>3, <1>7, <1>8, Zenon DEF Run
<1>10. f[0] = from /\ u[0] = before /\ f[Len(c)] = to /\ u[Len(c)] = y
  <2>1. 0 \in 0..n
    BY <1>3
  <2> QED BY <1>1, <1>3, <1>5, <1>6, <2>1
<1>11. f \in Ends(c) /\ u \in TablesAt(c)
  BY <1>3, <1>7, Zenon DEF Ends, TablesAt
<1>12. Reaches(c, from, to, before, y)
  BY <1>9, <1>10, <1>11, Zenon DEF Reaches
<1> QED
  BY <1>2, <1>12 DEF c

(* A run that assumes no tables may follow any other: until its first      *)
(* compressed block the tables of the other stay.                          *)
LEMMA ReachesJoin ==
  ASSUME Arguments, NEW r, NEW s, NEW from, NEW mid, NEW to, NEW before, NEW x, NEW y,
         Reaches(r, from, mid, before, x), Reaches(s, mid, to, None, y)
  PROVE  /\ \E z \in Tables : Reaches(r \o s, from, to, before, z)
         /\ r \in Seq(Block) /\ s \in Seq(Block)
<1>1. PICK e \in Ends(r), t \in TablesAt(r) :
        /\ Run(r, e, t)
        /\ e[0] = from /\ e[Len(r)] = mid /\ t[0] = before /\ t[Len(r)] = x
  BY Zenon DEF Reaches
<1>2. PICK f \in Ends(s), u \in TablesAt(s) :
        /\ Run(s, f, u)
        /\ f[0] = mid /\ f[Len(s)] = to /\ u[0] = None /\ u[Len(s)] = y
  BY Zenon DEF Reaches
<1> DEFINE n == Len(r)
           m == Len(s)
           c == r \o s
           V(j) == IF u[j] = None THEN x ELSE u[j]
           g == [i \in 0..n + m |-> IF i <= n THEN e[i] ELSE f[i - n]]
           v == [i \in 0..n + m |-> IF i <= n THEN t[i] ELSE V(i - n)]
<1>3. r \in Seq(Block) /\ s \in Seq(Block)
  BY <1>1, <1>2, Zenon DEF Run
<1>4. /\ n \in Nat /\ m \in Nat /\ c \in Seq(Block) /\ Len(c) = n + m
      /\ \A i \in 1..n + m : c[i] = IF i <= n THEN r[i] ELSE s[i - n]
  BY <1>3, ConcatProperties
<1> HIDE DEF c
<1>5. /\ e \in [0..n -> Len(dict)..Len(whole)] /\ t \in [0..n -> Tables]
      /\ \A i \in 1..n : Follows(r[i], e[i - 1], e[i], t[i - 1], t[i])
      /\ e[0] = from /\ e[n] = mid /\ t[0] = before /\ t[n] = x
  BY <1>1, Zenon DEF Run
<1>6. /\ f \in [0..m -> Len(dict)..Len(whole)] /\ u \in [0..m -> Tables]
      /\ \A i \in 1..m : Follows(s[i], f[i - 1], f[i], u[i - 1], u[i])
      /\ f[0] = mid /\ f[m] = to /\ u[0] = None
  BY <1>2, Zenon DEF Run
<1> HIDE DEF n, m
<1>7. ASSUME NEW i \in 0..n PROVE g[i] = e[i] /\ v[i] = t[i]
  BY <1>4
<1>8. x \in Tables
  <2>1. n \in 0..n
    BY <1>4
  <2> QED BY <1>5, <2>1
<1>9. V(0) = x
  BY <1>6
<1>10. ASSUME NEW j \in 0..m PROVE g[n + j] = f[j] /\ v[n + j] = V(j) /\ V(j) \in Tables
  <2>1. V(j) \in Tables
    BY <1>6, <1>8
  <2>2. CASE j = 0
    <3>1. n \in 0..n /\ n + j = n
      BY <1>4, <2>2
    <3>2. g[n + j] = mid /\ v[n + j] = x
      BY <1>5, <1>7, <3>1
    <3> QED BY <1>6, <1>9, <2>1, <2>2, <3>2
  <2>3. CASE j # 0
    <3>1. n + j \in 0..n + m /\ ~(n + j <= n) /\ (n + j) - n = j
      BY <1>4, <2>3
    <3> HIDE DEF V
    <3> QED BY <2>1, <3>1
  <2> QED BY <2>2, <2>3
<1>11. ASSUME NEW j \in 1..m PROVE Follows(s[j], f[j - 1], f[j], V(j - 1), V(j))
  <2>1. Follows(s[j], f[j - 1], f[j], u[j - 1], u[j])
    BY <1>6
  <2>2. s[j].reuse # None => s[j].reuse = V(j - 1)
    BY <2>1 DEF Follows
  <2>3. IF s[j].type = "comp" THEN s[j].id # None /\ V(j) = s[j].id ELSE V(j) = V(j - 1)
    BY <2>1, Zenon DEF Follows
  <2> HIDE DEF V
  <2> QED BY <2>1, <2>2, <2>3, Zenon DEF Follows
<1>12. g \in [0..n + m -> Len(dict)..Len(whole)] /\ v \in [0..n + m -> Tables]
  <2>1. ASSUME NEW i \in 0..n + m PROVE g[i] \in Len(dict)..Len(whole) /\ v[i] \in Tables
    <3>1. CASE i \in 0..n
      BY <1>5, <1>7, <3>1
    <3>2. CASE i \notin 0..n
      <4>1. i - n \in 0..m /\ n + (i - n) = i
        BY <1>4, <3>2
      <4> HIDE DEF g, v, V
      <4>2. g[i] = f[i - n] /\ v[i] = V(i - n) /\ V(i - n) \in Tables
        BY <1>10, <4>1
      <4> QED BY <1>6, <4>1, <4>2
    <3> QED BY <3>1, <3>2
  <2> QED BY <2>1
<1> HIDE DEF g, v, V
<1>13. ASSUME NEW i \in 1..n + m PROVE Follows(c[i], g[i - 1], g[i], v[i - 1], v[i])
  <2>1. CASE i \in 1..n
    <3>1. i - 1 \in 0..n /\ i \in 0..n /\ i \in 1..n + m /\ i <= n
      BY <1>4, <2>1
    <3>2. /\ g[i - 1] = e[i - 1] /\ v[i - 1] = t[i - 1] /\ g[i] = e[i] /\ v[i] = t[i]
          /\ c[i] = r[i]
      BY <1>4, <1>7, <3>1
    <3> QED BY <1>5, <2>1, <3>2, Zenon
  <2>2. CASE i \notin 1..n
    <3> DEFINE j == i - n
    <3>1. /\ j \in 1..m /\ j \in 0..m /\ j - 1 \in 0..m /\ n + j = i /\ n + (j - 1) = i - 1
          /\ ~(i <= n)
      BY <1>4, <2>2
    <3>2. c[i] = s[j]
      BY <1>4, <3>1
    <3> HIDE DEF j
    <3>3. g[i - 1] = f[j - 1] /\ v[i - 1] = V(j - 1) /\ g[i] = f[j] /\ v[i] = V(j)
      <4>1. g[n + j] = f[j] /\ v[n + j] = V(j)
        BY <1>10, <3>1
      <4>2. g[n + (j - 1)] = f[j - 1] /\ v[n + (j - 1)] = V(j - 1)
        BY <1>10, <3>1
      <4> QED BY <3>1, <4>1, <4>2, Zenon
    <3> QED BY <1>11, <3>1, <3>2, <3>3, Zenon
  <2> QED BY <2>1, <2>2
<1>14. Run(c, g, v)
  BY <1>4, <1>12, <1>13, Zenon DEF Run
<1>15. g \in Ends(c) /\ v \in TablesAt(c)
  BY <1>4, <1>12, Zenon DEF Ends, TablesAt
<1>16. g[0] = from /\ v[0] = before /\ g[Len(c)] = to /\ v[Len(c)] \in Tables
  <2>1. 0 \in 0..n /\ m \in 0..m
    BY <1>4
  <2>2. g[0] = from /\ v[0] = before
    BY <1>5, <1>7, <2>1
  <2>3. g[n + m] = to /\ v[n + m] \in Tables
    BY <1>6, <1>10, <2>1
  <2> QED BY <1>4, <2>2, <2>3
<1>17. \E z \in Tables : Reaches(c, from, to, before, z)
  BY <1>14, <1>15, <1>16, Zenon DEF Reaches
<1> QED
  BY <1>3, <1>17 DEF c

-----------------------------------------------------------------------------
(* What a run of blocks decodes to.                                        *)

(* The frame holds a run over the whole input.                             *)
Covering ==
  /\ frame.window = max_offset
  /\ \E z \in Tables : Reaches(frame.blocks, Len(dict), Len(whole), DictTables, z)
  /\ data = <<>> => Len(frame.blocks) = 1

(* One block of a run, decoded.                                            *)
LEMMA DecodeFollows ==
  ASSUME Arguments, frame.window = max_offset, NEW b, NEW from \in Len(dict)..Len(whole),
         NEW to \in Len(dict)..Len(whole), NEW before, NEW after,
         Follows(b, from, to, before, after)
  PROVE  DecodeBlock([h |-> Bytes(0, from), ok |-> TRUE, ended |-> FALSE, tables |-> before], b)
         = [h |-> Bytes(0, to), ok |-> TRUE, ended |-> (to = Len(whole)), tables |-> after]
<1> DEFINE h == Bytes(0, from)
           st == [h |-> h, ok |-> TRUE, ended |-> FALSE, tables |-> before]
<1>1. /\ from \in 0..Len(whole) /\ to \in from..Len(whole) /\ from \in 0..from
      /\ 0 \in 0..Len(whole) /\ from \in Nat /\ max_offset \in Nat /\ MaxBlockSize \in Nat
  <2>1. Len(dict) \in Nat /\ Len(whole) \in Nat /\ from <= to
        /\ max_offset \in Nat /\ MaxBlockSize \in Nat
    BY Lengths DEF Follows
  <2> QED BY <2>1
<1>2. Len(h) = from /\ h \o Bytes(from, to) = Bytes(0, to)
  <2>1. Len(h) = from - 0
    BY <1>1, BytesFacts
  <2>2. h \o Bytes(from, to) = Bytes(0, to)
    BY <1>1, BytesJoin
  <2> QED BY <1>1, <2>1, <2>2
<1> HIDE DEF h
<1>3. st.h = h /\ st.ok = TRUE /\ st.ended = FALSE /\ st.tables = before
  OBVIOUS
<1>4. st = [h |-> h, ok |-> TRUE, ended |-> FALSE, tables |-> before]
  OBVIOUS
<1> HIDE DEF st
<1>5. /\ b.size <= MaxBlockSize /\ b.size <= max_offset /\ b.last = (to = Len(whole))
      /\ BlockBytes(h, b) = Bytes(from, to)
      /\ b.reuse # None => b.reuse = before
      /\ b.seq # None => b.seq.offset <= max_offset /\ b.seq.offset <= from + b.seq.ll
      /\ after = IF b.type = "comp" THEN b.id ELSE before
  BY Zenon DEF Follows, h
<1>6. BlockFits(st, b)
  <2>1. b.size <= Minimum(frame.window, MaxBlockSize)
    BY <1>1, <1>5 DEF Minimum
  <2>2. b.reuse # None => b.reuse = st.tables
    BY <1>3, <1>5, Zenon
  <2>3. b.seq # None => b.seq.offset <= Minimum(frame.window, Len(st.h) + b.seq.ll)
    <3>1. Len(st.h) = from
      BY <1>2, <1>3, Zenon
    <3> QED BY <1>1, <1>5, <3>1 DEF Minimum
  <2> QED BY <2>1, <2>2, <2>3, Zenon DEF BlockFits
<1>7. DecodeBlock(st, b)
      = [h |-> st.h \o BlockBytes(st.h, b), ok |-> TRUE, ended |-> b.last,
         tables |-> IF b.type = "comp" THEN b.id ELSE st.tables]
  BY <1>3, <1>6, Zenon DEF DecodeBlock
<1>8. /\ st.h \o BlockBytes(st.h, b) = Bytes(0, to)
      /\ (IF b.type = "comp" THEN b.id ELSE st.tables) = after
  BY <1>2, <1>3, <1>5, Zenon
<1>9. DecodeBlock(st, b)
      = [h |-> Bytes(0, to), ok |-> TRUE, ended |-> (to = Len(whole)), tables |-> after]
  BY <1>5, <1>7, <1>8, Zenon
<1> QED
  BY <1>9, Zenon DEF st, h

(* Decoding is the only function that starts and steps as it does, so it   *)
(* is the one that follows the run.                                        *)
Turn(f) ==
  [n \in 0..Len(frame.blocks) |->
     IF n = 0 THEN DecodeStart ELSE DecodeBlock(f[n - 1], frame.blocks[n])]

Steps(f) == f = Turn(f)

LEMMA DecodingIs ==
  ASSUME NEW w, Steps(w), Len(frame.blocks) \in Nat
  PROVE  Decoded = w[Len(frame.blocks)]
<1> DEFINE N == Len(frame.blocks)
<1>1. Decoding = CHOOSE f : f = Turn(f)
  BY Zenon DEF Decoding, Turn
<1>2. Steps(w)
  OBVIOUS
<1>3. \E f : f = Turn(f)
  BY <1>2, Zenon DEF Steps
<1>4. Steps(Decoding)
  BY <1>1, <1>3, Zenon DEF Steps
<1>5. N \in Nat
  OBVIOUS
<1>6. ASSUME NEW f, Steps(f)
      PROVE  /\ f[0] = DecodeStart
             /\ \A i \in 1..N : f[i] = DecodeBlock(f[i - 1], frame.blocks[i])
  <2>1. ASSUME NEW i \in 0..N
        PROVE  f[i] = IF i = 0 THEN DecodeStart ELSE DecodeBlock(f[i - 1], frame.blocks[i])
    <3> DEFINE G(n) == IF n = 0 THEN DecodeStart ELSE DecodeBlock(f[n - 1], frame.blocks[n])
    <3>1. f = [n \in 0..N |-> G(n)]
      BY <1>6, Zenon DEF Turn, Steps
    <3> HIDE DEF G, N
    <3>2. f[i] = G(i)
      BY <3>1, Zenon
    <3> QED BY <3>2, Zenon DEF G
  <2>2. 0 \in 0..N /\ \A i \in 1..N : i \in 0..N /\ i # 0
    BY <1>5
  <2> HIDE DEF N
  <2> QED BY <2>1, <2>2, Zenon
<1>7. /\ w[0] = Decoding[0]
      /\ \A i \in 1..N : w[i - 1] = Decoding[i - 1] => w[i] = Decoding[i]
  <2> HIDE DEF N
  <2>1. /\ w[0] = DecodeStart
        /\ \A i \in 1..N : w[i] = DecodeBlock(w[i - 1], frame.blocks[i])
    BY <1>2, <1>6, Zenon
  <2>2. /\ Decoding[0] = DecodeStart
        /\ \A i \in 1..N : Decoding[i] = DecodeBlock(Decoding[i - 1], frame.blocks[i])
    BY <1>4, <1>6, Zenon
  <2> QED BY <2>1, <2>2, Zenon
<1>8. \A i \in 0..N : w[i] = Decoding[i]
  <2> DEFINE S == {i \in 0..N : w[i] = Decoding[i]}
  <2>1. 0 \in S /\ \A i \in 1..N : i - 1 \in S => i \in S
    <3> HIDE DEF N
    <3>1. 0 \in 0..N /\ \A i \in 1..N : i \in 0..N
      BY <1>5
    <3> QED BY <1>7, <3>1, Zenon
  <2>2. 0..N \subseteq S
    <3> HIDE DEF N, S
    <3> QED BY <1>5, <2>1, UpTo, Zenon
  <2> QED BY <2>2, Zenon
<1>9. N \in 0..N
  BY <1>5
<1> QED
  BY <1>8, <1>9, Zenon DEF Decoded

LEMMA CoveringDecodes ==
  ASSUME Arguments, Covering
  PROVE  Decoded.ok /\ Decoded.ended /\ Decoded.h = whole
<1> DEFINE s == frame.blocks
           N == Len(s)
           L == Len(whole)
<1>1. PICK z \in Tables : Reaches(s, Len(dict), L, DictTables, z)
  BY Zenon DEF Covering
<1>2. PICK e \in Ends(s), t \in TablesAt(s) :
        /\ Run(s, e, t)
        /\ e[0] = Len(dict) /\ e[N] = L /\ t[0] = DictTables /\ t[N] = z
  BY <1>1, Zenon DEF Reaches
<1>3. /\ frame.window = max_offset /\ (data = <<>> => N = 1)
  BY Zenon DEF Covering
<1>4. /\ s \in Seq(Block) /\ e \in [0..N -> Len(dict)..L] /\ t \in [0..N -> Tables]
      /\ \A i \in 1..N : Follows(s[i], e[i - 1], e[i], t[i - 1], t[i])
  BY <1>2, Zenon DEF Run
<1>5. N \in Nat
  BY <1>4
<1>6. /\ Len(dict) \in Nat /\ Len(data) \in Nat /\ L = Len(dict) + Len(data)
      /\ L \in Nat /\ (data = <<>> <=> Len(data) = 0)
  BY Lengths
<1> DEFINE State(i) == [h |-> Bytes(0, e[i]), ok |-> TRUE, ended |-> (i > 0 /\ e[i] = L),
                        tables |-> t[i]]
           w == [i \in 0..N |-> State(i)]
<1> HIDE DEF s, N, L
<1>7. ASSUME NEW i \in 1..N
      PROVE  State(i) = DecodeBlock(State(i - 1), s[i])
  <2>1. i - 1 \in 0..N /\ i \in 0..N /\ i > 0 /\ i \in Nat
    BY <1>5
  <2>2. e[i - 1] \in Len(dict)..L /\ e[i] \in Len(dict)..L
        /\ Follows(s[i], e[i - 1], e[i], t[i - 1], t[i])
    BY <1>4, <2>1
  <2>3. ~(i - 1 > 0 /\ e[i - 1] = L)
    <3>1. CASE data = <<>>
      BY <1>3, <3>1
    <3>2. CASE data # <<>>
      <4>1. e[i - 1] < e[i]
        BY <2>2, <3>2, Zenon DEF Follows
      <4> QED BY <1>6, <2>2, <4>1
    <3> QED BY <3>1, <3>2
  <2>4. State(i - 1) = [h |-> Bytes(0, e[i - 1]), ok |-> TRUE, ended |-> FALSE,
                        tables |-> t[i - 1]]
    BY <2>3, Zenon
  <2>5. DecodeBlock(State(i - 1), s[i])
        = [h |-> Bytes(0, e[i]), ok |-> TRUE, ended |-> (e[i] = L), tables |-> t[i]]
    <3> HIDE DEF State
    <3>1. DecodeBlock([h |-> Bytes(0, e[i - 1]), ok |-> TRUE, ended |-> FALSE,
                       tables |-> t[i - 1]], s[i])
          = [h |-> Bytes(0, e[i]), ok |-> TRUE, ended |-> (e[i] = L), tables |-> t[i]]
      BY <1>3, <2>2, DecodeFollows DEF L
    <3> QED BY <2>4, <3>1, Zenon
  <2>6. State(i) = [h |-> Bytes(0, e[i]), ok |-> TRUE, ended |-> (e[i] = L), tables |-> t[i]]
    <3>1. (i > 0 /\ e[i] = L) = (e[i] = L)
      BY <2>1
    <3> QED BY <3>1, Zenon
  <2> QED BY <2>5, <2>6, Zenon
<1>8. State(0) = DecodeStart
  <2>1. Bytes(0, e[0]) = dict
    BY <1>2, BytesAll
  <2>2. (0 > 0 /\ e[0] = L) = FALSE
    OBVIOUS
  <2> QED BY <1>2, <2>1, <2>2, Zenon DEF DecodeStart
<1>9. Steps(w)
  <2>1. ASSUME NEW i \in 0..N
        PROVE  State(i) = IF i = 0 THEN DecodeStart ELSE DecodeBlock(w[i - 1], s[i])
    <3>1. CASE i = 0
      BY <1>8, <3>1, Zenon
    <3>2. CASE i # 0
      <4>1. i \in 1..N /\ i - 1 \in 0..N
        BY <1>5, <3>2
      <4> HIDE DEF State
      <4>2. w[i - 1] = State(i - 1)
        BY <4>1, Zenon
      <4> QED BY <1>7, <3>2, <4>1, <4>2, Zenon
    <3> QED BY <3>1, <3>2, Zenon
  <2> DEFINE G(n) == IF n = 0 THEN DecodeStart ELSE DecodeBlock(w[n - 1], s[n])
  <2>2. [i \in 0..N |-> State(i)] = [n \in 0..N |-> G(n)]
    <3>1. \A i \in 0..N : State(i) = G(i)
      BY <2>1, Zenon
    <3> HIDE DEF State, G
    <3> QED BY <3>1, Zenon
  <2> QED BY <2>2, Zenon DEF s, N, Turn, Steps
<1>10. Decoded = w[N]
  <2> HIDE DEF w
  <2>1. Len(frame.blocks) \in Nat /\ N = Len(frame.blocks)
    BY <1>5 DEF N, s
  <2> QED BY <1>9, <2>1, DecodingIs, Zenon
<1>11. w[N] = State(N)
  <2> HIDE DEF State
  <2>1. N \in 0..N
    BY <1>5
  <2> QED BY <2>1, Zenon
<1>12. N > 0
  <2>1. CASE data = <<>>
    BY <1>3, <2>1
  <2>2. CASE data # <<>>
    BY <1>2, <1>5, <1>6, <2>2 DEF N, L
  <2> QED BY <2>1, <2>2
<1>13. State(N) = [h |-> whole, ok |-> TRUE, ended |-> TRUE, tables |-> t[N]]
  <2>1. Bytes(0, e[N]) = whole
    BY <1>2, BytesAll DEF N, L
  <2>2. (N > 0 /\ e[N] = L) = TRUE
    BY <1>2, <1>12 DEF N, L
  <2> QED BY <2>1, <2>2, Zenon
<1> QED
  <2>1. Decoded = [h |-> whole, ok |-> TRUE, ended |-> TRUE, tables |-> t[N]]
    BY <1>10, <1>11, <1>13, Zenon
  <2> QED BY <2>1

-----------------------------------------------------------------------------
(* The inductive invariant.                                                *)

(* A worker has written a run from the start of its segment up to start,   *)
(* and the tables it may reuse are those a decoder holds by then.          *)
Works(job, w) ==
  /\ w \in [start : Nat, blocks : Seq(Block), lit : Tables]
  /\ w.start \in From(job)..job.hi
  /\ \E y \in Tables : /\ Reaches(w.blocks, From(job), w.start, DictTables, y)
                       /\ w.lit # None => w.lit = y
  /\ data = <<>> => Len(w.blocks) <= 1

(* What has been joined.                                                   *)
Reached == IF joined = 0 THEN Len(dict) ELSE plan[joined].hi
Collected ==
  /\ joined \in 0..Len(plan) /\ (joined = 0 => out = <<>>)
  /\ \E z \in Tables : Reaches(out, Len(dict), Reached, DictTables, z)
  /\ data = <<>> => Len(out) = joined

(* The work in progress.                                                   *)
Working ==
  /\ Divided(plan) /\ worker \in [1..Len(plan) -> [start : Nat, blocks : Seq(Block), lit : Tables]]
  /\ \A g \in 1..Len(plan) : Works(plan[g], worker[g])
  /\ Collected

(* The frame returned.                                                     *)
Returned ==
  /\ joined = Len(plan)
  /\ frame = [window |-> max_offset, content_size |-> Len(data), blocks |-> out,
              stored |-> IF checksum THEN data ELSE None]

FrameInvariant ==
  /\ Arguments
  /\ pc \in {"plan", "work", "done"}
  /\ pc = "plan" => plan = <<>> /\ worker = <<>> /\ joined = 0 /\ out = <<>>
  /\ pc # "plan" => Working
  /\ pc = "done" => Returned

-----------------------------------------------------------------------------
(* A step leaves the arguments alone, and with them what a decoder does.   *)
LEMMA ArgumentsStay ==
  ASSUME UNCHANGED args
  PROVE  /\ whole' = whole /\ data' = data /\ dict' = dict /\ max_offset' = max_offset
         /\ checksum' = checksum /\ DictTables' = DictTables
         /\ structured' = structured
         /\ Arguments => Arguments'
BY Zenon DEF args, whole, DictTables, Arguments

LEMMA ReachesStays ==
  ASSUME UNCHANGED args, NEW s, NEW from, NEW to, NEW before, NEW after,
         Reaches(s, from, to, before, after)
  PROVE  Reaches(s, from, to, before, after)'
<1>1. whole' = whole /\ data' = data /\ dict' = dict /\ max_offset' = max_offset
  BY ArgumentsStay
<1>2. ASSUME NEW b, NEW f, NEW t, NEW x, NEW y, Follows(b, f, t, x, y)
      PROVE  Follows(b, f, t, x, y)'
  <2>1. Bytes(0, f)' = Bytes(0, f) /\ Bytes(f, t)' = Bytes(f, t)
    BY <1>1, Zenon DEF Bytes
  <2>2. PICK h : h = Bytes(0, f)
    OBVIOUS
  <2>3. BlockBytes(h, b)' = BlockBytes(h, b)
    BY Zenon DEF BlockBytes, SequenceBytes, CopyMatch, PlainBytes
  <2>4. (b \in Block)' <=> b \in Block
    BY Zenon DEF Block, Tables, Byte
  <2> QED
    BY <1>1, <1>2, <2>1, <2>2, <2>3, <2>4, Zenon DEF Follows
<1>3. PICK e \in Ends(s), t \in TablesAt(s) :
        /\ Run(s, e, t)
        /\ e[0] = from /\ e[Len(s)] = to /\ t[0] = before /\ t[Len(s)] = after
  BY Zenon DEF Reaches
<1>4. Run(s, e, t)'
  BY <1>1, <1>2, <1>3, Zenon DEF Run, Block, Tables, Byte
<1>5. e \in Ends(s)' /\ t \in TablesAt(s)'
  BY <1>1, <1>3, Zenon DEF Ends, TablesAt, Tables
<1> QED
  BY <1>3, <1>4, <1>5, Zenon DEF Reaches

LEMMA DividedStays ==
  ASSUME UNCHANGED args, NEW p, Divided(p)
  PROVE  Divided(p)'
BY ArgumentsStay, Zenon DEF Divided, Part, JobRecord, Shared, From, Length

LEMMA WorksStays ==
  ASSUME UNCHANGED args, NEW job, NEW w, Works(job, w)
  PROVE  Works(job, w)'
<1>1. data' = data /\ DictTables' = DictTables
  BY ArgumentsStay
<1>2. PICK y \in Tables : /\ Reaches(w.blocks, From(job), w.start, DictTables, y)
                          /\ w.lit # None => w.lit = y
  BY Zenon DEF Works
<1>3. PICK x : x = DictTables
  OBVIOUS
<1>4. Reaches(w.blocks, From(job), w.start, x, y)'
  BY <1>2, <1>3, ReachesStays
<1> QED
  BY <1>1, <1>2, <1>3, <1>4, Zenon DEF Works

LEMMA CollectedStays ==
  ASSUME UNCHANGED args, joined' = joined, out' = out, plan' = plan, Collected
  PROVE  Collected'
<1>1. dict' = dict /\ data' = data /\ DictTables' = DictTables /\ Reached' = Reached
  BY ArgumentsStay, Zenon DEF Reached
<1>2. PICK z \in Tables : Reaches(out, Len(dict), Reached, DictTables, z)
  BY Zenon DEF Collected
<1>3. PICK s : s = out
  OBVIOUS
<1>4. PICK n : n = Len(dict)
  OBVIOUS
<1>5. PICK m : m = Reached
  OBVIOUS
<1>6. PICK x : x = DictTables
  OBVIOUS
<1>7. Reaches(s, n, m, x, z)'
  BY <1>2, <1>3, <1>4, <1>5, <1>6, ReachesStays, Zenon
<1>8. Reaches(out, Len(dict), Reached, DictTables, z)' /\ z \in Tables'
  BY <1>1, <1>2, <1>3, <1>4, <1>5, <1>6, <1>7, Zenon DEF Tables
<1> QED
  BY <1>1, <1>8, Zenon DEF Collected

(* The workers after a step, judged by the arguments before it.            *)
LEMMA WorkingAfter ==
  ASSUME UNCHANGED args, NEW p, plan' = p, NEW ws, worker' = ws, Divided(p),
         ws \in [1..Len(p) -> [start : Nat, blocks : Seq(Block), lit : Tables]],
         \A g \in 1..Len(p) : Works(p[g], ws[g]), Collected'
  PROVE  Working'
<1>1. Divided(plan)'
  <2>1. Divided(p)'
    BY DividedStays
  <2> QED BY <2>1
<1>2. (\A g \in 1..Len(plan) : Works(plan[g], worker[g]))'
  <2>1. \A g \in 1..Len(p) : Works(p[g], ws[g])'
    BY WorksStays
  <2> QED BY <2>1
<1> QED
  BY <1>1, <1>2, Zenon DEF Working, Block, Tables, Byte

-----------------------------------------------------------------------------
(* The initial states and the steps.                                       *)
LEMMA DictTablesKept == ASSUME Arguments PROVE DictTables \in Tables
<1>1. <<0, 0>> \in Nat \X Nat
  OBVIOUS
<1> QED
  BY <1>1, Zenon DEF DictTables, Tables

LEMMA FrameInit == Init => FrameInvariant
<1> SUFFICES ASSUME Init PROVE FrameInvariant
  OBVIOUS
<1>1. max_offset \in Windows /\ max_offset \in Nat \ {0} /\ JobCounts \subseteq Nat
  <2>1. max_offset \in Windows
    BY Zenon DEF Init
  <2> QED BY <2>1, Constants, FrameEncoderAssumption, Zenon
<1>2. regular_reach \in 0..max_offset
  <2>1. regular_reach = IF entry = "long" THEN max_offset \div 2 ELSE max_offset
    BY Zenon DEF Init
  <2>2. max_offset \div 2 \in Nat /\ max_offset \div 2 <= max_offset
    BY <1>1, Z3
  <2> QED BY <1>1, <2>1, <2>2
<1>3. n_jobs \in Nat
  <2>1. n_jobs \in IF entry = "parallel" THEN JobCounts ELSE {1}
    BY Zenon DEF Init
  <2> QED BY <1>1, <2>1
<1>4. overlap_rlog \in 0..1
  BY DEF Init
<1>5. /\ dict \in IF entry = "dict" THEN Dicts ELSE {<<>>}
      /\ structured \in IF entry = "dict" THEN BOOLEAN ELSE {FALSE}
  BY Zenon DEF Init
<1>6. /\ dict \in Dicts \cup {<<>>} /\ structured \in BOOLEAN
      /\ entry # "dict" => dict = <<>> /\ structured = FALSE
  BY <1>5
<1>7. data \in Datas /\ Minimum(MaxBlockSize, Len(data)) <= max_offset
  BY Zenon DEF Init
<1>8. /\ pc = "plan" /\ plan = <<>> /\ worker = <<>> /\ joined = 0 /\ out = <<>>
  BY Zenon DEF Init
<1> QED
  BY <1>1, <1>2, <1>3, <1>4, <1>6, <1>7, <1>8 DEF FrameInvariant, Arguments

(* The plan: every worker at the front of its segment.                     *)
LEMMA PlanStep ==
  ASSUME FrameInvariant, SeamsExact, Plan
  PROVE  FrameInvariant'
<1> DEFINE jobs == IF entry = "parallel" THEN effective_jobs ELSE 1
           p == IF jobs <= 1 THEN <<SerialJob>> ELSE [g \in 1..jobs |-> Job(g - 1, jobs)]
           ws == [g \in 1..jobs |->
                    [start |-> p[g].lo + p[g].overlap, blocks |-> <<>>, lit |-> DictTables]]
<1>1. /\ pc = "plan" /\ plan' = p /\ worker' = ws /\ UNCHANGED args
      /\ joined' = joined /\ out' = out
      /\ pc' = IF \E g \in 1..jobs : p[g].lo > p[g].hi THEN "panic" ELSE "work"
  BY Zenon DEF Plan
<1>2. Arguments /\ joined = 0 /\ out = <<>>
  BY <1>1, Zenon DEF FrameInvariant
<1>3. PICK n : n = jobs
  OBVIOUS
<1>4. PICK q : q = p
  OBVIOUS
<1> HIDE DEF p, jobs
<1>5. Divided(q) /\ Len(q) = n
  BY <1>2, <1>3, <1>4, PlanDivides, Zenon DEF p, jobs
<1>6. n \in 1..MaxJobs /\ MaxJobs \in Nat /\ n \in Nat
  <2>1. Len(q) \in 1..MaxJobs
    BY <1>5, Zenon DEF Divided
  <2> QED BY <1>5, <2>1, Constants
<1>7. ASSUME NEW g \in 1..n
      PROVE  /\ Part(q[g]) /\ q[g].lo \in Nat /\ q[g].overlap \in Nat /\ q[g].hi \in Nat
             /\ q[g].lo + q[g].overlap = From(q[g]) /\ From(q[g]) \in Nat
             /\ From(q[g]) \in Len(dict)..Len(whole) /\ From(q[g]) <= q[g].hi
  <2>1. Part(q[g])
    BY <1>5 DEF Divided
  <2>2. /\ q[g].lo \in Nat /\ q[g].overlap \in Nat /\ q[g].hi \in Nat
        /\ Len(dict) <= From(q[g]) /\ From(q[g]) <= q[g].hi /\ q[g].hi <= Len(whole)
    BY <2>1 DEF Part, JobRecord
  <2>3. q[g].lo + q[g].overlap = From(q[g])
    BY DEF From
  <2>4. From(q[g]) \in Nat /\ From(q[g]) \in Len(dict)..Len(whole)
    <3>1. From(q[g]) \in Nat
      BY <2>2, <2>3
    <3>2. Len(dict) \in Nat /\ Len(whole) \in Nat
      BY <1>2, Lengths, Zenon
    <3>3. q[g].hi \in Nat
      BY <2>2, Zenon
    <3>4. ASSUME NEW h \in Nat, NEW fr \in Nat, Len(dict) <= fr, fr <= h, h <= Len(whole)
          PROVE  fr \in Len(dict)..Len(whole)
      BY <3>2, <3>4
    <3> QED BY <2>2, <3>1, <3>3, <3>4, Zenon
  <2> QED BY <2>1, <2>2, <2>3, <2>4, Zenon
<1>8. pc' = "work"
  <2>1. \A g \in 1..n : ~(q[g].lo > q[g].hi)
    <3> SUFFICES ASSUME NEW g \in 1..n PROVE ~(q[g].lo > q[g].hi)
      OBVIOUS
    <3> QED BY <1>7
  <2> QED BY <1>1, <1>3, <1>4, <2>1
<1> DEFINE vs == [g \in 1..n |->
                    [start |-> From(q[g]), blocks |-> <<>>, lit |-> DictTables]]
<1>9. worker' = vs
  <2>1. worker' = [g \in 1..n |->
                     [start |-> q[g].lo + q[g].overlap, blocks |-> <<>>, lit |-> DictTables]]
    BY <1>1, <1>3, <1>4, Zenon
  <2> QED BY <1>7, <2>1
<1>10. DictTables \in Tables
  BY <1>2, DictTablesKept
<1>11. ASSUME NEW g \in 1..n
       PROVE  Works(q[g], vs[g])
  <2> DEFINE w == [start |-> From(q[g]), blocks |-> <<>>, lit |-> DictTables]
  <2>1. vs[g] = w
    BY Zenon
  <2>2. w.start = From(q[g]) /\ w.blocks = <<>> /\ w.lit = DictTables
    OBVIOUS
  <2>3. w \in [start : Nat, blocks : Seq(Block), lit : Tables]
    BY <1>7, <1>10
  <2> HIDE DEF w
  <2>4. Reaches(<<>>, From(q[g]), From(q[g]), DictTables, DictTables)
    BY <1>2, <1>7, <1>10, ReachesNone, Zenon
  <2>5. w.start \in From(q[g])..q[g].hi
    BY <1>7, <2>2
  <2>6. Len(w.blocks) <= 1
    BY <2>2
  <2>7. Works(q[g], w)
    BY <1>10, <2>2, <2>3, <2>4, <2>5, <2>6, Zenon DEF Works
  <2> QED BY <2>1, <2>7, Zenon
<1>12. vs \in [1..Len(q) -> [start : Nat, blocks : Seq(Block), lit : Tables]]
  BY <1>5, <1>11, Zenon DEF Works
<1>13. PICK v : v = vs
  OBVIOUS
<1> HIDE DEF vs
<1>14. Collected'
  <2>1. joined' = 0 /\ out' = <<>> /\ plan' = q
    BY <1>1, <1>2, <1>4, Zenon
  <2>2. Reaches(<<>>, Len(dict), Len(dict), DictTables, DictTables)
    <3>1. Len(dict) \in Len(dict)..Len(whole)
      BY <1>2, Lengths
    <3> QED BY <1>2, <1>10, <3>1, ReachesNone, Zenon
  <2>3. PICK x \in Tables : x = DictTables
    BY <1>10
  <2>4. PICK m : m = Len(dict)
    OBVIOUS
  <2>5. Reaches(<<>>, m, m, x, x)'
    BY <1>1, <2>2, <2>3, <2>4, ReachesStays, Zenon
  <2>6. dict' = dict /\ DictTables' = DictTables /\ Reached' = m
    BY <1>1, <2>1, <2>4, ArgumentsStay, Zenon DEF Reached
  <2>7. \E z \in Tables' : Reaches(out, Len(dict), Reached, DictTables, z)'
    BY <2>1, <2>3, <2>4, <2>5, <2>6, Zenon DEF Tables
  <2>8. Len(out') = 0 /\ joined' \in 0..Len(plan')
    BY <1>5, <1>6, <2>1
  <2> QED BY <2>1, <2>7, <2>8, Zenon DEF Collected
<1>15. Working'
  BY <1>1, <1>4, <1>5, <1>9, <1>11, <1>12, <1>13, <1>14, WorkingAfter, Zenon
<1>16. Arguments'
  BY <1>1, <1>2, ArgumentsStay
<1> QED
  BY <1>8, <1>15, <1>16, Zenon DEF FrameInvariant

(* What a loop may offer instead of storing a block.                       *)
LastBlock(g) == plan[g].is_last /\ BlockEnd(g) = plan[g].hi
Stored(g) == store_block(LastBlock(g), Bytes(worker[g].start, BlockEnd(g)))
Offered(g, trial) ==
  \E s \in [at : Nat, offset : Nat, len : Nat] \cup {None}, reuse \in {None, worker[g].lit} :
    /\ s = None \/ Copies(worker[g].start, BlockEnd(g), s)
    /\ trial = compressed_block(g, LastBlock(g), worker[g].start, BlockEnd(g), s, reuse)

(* A worker and its segment.                                               *)
LEMMA WorkerFacts ==
  ASSUME FrameInvariant, pc = "work", NEW g \in 1..Len(plan)
  PROVE  /\ Arguments /\ Working /\ Works(plan[g], worker[g]) /\ Divided(plan)
         /\ Len(plan) \in 1..MaxJobs /\ Len(plan) \in Nat /\ g \in Nat
         /\ worker[g] \in [start : Nat, blocks : Seq(Block), lit : Tables]
         /\ worker[g].start \in Nat /\ plan[g].hi \in Nat
         /\ Len(dict) <= From(plan[g]) /\ From(plan[g]) \in Nat /\ plan[g].lo \in Nat
         /\ From(plan[g]) <= worker[g].start /\ worker[g].start <= plan[g].hi
         /\ plan[g].hi <= Len(whole) /\ plan[g].is_last = (plan[g].hi = Len(whole))
<1>1. Arguments /\ Working
  BY Zenon DEF FrameInvariant
<1>2. Divided(plan) /\ Works(plan[g], worker[g])
  BY <1>1, Zenon DEF Working
<1>3. Len(plan) \in 1..MaxJobs /\ Part(plan[g])
  BY <1>2, Zenon DEF Divided
<1>4. /\ plan[g].lo \in Nat /\ plan[g].overlap \in Nat /\ plan[g].hi \in Nat
      /\ Len(dict) <= From(plan[g]) /\ From(plan[g]) <= plan[g].hi
      /\ plan[g].hi <= Len(whole) /\ plan[g].is_last = (plan[g].hi = Len(whole))
  BY <1>3 DEF Part, JobRecord
<1>5. From(plan[g]) \in Nat
  BY <1>4 DEF From
<1>6. /\ worker[g] \in [start : Nat, blocks : Seq(Block), lit : Tables]
      /\ worker[g].start \in From(plan[g])..plan[g].hi
  BY <1>2, Zenon DEF Works
<1>7. /\ worker[g].start \in Nat /\ From(plan[g]) <= worker[g].start
      /\ worker[g].start <= plan[g].hi
  BY <1>4, <1>5, <1>6
<1>8. Len(plan) \in Nat /\ g \in Nat
  BY <1>3, Constants
<1> QED
  BY <1>1, <1>2, <1>3, <1>4, <1>5, <1>6, <1>7, <1>8

(* The next block of a worker lies where a block may.                      *)
LEMMA NextExtent ==
  ASSUME FrameInvariant, pc = "work", NEW g \in 1..Len(plan), worker[g].start < plan[g].hi
  PROVE  /\ Extent(worker[g].start, BlockEnd(g)) /\ data # <<>>
         /\ LastBlock(g) = (BlockEnd(g) = Len(whole))
         /\ BlockEnd(g) \in Len(dict)..Len(whole) /\ BlockEnd(g) \in Nat
         /\ worker[g].start <= BlockEnd(g) /\ BlockEnd(g) <= plan[g].hi
<1> DEFINE from == worker[g].start
           to == BlockEnd(g)
           hi == plan[g].hi
<1>1. /\ from \in Nat /\ hi \in Nat /\ Len(dict) <= from /\ from < hi /\ hi <= Len(whole)
      /\ plan[g].is_last = (hi = Len(whole)) /\ Arguments
  <2>1. /\ Len(dict) <= From(plan[g]) /\ From(plan[g]) <= from /\ from \in Nat
        /\ From(plan[g]) \in Nat /\ Arguments
    BY WorkerFacts
  <2>2. Len(dict) \in Nat
    BY <2>1, Lengths
  <2> QED BY <2>1, <2>2, WorkerFacts
<1>2. /\ Len(dict) \in Nat /\ Len(data) \in Nat /\ Len(whole) = Len(dict) + Len(data)
      /\ MaxBlockSize \in Nat \ {0} /\ (data = <<>> <=> Len(data) = 0)
  BY <1>1, Lengths
<1>3. to = Minimum(from + MaxBlockSize, hi)
  BY Zenon DEF BlockEnd
<1> HIDE DEF from, to, hi
<1>4. to \in Nat /\ from < to /\ to <= hi /\ to - from <= MaxBlockSize
  BY <1>1, <1>2, <1>3 DEF Minimum
<1>5. data # <<>>
  BY <1>1, <1>2
<1>6. Extent(from, to)
  BY <1>1, <1>2, <1>4, <1>5 DEF Extent
<1>7. (plan[g].is_last /\ to = hi) = (to = Len(whole))
  <2>1. CASE hi = Len(whole)
    BY <1>1, <2>1
  <2>2. CASE hi # Len(whole)
    <3>1. to # Len(whole)
      BY <1>1, <1>2, <1>4, <2>2
    <3> QED BY <1>1, <2>2, <3>1, Zenon
  <2> QED BY <2>1, <2>2
<1>8. to \in Len(dict)..Len(whole) /\ from <= to
  BY <1>1, <1>2, <1>4
<1> QED
  BY <1>4, <1>5, <1>6, <1>7, <1>8, Zenon DEF from, to, hi, LastBlock

LEMMA OfferFollows ==
  ASSUME Arguments, NEW g \in Nat, Extent(worker[g].start, BlockEnd(g)),
         LastBlock(g) <=> BlockEnd(g) = Len(whole), worker[g].lit \in Tables,
         NEW y, worker[g].lit # None => worker[g].lit = y, NEW trial, Offered(g, trial)
  PROVE  Follows(trial, worker[g].start, BlockEnd(g), y, trial.id) /\ trial.id \in Tables
<1>1. PICK s \in [at : Nat, offset : Nat, len : Nat] \cup {None},
           reuse \in {None, worker[g].lit} :
        /\ s = None \/ Copies(worker[g].start, BlockEnd(g), s)
        /\ trial = compressed_block(g, LastBlock(g), worker[g].start, BlockEnd(g), s, reuse)
  BY Zenon DEF Offered
<1>2. reuse \in Tables /\ (reuse # None => reuse = y)
  BY <1>1, Zenon DEF Tables
<1>3. PICK last \in BOOLEAN : last = LastBlock(g)
  BY DEF LastBlock
<1>4. PICK from : from = worker[g].start
  OBVIOUS
<1>5. PICK to : to = BlockEnd(g)
  OBVIOUS
<1>6. /\ Extent(from, to) /\ (last <=> to = Len(whole))
      /\ s = None \/ Copies(from, to, s)
      /\ trial = compressed_block(g, last, from, to, s, reuse)
  BY <1>1, <1>3, <1>4, <1>5
<1>7. Follows(trial, from, to, y, trial.id) /\ trial.id \in Tables
  BY <1>2, <1>6, CompFollows
<1> QED
  BY <1>4, <1>5, <1>6, <1>7, Zenon

(* The block emitted follows what the worker has, and the tables kept are  *)
(* those a decoder holds after it.                                         *)
LEMMA EmitFollows ==
  ASSUME FrameInvariant, NEW g \in 1..Len(plan), pc = "work", worker[g].start < plan[g].hi,
         NEW y \in Tables, worker[g].lit # None => worker[g].lit = y,
         NEW trial, Offered(g, trial) \/ trial = Stored(g),
         NEW block, block = Stored(g) \/ block = trial,
         NEW lit, lit = None \/ lit = Committed(g, block, trial)
  PROVE  \E z \in Tables : /\ Follows(block, worker[g].start, BlockEnd(g), y, z)
                           /\ lit \in Tables /\ (lit # None => lit = z)
<1> DEFINE from == worker[g].start
           to == BlockEnd(g)
           store == Stored(g)
<1>1. /\ Arguments /\ Extent(from, to) /\ LastBlock(g) = (to = Len(whole)) /\ g \in Nat
      /\ worker[g].lit \in Tables /\ None \in Tables
  <2>1. worker[g] \in [start : Nat, blocks : Seq(Block), lit : Tables]
    BY WorkerFacts, Zenon
  <2>2. worker[g].lit \in Tables
    <3> HIDE DEF Tables
    <3> QED BY <2>1
  <2>3. None \in Tables
    BY Zenon DEF Tables
  <2> QED BY <2>2, <2>3, WorkerFacts, NextExtent, Zenon
<1>2. lit = None \/ lit = IF block = trial THEN trial.id ELSE worker[g].lit
  BY Zenon DEF Committed
<1>3. CASE Offered(g, trial) /\ block = trial
  <2>2. LastBlock(g) <=> to = Len(whole)
    BY <1>1
  <2>3. Follows(trial, from, to, y, trial.id) /\ trial.id \in Tables
    BY <1>1, <1>3, <2>2, OfferFollows, Zenon
  <2>4. lit = trial.id \/ lit = None
    BY <1>2, <1>3, Zenon
  <2> QED BY <1>1, <1>3, <2>3, <2>4, Zenon
<1>4. CASE block = store
  <2>1. Follows(store, from, to, y, y)
    <3> HIDE DEF from, to
    <3>1. PICK last : last = LastBlock(g)
      OBVIOUS
    <3>2. last = (to = Len(whole)) /\ store = store_block(last, Bytes(from, to))
      BY <1>1, <3>1, Zenon DEF from, to, Stored
    <3> QED BY <1>1, <3>2, StoreFollows
  <2>2. store.id = None
    <3>1. \A x, c : store_block(x, c).id = None
      BY DEF store_block
    <3> QED BY <3>1, Zenon DEF Stored
  <2>3. CASE Offered(g, trial) /\ block = trial
    BY <1>3, <2>3, Zenon
  <2>4. CASE ~(Offered(g, trial) /\ block = trial)
    <3>1. block = trial => trial = store
      BY <1>4, Zenon
    <3>2. lit = None \/ lit = worker[g].lit
      BY <1>2, <2>2, <3>1, Zenon
    <3> QED BY <1>1, <1>4, <2>1, <3>2, Zenon
  <2> QED BY <2>3, <2>4, Zenon
<1>5. Offered(g, trial) \/ block = store
  OBVIOUS
<1> QED
  BY <1>3, <1>4, <1>5, Zenon

(* A step of one worker.                                                   *)
LEMMA WorkerStep ==
  ASSUME FrameInvariant, pc = "work", NEW g \in 1..Len(plan),
         UNCHANGED <<pc, args, plan, joined, out, frame>>,
         NEW w, worker' = [worker EXCEPT ![g] = w], Works(plan[g], w)
  PROVE  FrameInvariant'
<1>1. /\ Arguments /\ Working /\ Divided(plan) /\ Collected
      /\ worker \in [1..Len(plan) -> [start : Nat, blocks : Seq(Block), lit : Tables]]
      /\ w \in [start : Nat, blocks : Seq(Block), lit : Tables]
  BY Zenon DEF FrameInvariant, Working, Works
<1> DEFINE ws == [worker EXCEPT ![g] = w]
<1>2. /\ ws \in [1..Len(plan) -> [start : Nat, blocks : Seq(Block), lit : Tables]]
      /\ \A h \in 1..Len(plan) : ws[h] = IF h = g THEN w ELSE worker[h]
  BY <1>1, Zenon
<1> HIDE DEF ws
<1>3. \A h \in 1..Len(plan) : Works(plan[h], ws[h])
  BY <1>1, <1>2, Zenon DEF Working
<1>4. Collected'
  BY <1>1, CollectedStays, Zenon
<1>5. Working'
  <2>1. PICK p : p = plan
    OBVIOUS
  <2>2. PICK v : v = ws
    OBVIOUS
  <2>3. /\ plan' = p /\ worker' = v /\ Divided(p) /\ UNCHANGED args
        /\ v \in [1..Len(p) -> [start : Nat, blocks : Seq(Block), lit : Tables]]
        /\ \A h \in 1..Len(p) : Works(p[h], v[h])
    BY <1>1, <1>2, <1>3, <2>1, <2>2, Zenon DEF ws
  <2> QED BY <1>4, <2>3, WorkingAfter, Zenon
<1>6. Arguments' /\ pc' = "work"
  BY <1>1, ArgumentsStay, Zenon
<1> QED
  BY <1>5, <1>6, Zenon DEF FrameInvariant

(* One turn of a block loop.                                               *)
LEMMA EmitStep ==
  ASSUME FrameInvariant, NEW g \in 1..Len(plan), NEW trials, NEW keep,
         \A trial \in trials : Offered(g, trial), Emit(g, trials, keep)
  PROVE  FrameInvariant'
<1> DEFINE from == worker[g].start
           to == BlockEnd(g)
           made == store_block(LastBlock(g), Bytes(from, to))
<1>1. /\ pc = "work" /\ from < plan[g].hi
      /\ UNCHANGED <<pc, args, plan, joined, out, frame>>
  BY Zenon DEF Emit
<1>a. PICK trial \in (IF trials = {} THEN {made} ELSE trials) :
        \E block \in {made, trial} :
          worker' = [worker EXCEPT ![g] =
                       [start |-> to, blocks |-> Append(@.blocks, block),
                        lit |-> IF keep THEN Committed(g, block, trial) ELSE None]]
  BY Zenon DEF Emit, LastBlock
<1>2. PICK block \in {made, trial} :
        worker' = [worker EXCEPT ![g] =
                     [start |-> to, blocks |-> Append(@.blocks, block),
                      lit |-> IF keep THEN Committed(g, block, trial) ELSE None]]
  BY <1>a
<1>3. /\ Arguments /\ Working /\ Works(plan[g], worker[g]) /\ Divided(plan)
      /\ Len(plan) \in 1..MaxJobs
      /\ worker \in [1..Len(plan) -> [start : Nat, blocks : Seq(Block), lit : Tables]]
  BY <1>1, WorkerFacts, Zenon DEF Working
<1>4. PICK y \in Tables : /\ Reaches(worker[g].blocks, From(plan[g]), from, DictTables, y)
                          /\ worker[g].lit # None => worker[g].lit = y
  BY <1>3, Zenon DEF Works
<1>6. PICK lit : lit = IF keep THEN Committed(g, block, trial) ELSE None
  OBVIOUS
<1>7. PICK z \in Tables : /\ Follows(block, from, to, y, z)
                          /\ lit \in Tables /\ (lit # None => lit = z)
  <2>1. /\ Offered(g, trial) \/ trial = Stored(g)
        /\ block = Stored(g) \/ block = trial
    BY <1>a, <1>2, Zenon DEF Stored
  <2>2. lit = None \/ lit = Committed(g, block, trial)
    BY <1>6, Zenon
  <2>3. pc = "work" /\ worker[g].start < plan[g].hi
    BY <1>1
  <2>4. worker[g].lit # None => worker[g].lit = y
    BY <1>4
  <2> QED BY <2>1, <2>2, <2>3, <2>4, EmitFollows, Zenon
<1>8. /\ Extent(from, to) /\ data # <<>> /\ to \in Len(dict)..Len(whole) /\ to \in Nat
      /\ from <= to /\ to <= plan[g].hi
  BY <1>1, NextExtent, Zenon
<1>9. PICK m : m = to
  OBVIOUS
<1> DEFINE blocks == Append(worker[g].blocks, block)
           w == [start |-> m, blocks |-> blocks, lit |-> lit]
<1>10. /\ Reaches(blocks, From(plan[g]), m, DictTables, z)
       /\ worker[g].blocks \in Seq(Block) /\ block \in Block
  <2>1. Follows(block, from, m, y, z) /\ m \in Len(dict)..Len(whole)
    BY <1>7, <1>8, <1>9
  <2> HIDE DEF from, to
  <2>2. PICK before : before = DictTables
    OBVIOUS
  <2>3. Reaches(worker[g].blocks, From(plan[g]), from, before, y)
    BY <1>4, <2>2
  <2>4. /\ Reaches(Append(worker[g].blocks, block), From(plan[g]), m, before, z)
        /\ worker[g].blocks \in Seq(Block) /\ block \in Block
    BY <1>3, <2>1, <2>3, ReachesMore
  <2> QED BY <2>2, <2>4, Zenon
<1>11. blocks \in Seq(Block)
  BY <1>10, AppendProperties
<1>12. worker' = [worker EXCEPT ![g] = w]
  BY <1>2, <1>6, <1>9, Zenon
<1> HIDE DEF blocks
<1>13. /\ w \in [start : Nat, blocks : Seq(Block), lit : Tables]
       /\ w.start = m /\ w.blocks = blocks /\ w.lit = lit
  BY <1>7, <1>8, <1>9, <1>11
<1> HIDE DEF w
<1>14. Works(plan[g], w)
  <2>1. w.start \in From(plan[g])..plan[g].hi
    <3>1. /\ From(plan[g]) \in Nat /\ From(plan[g]) <= from /\ plan[g].hi \in Nat
          /\ from \in Nat
      BY <1>1, WorkerFacts
    <3> QED BY <1>8, <1>9, <1>13, <3>1
  <2> QED BY <1>7, <1>8, <1>10, <1>13, <2>1, Zenon DEF Works
<1> QED
  BY <1>1, <1>12, <1>14, WorkerStep, Zenon

(* A parse offers copies of what a decoder has by then.                    *)
LEMMA MatchesCopy ==
  ASSUME FrameInvariant, pc = "work", NEW g \in 1..Len(plan), NEW reach \in 0..max_offset
  PROVE  \A s \in Matches(g, worker[g].start, BlockEnd(g), reach) :
           Copies(worker[g].start, BlockEnd(g), s)
<1> SUFFICES ASSUME NEW s \in Matches(g, worker[g].start, BlockEnd(g), reach)
             PROVE  Copies(worker[g].start, BlockEnd(g), s)
  OBVIOUS
<1> DEFINE from == worker[g].start
           to == BlockEnd(g)
<1>1. /\ from \in Nat /\ plan[g].lo \in Nat /\ plan[g].hi \in Nat /\ Arguments
  BY WorkerFacts
<1>2. to \in Nat /\ max_offset \in Nat /\ MaxMatch \in Nat
  <2>1. MaxBlockSize \in Nat /\ max_offset \in Nat
    BY <1>1, Lengths
  <2>2. to = Minimum(from + MaxBlockSize, plan[g].hi)
    BY Zenon DEF BlockEnd
  <2> QED BY <1>1, <2>1, <2>2, FrameEncoderAssumption DEF Minimum
<1>3. /\ s \in [at : from..(to - 1), offset : 1..reach, len : 1..MaxMatch]
      /\ s.at + s.len <= to /\ s.at - s.offset >= plan[g].lo
      /\ \A k \in 1..s.len : whole[s.at + k] = whole[s.at + k - s.offset]
  BY Zenon DEF Matches
<1>4. s.at \in from..(to - 1) /\ s.offset \in 1..reach /\ s.len \in 1..MaxMatch
  BY <1>3
<1> HIDE DEF from, to
<1>5. /\ s.at \in Nat /\ s.offset \in Nat /\ s.len \in Nat /\ from <= s.at
      /\ s.offset \in 1..s.at /\ s.offset <= max_offset
  <2>1. s.at - s.offset >= plan[g].lo
    BY <1>3
  <2> DEFINE at == s.at
             off == s.offset
             len == s.len
             lo == plan[g].lo
  <2>2. at \in from..(to - 1) /\ off \in 1..reach /\ len \in 1..MaxMatch /\ at - off >= lo
        /\ lo \in Nat
    BY <1>1, <1>4, <2>1
  <2> HIDE DEF at, off, len, lo
  <2>3. at \in Nat /\ off \in Nat /\ len \in Nat /\ from <= at /\ off \in 1..at
        /\ off <= max_offset
    BY <1>1, <1>2, <2>2
  <2> QED BY <2>3 DEF at, off, len
<1>6. s \in [at : Nat, offset : Nat, len : Nat]
  BY <1>3, <1>5
<1> QED
  BY <1>3, <1>5, <1>6, Zenon DEF Copies, from, to

LEMMA TrialsOffered ==
  ASSUME NEW g, NEW M, \A s \in M : Copies(worker[g].start, BlockEnd(g), s)
  PROVE  \A trial \in Trials(g, M) : Offered(g, trial)
<1> SUFFICES ASSUME NEW trial \in Trials(g, M) PROVE Offered(g, trial)
  OBVIOUS
<1>1. PICK s \in M \cup {None}, reuse \in {None, worker[g].lit} :
        trial = compressed_block(g, LastBlock(g), worker[g].start, BlockEnd(g), s, reuse)
  BY DEF Trials, LastBlock
<1>2. /\ s = None \/ Copies(worker[g].start, BlockEnd(g), s)
      /\ s \in [at : Nat, offset : Nat, len : Nat] \cup {None}
  BY <1>1, Zenon DEF Copies
<1> QED
  BY <1>1, <1>2, Zenon DEF Offered

(* Every loop offers only such blocks.                                     *)
LEMMA EmitBlockStep ==
  ASSUME FrameInvariant, NEW g \in 1..Len(plan), EmitBlock(g)
  PROVE  FrameInvariant'
<1>1. Arguments /\ max_offset \in 0..max_offset /\ regular_reach \in 0..max_offset
  <2>1. Arguments
    BY Zenon DEF FrameInvariant
  <2>2. max_offset \in Nat
    BY <2>1, Lengths
  <2> QED BY <2>1, <2>2 DEF Arguments
<1>2. ASSUME NEW reach \in 0..max_offset, NEW trials, NEW M, pc = "work",
             M \subseteq Matches(g, worker[g].start, BlockEnd(g), reach), trials = Trials(g, M)
      PROVE  \A trial \in trials : Offered(g, trial)
  <2>1. \A s \in M : Copies(worker[g].start, BlockEnd(g), s)
    BY <1>2, MatchesCopy, Zenon
  <2> QED BY <1>2, <2>1, TrialsOffered, Zenon
<1>3. CASE StoreLoop(g)
  <2>1. PICK trials : trials = {}
    OBVIOUS
  <2>2. Emit(g, trials, FALSE)
    BY <1>3, <2>1, Zenon DEF StoreLoop
  <2>3. \A trial \in trials : Offered(g, trial)
    BY <2>1
  <2> QED BY <2>2, <2>3, EmitStep, Zenon
<1>4. CASE HuffmanLoop(g)
  <2>1. PICK trials :
          trials = IF at_least_two_distinct(Bytes(worker[g].start, BlockEnd(g)))
                   THEN {b \in Trials(g, {}) : b.reuse = None} ELSE {}
    OBVIOUS
  <2>2. Emit(g, trials, FALSE) /\ pc = "work"
    BY <1>4, <2>1, Zenon DEF HuffmanLoop, Emit
  <2>3. \A trial \in Trials(g, {}) : Offered(g, trial)
    BY TrialsOffered, Zenon
  <2>4. \A trial \in trials : Offered(g, trial)
    BY <2>1, <2>3, Zenon
  <2> QED BY <2>2, <2>4, EmitStep, Zenon
<1>5. CASE SerialLoop(g) \/ DictLoop(g) \/ compress_segment(g)
  <2>1. PICK M : M = FinderMatches(g, max_offset)
    OBVIOUS
  <2>2. PICK trials : trials = Trials(g, M)
    OBVIOUS
  <2>3. Emit(g, trials, TRUE)
    BY <1>5, <2>1, <2>2, Zenon DEF SerialLoop, DictLoop, compress_segment
  <2>4. pc = "work"
    BY <2>3, Zenon DEF Emit
  <2>5. M \subseteq Matches(g, worker[g].start, BlockEnd(g), max_offset)
    BY <2>1, Zenon DEF FinderMatches
  <2>6. \A trial \in trials : Offered(g, trial)
    BY <1>1, <1>2, <2>2, <2>4, <2>5, Zenon
  <2> QED BY <2>3, <2>6, EmitStep, Zenon
<1>6. CASE LongLoop(g)
  <2>1. PICK M : M = FinderMatches(g, regular_reach)
                       \cup LongMatches(g, worker[g].start, BlockEnd(g))
    OBVIOUS
  <2>2. PICK trials : trials = Trials(g, M)
    OBVIOUS
  <2>3. Emit(g, trials, TRUE)
    BY <1>6, <2>1, <2>2, Zenon DEF LongLoop
  <2>4. pc = "work"
    BY <2>3, Zenon DEF Emit
  <2>5. \A s \in M : Copies(worker[g].start, BlockEnd(g), s)
    <3>1. \A s \in FinderMatches(g, regular_reach) :
            Copies(worker[g].start, BlockEnd(g), s)
      BY <1>1, <2>4, MatchesCopy, Zenon DEF FinderMatches
    <3>2. \A s \in LongMatches(g, worker[g].start, BlockEnd(g)) :
            Copies(worker[g].start, BlockEnd(g), s)
      BY <1>1, <2>4, MatchesCopy, Zenon DEF LongMatches
    <3> QED BY <2>1, <3>1, <3>2, Zenon
  <2>6. \A trial \in trials : Offered(g, trial)
    BY <2>2, <2>5, TrialsOffered, Zenon
  <2> QED BY <2>3, <2>6, EmitStep, Zenon
<1> QED
  BY <1>3, <1>4, <1>5, <1>6, Zenon DEF EmitBlock

(* The one block of an empty input.                                        *)
LEMMA EmptyStep ==
  ASSUME FrameInvariant, EmptyInput
  PROVE  FrameInvariant'
<1>1. /\ pc = "work" /\ data = <<>> /\ worker[1].blocks = <<>>
      /\ worker' = [worker EXCEPT ![1].blocks = <<store_block(TRUE, <<>>)>>]
      /\ UNCHANGED <<pc, args, plan, joined, out, frame>>
  BY Zenon DEF EmptyInput
<1>2. 1 \in 1..Len(plan)
  <2>1. Len(plan) \in 1..MaxJobs /\ MaxJobs \in Nat
    BY <1>1, Constants, Zenon DEF FrameInvariant, Working, Divided
  <2> QED BY <2>1
<1>3. /\ Arguments /\ Works(plan[1], worker[1])
      /\ worker[1] \in [start : Nat, blocks : Seq(Block), lit : Tables]
      /\ worker[1].start \in Nat /\ plan[1].hi \in Nat /\ From(plan[1]) \in Nat
      /\ Len(dict) <= From(plan[1]) /\ From(plan[1]) <= worker[1].start
      /\ worker[1].start <= plan[1].hi /\ plan[1].hi <= Len(whole)
  BY <1>1, <1>2, WorkerFacts
<1>4. PICK from : from = worker[1].start
  OBVIOUS
<1>5. /\ Len(dict) \in Nat /\ Len(whole) = Len(dict) /\ from = Len(dict) /\ from \in Nat
      /\ MaxBlockSize \in Nat
  <2>1. /\ Len(data) = 0 /\ Len(dict) \in Nat /\ Len(whole) = Len(dict) + Len(data)
        /\ MaxBlockSize \in Nat
    BY <1>1, <1>3, Lengths
  <2> QED BY <1>3, <1>4, <2>1
<1>6. Extent(from, from)
  BY <1>1, <1>5 DEF Extent
<1>7. Bytes(from, from) = <<>>
  <2>1. Bytes(from, from) \in Seq(Byte) /\ Len(Bytes(from, from)) = from - from
    BY <1>3, <1>6, ExtentFits
  <2> HIDE DEF Byte
  <2> QED BY <1>5, <2>1
<1>8. PICK y \in Tables : /\ Reaches(worker[1].blocks, From(plan[1]), from, DictTables, y)
                          /\ worker[1].lit # None => worker[1].lit = y
  BY <1>3, <1>4, Zenon DEF Works
<1>9. PICK b : b = store_block(TRUE, <<>>)
  OBVIOUS
<1>10. Follows(b, from, from, y, y)
  <2>1. PICK last : last = TRUE
    OBVIOUS
  <2>2. last = (from = Len(whole)) /\ b = store_block(last, Bytes(from, from))
    BY <1>5, <1>7, <1>9, <2>1
  <2> QED BY <1>3, <1>6, <2>2, StoreFollows
<1>11. /\ Reaches(Append(<<>>, b), From(plan[1]), from, DictTables, y) /\ b \in Block
  <2>1. from \in Len(dict)..Len(whole)
    BY <1>5
  <2>2. PICK x : x = DictTables
    OBVIOUS
  <2>3. Reaches(<<>>, From(plan[1]), from, x, y)
    BY <1>1, <1>8, <2>2
  <2>4. Reaches(Append(<<>>, b), From(plan[1]), from, x, y) /\ b \in Block
    BY <1>3, <1>10, <2>1, <2>3, ReachesMore
  <2> QED BY <2>2, <2>4, Zenon
<1>12. Append(<<>>, b) = <<b>> /\ <<b>> \in Seq(Block) /\ Len(<<b>>) = 1
  BY <1>11
<1> DEFINE w == [worker[1] EXCEPT !.blocks = <<b>>]
<1>13. /\ w \in [start : Nat, blocks : Seq(Block), lit : Tables]
       /\ w.start = from /\ w.blocks = <<b>> /\ w.lit = worker[1].lit
  <2> HIDE DEF Block, Tables
  <2> QED BY <1>3, <1>4, <1>12
<1>14. worker' = [worker EXCEPT ![1] = w]
  BY <1>1, <1>9, Zenon
<1> HIDE DEF w
<1>15. Works(plan[1], w)
  <2>1. w.start \in From(plan[1])..plan[1].hi /\ Len(w.blocks) <= 1
    BY <1>3, <1>4, <1>12, <1>13
  <2>2. Reaches(w.blocks, From(plan[1]), w.start, DictTables, y)
    BY <1>11, <1>12, <1>13, Zenon
  <2> QED BY <1>8, <1>13, <2>1, <2>2, Zenon DEF Works
<1> QED
  BY <1>1, <1>2, <1>14, <1>15, WorkerStep, Zenon

(* A worker that has ended is joined.                                      *)
LEMMA JoinStep ==
  ASSUME FrameInvariant, NEW g \in 1..Len(plan), Join(g)
  PROVE  FrameInvariant'
<1>1. /\ pc = "work" /\ g = joined + 1 /\ worker[g].start >= plan[g].hi
      /\ data = <<>> => worker[g].blocks # <<>>
      /\ joined' = joined + 1 /\ out' = out \o worker[g].blocks
      /\ UNCHANGED <<pc, args, plan, worker, frame>>
  BY Zenon DEF Join, Collect, Ended
<1>2. /\ Arguments /\ Working /\ Works(plan[g], worker[g]) /\ Divided(plan) /\ Collected
      /\ Len(plan) \in 1..MaxJobs /\ Len(plan) \in Nat /\ g \in Nat
      /\ worker[g] \in [start : Nat, blocks : Seq(Block), lit : Tables]
      /\ worker[g].start = plan[g].hi
      /\ From(plan[g]) \in Nat
  <2>1. worker[g].start \in Nat /\ plan[g].hi \in Nat /\ worker[g].start <= plan[g].hi
    BY <1>1, WorkerFacts
  <2>2. worker[g].start = plan[g].hi
    BY <1>1, <2>1
  <2>3. Collected
    BY <1>1, WorkerFacts, Zenon DEF Working
  <2> QED BY <1>1, <2>2, <2>3, WorkerFacts, Zenon
<1>3. PICK n : n = Len(dict)
  OBVIOUS
<1>4. PICK x \in Tables : x = DictTables
  BY <1>2, DictTablesKept
<1>5. PICK hi : hi = plan[g].hi
  OBVIOUS
<1>6. PICK s : s = worker[g].blocks
  OBVIOUS
<1>7. PICK r : r = out
  OBVIOUS
<1>8. PICK y \in Tables : Reaches(s, From(plan[g]), hi, x, y)
  BY <1>2, <1>4, <1>5, <1>6, Zenon DEF Works
<1>9. s \in Seq(Block)
  BY <1>2, <1>6
<1>10. joined \in Nat /\ Reached' = hi
  <2>1. joined \in 0..Len(plan)
    BY <1>2, Zenon DEF Collected
  <2>2. joined' # 0 /\ joined' = g
    BY <1>1, <1>2, <2>1
  <2>3. plan' = plan
    BY <1>1
  <2> QED BY <1>5, <2>1, <2>2, <2>3 DEF Reached
<1>11. /\ \E z \in Tables : Reaches(r \o s, n, hi, x, z)
       /\ joined = 0 => r = <<>> /\ r \o s = s
  <2>1. CASE joined = 0
    <3>1. r = <<>> /\ g = 1
      BY <1>1, <1>2, <1>7, <2>1 DEF Collected
    <3>2. r \o s = s
      BY <1>9, <3>1
    <3>3. From(plan[g]) = n
      BY <1>2, <1>3, <3>1, Zenon DEF Divided
    <3> QED BY <1>8, <3>1, <3>2, <3>3, Zenon
  <2>2. CASE joined # 0
    <3>1. joined \in 1..Len(plan) - 1 /\ Len(plan) > 1
      BY <1>1, <1>2, <1>10, <2>2
    <3>2. From(plan[g]) = plan[joined].hi
      BY <1>1, <1>2, <3>1 DEF Divided
    <3>3. Shared(plan)
      BY <1>2, <3>1, Zenon DEF Divided
    <3>4. x = None
      BY <1>4, <3>3, Zenon DEF Shared, DictTables
    <3>5. Reached = From(plan[g])
      BY <2>2, <3>2, Zenon DEF Reached
    <3>6. PICK z \in Tables : Reaches(r, n, Reached, x, z)
      BY <1>2, <1>3, <1>4, <1>7, Zenon DEF Collected
    <3>7. PICK m : m = Reached
      OBVIOUS
    <3>8. Reaches(r, n, m, None, z) /\ Reaches(s, m, hi, None, y)
      BY <1>8, <3>4, <3>5, <3>6, <3>7, Zenon
    <3>9. \E u \in Tables : Reaches(r \o s, n, hi, None, u)
      BY <1>2, <3>8, ReachesJoin
    <3> QED BY <2>2, <3>4, <3>9, Zenon
  <2> QED BY <2>1, <2>2
<1>12. PICK z \in Tables : Reaches(r \o s, n, hi, x, z)
  BY <1>11
<1>13. PICK u : u = r \o s
  OBVIOUS
<1>14. Reaches(u, n, hi, x, z)'
  BY <1>1, <1>12, <1>13, ReachesStays, Zenon
<1>15. data = <<>> => Len(u) = 1 /\ joined' = 1
  <2>1. SUFFICES ASSUME data = <<>> PROVE Len(u) = 1 /\ joined' = 1
    OBVIOUS
  <2>2. Len(plan) = 1
    <3>1. ~(Len(plan) > 1)
      BY <1>2, <2>1, Zenon DEF Divided, Shared
    <3>2. Len(plan) \in 1..MaxJobs /\ MaxJobs \in Nat
      BY <1>2, Constants, Zenon
    <3> DEFINE N == Len(plan)
    <3>3. ~(N > 1) /\ N \in 1..MaxJobs /\ MaxJobs \in Nat
      BY <3>1, <3>2
    <3> HIDE DEF N
    <3>4. N = 1
      BY <3>3
    <3> QED BY <3>4 DEF N
  <2>3. joined = 0
    BY <1>1, <1>2, <1>10, <2>2
  <2>4. u = s
    BY <1>11, <1>13, <2>3, Zenon
  <2>5. Len(s) <= 1 /\ s # <<>>
    BY <1>1, <1>2, <1>6, <2>1, Zenon DEF Works
  <2>6. Len(s) = 1
    <3>1. Len(s) \in Nat
      BY <1>9
    <3>2. Len(s) = 0 => s = <<>>
      BY <1>9, EmptySeq
    <3> QED BY <2>5, <3>1, <3>2
  <2> QED BY <1>1, <2>3, <2>4, <2>6
<1>16. Collected'
  <2>1. /\ dict' = dict /\ DictTables' = DictTables /\ out' = u /\ plan' = plan /\ data' = data
    BY <1>1, <1>6, <1>7, <1>13, ArgumentsStay, Zenon
  <2>2. Reaches(out, Len(dict), Reached, DictTables, z)' /\ z \in Tables'
    BY <1>3, <1>4, <1>10, <1>14, <2>1, Zenon DEF Tables
  <2>3. joined' \in 0..Len(plan') /\ joined' # 0
    BY <1>1, <1>2, <1>10, <2>1
  <2>4. data' = <<>> => Len(out') = joined'
    BY <1>15, <2>1, Zenon
  <2> QED BY <2>2, <2>3, <2>4, Zenon DEF Collected
<1>17. Working'
  <2>1. PICK p : p = plan
    OBVIOUS
  <2>2. PICK v : v = worker
    OBVIOUS
  <2>3. /\ plan' = p /\ worker' = v /\ Divided(p) /\ UNCHANGED args
        /\ v \in [1..Len(p) -> [start : Nat, blocks : Seq(Block), lit : Tables]]
        /\ \A h \in 1..Len(p) : Works(p[h], v[h])
    BY <1>1, <1>2, <2>1, <2>2, Zenon DEF Working
  <2> QED BY <1>16, <2>3, WorkingAfter, Zenon
<1>18. Arguments' /\ pc' = "work"
  BY <1>1, <1>2, ArgumentsStay, Zenon
<1> QED
  BY <1>17, <1>18, Zenon DEF FrameInvariant

(* The work is left as it is: the frame is put together, or nothing is     *)
(* done.                                                                   *)
LEMMA WorkingStays ==
  ASSUME Working, UNCHANGED <<args, plan, worker, joined, out>>
  PROVE  Working'
<1>1. Collected'
  BY CollectedStays, Zenon DEF Working
<1>2. PICK p : p = plan
  OBVIOUS
<1>3. PICK v : v = worker
  OBVIOUS
<1>4. /\ plan' = p /\ worker' = v /\ Divided(p) /\ UNCHANGED args
      /\ v \in [1..Len(p) -> [start : Nat, blocks : Seq(Block), lit : Tables]]
      /\ \A h \in 1..Len(p) : Works(p[h], v[h])
  BY <1>2, <1>3, Zenon DEF Working
<1> QED
  BY <1>1, <1>4, WorkingAfter, Zenon

LEMMA AssembleStep ==
  ASSUME FrameInvariant, Assemble
  PROVE  FrameInvariant'
<1>1. /\ pc = "work" /\ joined = Len(plan) /\ pc' = "done"
      /\ frame' = [window |-> max_offset, content_size |-> Len(data), blocks |-> out,
                   stored |-> IF checksum THEN data ELSE None]
      /\ UNCHANGED <<args, plan, worker, joined, out>>
  BY Zenon DEF Assemble
<1>2. Working' /\ Arguments'
  BY <1>1, WorkingStays, ArgumentsStay, Zenon DEF FrameInvariant
<1>3. Returned'
  <2>1. max_offset' = max_offset /\ data' = data /\ checksum' = checksum
    BY <1>1, ArgumentsStay, Zenon
  <2> QED BY <1>1, <2>1, Zenon DEF Returned
<1> QED
  BY <1>1, <1>2, <1>3, Zenon DEF FrameInvariant

LEMMA StutterStep ==
  ASSUME FrameInvariant, UNCHANGED vars
  PROVE  FrameInvariant'
<1>1. UNCHANGED <<pc, args, plan, worker, joined, out, frame>>
  BY Zenon DEF vars
<1>2. pc # "plan" => Working'
  BY <1>1, WorkingStays, Zenon DEF FrameInvariant
<1>3. Returned => Returned'
  <2>1. max_offset' = max_offset /\ data' = data /\ checksum' = checksum
    BY <1>1, ArgumentsStay, Zenon
  <2> QED BY <1>1, <2>1, Zenon DEF Returned
<1>4. Arguments'
  BY <1>1, ArgumentsStay, Zenon DEF FrameInvariant
<1> QED
  BY <1>1, <1>2, <1>3, <1>4, Zenon DEF FrameInvariant

LEMMA FrameNext ==
  SeamsExact => (FrameInvariant /\ [Next]_vars => FrameInvariant')
<1> SUFFICES ASSUME SeamsExact, FrameInvariant, [Next]_vars PROVE FrameInvariant'
  OBVIOUS
<1>1. CASE Plan
  BY <1>1, PlanStep
<1>2. CASE EmptyInput
  BY <1>2, EmptyStep
<1>3. CASE Assemble
  BY <1>3, AssembleStep
<1>4. ASSUME NEW g \in 1..Len(plan), EmitBlock(g) \/ Join(g) PROVE FrameInvariant'
  BY <1>4, EmitBlockStep, JoinStep, Zenon
<1>5. CASE UNCHANGED vars
  BY <1>5, StutterStep
<1> QED
  BY <1>1, <1>2, <1>3, <1>4, <1>5, Zenon DEF Next

-----------------------------------------------------------------------------
(* The theorems.                                                           *)

(* Whatever the workers do, in whatever order, the invariant holds: every  *)
(* worker's blocks, and the joined blocks, take a decoder through the      *)
(* input up to where they end (frame.rs, parallel.rs).                     *)
THEOREM Invariance ==
  ASSUME SeamsExact
  PROVE  Spec => []FrameInvariant
<1>1. FrameInvariant /\ [Next]_vars => FrameInvariant'
  BY FrameNext
<1> QED
  BY FrameInit, <1>1, PTL DEF Spec

(* compress_parallel divides the input evenly, into segments of at least   *)
(* MIN_JOB_SIZE, and no worker leaves its own: for every input, number of  *)
(* threads and overlap.                                                    *)
THEOREM PlanIsSound ==
  ASSUME SeamsExact
  PROVE  Spec => []PlanSound
<1>1. FrameInvariant => PlanSound
  <2> SUFFICES ASSUME FrameInvariant PROVE PlanSound
    OBVIOUS
  <2>1. CASE pc = "plan"
    <3>1. plan = <<>> /\ worker = <<>> /\ joined = 0 /\ MaxJobs \in Nat
      BY <2>1, Constants DEF FrameInvariant
    <3>2. Len(plan) = 0 /\ Len(worker) = 0 /\ 1..0 = {}
      BY <3>1
    <3> QED
      BY <2>1, <3>1, <3>2
      DEF PlanSound, SegmentsEven, SegmentsWorthwhile, WorkersInside
  <2>2. CASE pc # "plan"
    <3>1. Working /\ Divided(plan) /\ Arguments
      BY <2>2, Zenon DEF FrameInvariant, Working
    <3>2. /\ Len(plan) \in 1..MaxJobs /\ From(plan[1]) = Len(dict)
          /\ plan[Len(plan)].hi = Len(whole)
          /\ \A g \in 1..Len(plan) - 1 : plan[g].hi = From(plan[g + 1])
          /\ Len(plan) > 1 => Shared(plan)
          /\ MaxJobs \in Nat /\ MinJobSize \in Nat \ {0}
      BY <3>1, Constants, Zenon DEF Divided
    <3>3. SegmentsEven
      <4>1. SUFFICES ASSUME Len(plan) > 1 PROVE SegmentsEven
        BY Zenon DEF SegmentsEven
      <4>2. Len(dict) = 0 /\ Len(whole) = Len(data)
        <5>1. dict = <<>>
          BY <3>2, <4>1, Zenon DEF Shared
        <5> QED BY <3>1, <5>1, Lengths
      <4>3. ASSUME NEW g \in 1..Len(plan), NEW h \in 1..Len(plan)
            PROVE  /\ plan[g].hi - (plan[g].lo + plan[g].overlap) > 0
                   /\ plan[g].hi - (plan[g].lo + plan[g].overlap)
                      <= plan[h].hi - (plan[h].lo + plan[h].overlap) + 1
        <5>1. Length(plan[g]) >= MinJobSize /\ Length(plan[g]) <= Length(plan[h]) + 1
          BY <3>2, <4>1 DEF Shared
        <5>2. Part(plan[g]) /\ Part(plan[h])
          BY <3>1 DEF Divided
        <5>3. /\ plan[g].hi \in Nat /\ plan[g].lo \in Nat /\ plan[g].overlap \in Nat
              /\ plan[h].hi \in Nat /\ plan[h].lo \in Nat /\ plan[h].overlap \in Nat
          BY <5>2 DEF Part, JobRecord
        <5>4. Length(plan[g]) \in Int /\ Length(plan[h]) \in Int
          <6>1. \A a, b, c \in Nat : a - (b + c) \in Int
            OBVIOUS
          <6> QED BY <5>3, <6>1, Zenon DEF Length, From
        <5>5. Length(plan[g]) > 0
          BY <3>2, <5>1, <5>4
        <5> QED BY <5>1, <5>5, Zenon DEF Length, From
      <4> QED
        BY <3>2, <4>2, <4>3, Zenon DEF SegmentsEven, From
    <3>4. SegmentsWorthwhile
      BY <3>2, Zenon DEF SegmentsWorthwhile, Shared, Length, From
    <3>5. WorkersInside
      <4>1. Len(worker) = Len(plan)
        <5>1. worker \in [1..Len(plan) -> [start : Nat, blocks : Seq(Block), lit : Tables]]
          BY <3>1, Zenon DEF Working
        <5>2. Len(plan) \in Nat
          BY <3>2
        <5> HIDE DEF Block, Tables
        <5> QED BY <5>1, <5>2
      <4>2. joined \in 0..Len(plan)
        BY <3>1, Zenon DEF Working, Collected
      <4>3. Len(plan) <= MaxJobs
        BY <3>2
      <4>4. \A g \in 1..Len(plan) :
              worker[g].start \in (plan[g].lo + plan[g].overlap)..plan[g].hi
        BY <3>1, Zenon DEF Working, Works, From
      <4> QED BY <4>1, <4>2, <4>3, <4>4, Zenon DEF WorkersInside
    <3> QED BY <3>3, <3>4, <3>5, Zenon DEF PlanSound
  <2> QED BY <2>1, <2>2
<1> QED
  BY Invariance, <1>1, PTL

(* Every frame the one-shot encoders return decodes to their input:        *)
(* whatever matches are found, whichever blocks are stored and in whatever *)
(* order the workers run, no match leaves the window or the output, no     *)
(* block reuses tables a decoder does not hold, and exactly the last block *)
(* ends the frame.                                                         *)
THEOREM FramesDecode ==
  ASSUME SeamsExact
  PROVE  Spec => []RoundTrip
<1>1. FrameInvariant => RoundTrip
  <2> SUFFICES ASSUME FrameInvariant, pc = "done"
               PROVE  LET d == Decoded
                      IN  /\ d.ok /\ d.ended /\ d.h = whole
                          /\ frame.content_size = Len(d.h) - Len(dict)
                          /\ checksum => frame.stored = data
    BY Zenon DEF RoundTrip
  <2>1. Arguments /\ Working /\ Returned /\ Collected /\ Divided(plan)
    BY Zenon DEF FrameInvariant, Working
  <2>2. /\ frame.window = max_offset /\ frame.content_size = Len(data)
        /\ frame.blocks = out /\ (checksum => frame.stored = data) /\ joined = Len(plan)
    BY <2>1 DEF Returned
  <2>3. Len(plan) \in Nat /\ Len(plan) # 0 /\ Reached = Len(whole)
    <3>1. Len(plan) \in 1..MaxJobs /\ MaxJobs \in Nat /\ plan[Len(plan)].hi = Len(whole)
      BY <2>1, Constants, Zenon DEF Divided
    <3>2. Len(plan) \in Nat /\ Len(plan) # 0
      BY <3>1
    <3> QED BY <2>2, <3>1, <3>2, Zenon DEF Reached
  <2>4. Covering
    <3>1. \E z \in Tables : Reaches(frame.blocks, Len(dict), Len(whole), DictTables, z)
      BY <2>1, <2>2, <2>3, Zenon DEF Collected
    <3>2. data = <<>> => Len(frame.blocks) = 1
      <4>1. data = <<>> => ~(Len(plan) > 1)
        BY <2>1, Zenon DEF Divided, Shared
      <4>2. data = <<>> => Len(plan) = 1
        <5>1. \A n \in Nat : n # 0 /\ ~(n > 1) => n = 1
          OBVIOUS
        <5> QED BY <2>3, <4>1, <5>1, Zenon
      <4> QED BY <2>1, <2>2, <4>2, Zenon DEF Collected
    <3> QED BY <2>2, <3>1, <3>2, Zenon DEF Covering
  <2>5. Decoded.ok /\ Decoded.ended /\ Decoded.h = whole
    BY <2>1, <2>4, CoveringDecodes
  <2>6. Len(data) = Len(whole) - Len(dict)
    BY <2>1, Lengths
  <2> QED BY <2>2, <2>5, <2>6, Zenon
<1> QED
  BY Invariance, <1>1, PTL
=============================================================================
