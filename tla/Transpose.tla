------------------------------ MODULE Transpose ------------------------------
(***************************************************************************)
(* The application transpose (applications/transpose/main.c): an image of  *)
(* NN lines is cut into one input and one output buffer per cluster; each  *)
(* task transposes its lines from the input buffer of its own cluster into *)
(* the output buffers of all of them. The first turn makes the transposed  *)
(* file from the initial one, the second one the restored file from it.    *)
(*                                                                         *)
(* The task lpid = 0 of a cluster does its input and output. Clusters are  *)
(* numbered as in the code (cluster_id). A byte of a buffer is the pair of *)
(* its cluster and its index, a byte of a file its offset.                 *)
(***************************************************************************)
EXTENDS SpmdSteps

\* The bytes of the buffer of a cluster, and of the file that it loads and stores.
npixels(NN, nclusters) == (NN * NN) \div nclusters
Offset(NN, nclusters, c) == ((NN * NN) * c) \div nclusters
Bytes(buf, NN, nclusters, c) == {buf} \X {c} \X Interval(0, npixels(NN, nclusters))
Chunk(file, NN, nclusters, c) ==
  {file} \X Interval(Offset(NN, nclusters, c), npixels(NN, nclusters))

\* Faulty variant: the bytes are left in the cluster of their line.
MovesInside(NN, nclusters, l) ==
  LET nlc == NN \div nclusters
  IN {[from |-> <<l \div nlc, (l % nlc) * NN + p>>, to |-> <<l \div nlc, (p % nlc) * NN + l>>] :
        p \in 0 .. NN - 1}

\* The bytes that the transposition of line l moves.
Moves(NN, nclusters, l) ==
  LET nlc == NN \div nclusters
  IN {[from |-> <<l \div nlc, (l % nlc) * NN + p>>, to |-> <<p \div nlc, (p % nlc) * NN + l>>] :
        p \in 0 .. NN - 1}

\* The lines of a task.
LinesOf(NN, ntasks, task) == Interval(task * (NN \div ntasks), NN \div ntasks)

Heap(c) == <<"heap", c>>
Buffers(c) == <<"buffers", c>>          \* buf_in[c], buf_out[c]
Dates(c, lpid) == <<"dates", c, lpid>>  \* LOAD_START[c][lpid], ..., STOR_END[c][lpid]

\* The first and the second file of a turn. The initial file was there before.
FileIn(turn) == IF turn = 0 THEN "initial" ELSE "transposed"
FileOut(turn) == IF turn = 0 THEN "transposed" ELSE "restored"

\* The four phases. Every task writes the dates of the beginning and of the end.
Load(NN, nclusters, c, lpid, turn) ==
  IF lpid = 0
  THEN Run({Buffers(c)} \cup (IF turn = 0 THEN {} ELSE Chunk(FileIn(turn), NN, nclusters, c)),
           Bytes("in", NN, nclusters, c) \cup {Dates(c, lpid)})
  ELSE Run({}, {Dates(c, lpid)})

TransposeLines(NN, nclusters, nprocs, c, lpid) ==
  LET ntasks == nclusters * nprocs
      moves == UNION {Moves(NN, nclusters, l) : l \in LinesOf(NN, ntasks, c * nprocs + lpid)}
  IN Run({Buffers(d) : d \in 0 .. nclusters - 1}
           \cup {<<"in", m.from[1], m.from[2]>> : m \in moves},
         {<<"out", m.to[1], m.to[2]>> : m \in moves} \cup {Dates(c, lpid)})

\* The task displays its part of the buffer of its cluster.
DisplayPart(NN, nclusters, nprocs, c, lpid) ==
  LET npt == (NN * NN) \div (nclusters * nprocs)
  IN Run({Buffers(c)} \cup ({"out"} \X {c} \X Interval(lpid * npt, npt)),
         ({"frame buffer"} \X Interval(npt * (c * nprocs + lpid), npt)) \cup {Dates(c, lpid)})

Store(NN, nclusters, c, lpid, turn) ==
  IF lpid = 0
  THEN Run({Buffers(c)} \cup Bytes("out", NN, nclusters, c),
           Chunk(FileOut(turn), NN, nclusters, c) \cup {Dates(c, lpid)})
  ELSE Run({}, {Dates(c, lpid)})

\* P[0,0,0] displays the dates of all tasks.
Instrumentation(nclusters, nprocs) ==
  Run({Dates(c, lpid) : c \in 0 .. nclusters - 1, lpid \in 0 .. nprocs - 1}, {})

\* One turn of the main loop.
Turn(NN, nclusters, nprocs, c, lpid, turn) ==
  LET Sync == Wait("barrier", nclusters * nprocs)
  IN Load(NN, nclusters, c, lpid, turn) \o Sync
     \o TransposeLines(NN, nclusters, nprocs, c, lpid) \o Sync
     \o DisplayPart(NN, nclusters, nprocs, c, lpid) \o Sync
     \o Store(NN, nclusters, c, lpid, turn) \o Sync
     \o Only(c = 0 /\ lpid = 0, Instrumentation(nclusters, nprocs)) \o Sync

\* P[0,0,0] initialises the heaps and the barrier; lpid = 0, the buffers of its cluster.
GlobalInit(nclusters) ==
  LET heaps == {Heap(c) : c \in 0 .. nclusters - 1}
  IN Run({}, heaps) \o Run(heaps, {Barrier("barrier")}) \o Raise(<<"global_init_ok">>)
LocalInit(c) == Run({Heap(c)}, {Buffers(c)}) \o Raise(<<"local_init_ok", c>>)

main(NN, nclusters, nprocs, c, lpid) ==
  LET TurnOf(turn) == Turn(NN, nclusters, nprocs, c, lpid, turn)
  IN (IF c = 0 /\ lpid = 0 THEN GlobalInit(nclusters) ELSE Await(<<"global_init_ok">>))
     \o (IF lpid = 0 THEN LocalInit(c) ELSE Await(<<"local_init_ok", c>>))
     \o Sequence(TurnOf, 0, 1)
     \o Only(lpid = 0, Run({Buffers(c)}, Bytes("in", NN, nclusters, c)
                                           \cup Bytes("out", NN, nclusters, c)))

Program(NN, nclusters, nprocs) ==
  [t \in 0 .. nclusters * nprocs - 1 |->
     main(NN, nclusters, nprocs, t \div nprocs, t % nprocs)]

-----------------------------------------------------------------------------
(* The values                                                              *)

\* The bytes in the buffers when all the tasks have transposed their lines.
BufferOut(file, NN, nclusters, ntasks) ==
  LET moves == UNION {Moves(NN, nclusters, l) :
                        l \in UNION {LinesOf(NN, ntasks, t) : t \in 0 .. ntasks - 1}}
      BufferIn(b) == file[Offset(NN, nclusters, b[1]) + b[2]]
  IN [b \in {m.to : m \in moves} |-> BufferIn((CHOOSE m \in moves : m.to = b).from)]

\* The file that one turn stores, and the image that it displays.
Written(file, NN, nclusters, ntasks) ==
  LET out == BufferOut(file, NN, nclusters, ntasks)
      At(b) == Offset(NN, nclusters, b[1]) + b[2]
  IN [o \in {At(b) : b \in DOMAIN out} |-> out[CHOOSE b \in DOMAIN out : At(b) = o]]
Displayed(file, NN, nclusters, nprocs) ==
  LET out == BufferOut(file, NN, nclusters, nclusters * nprocs)
      npt == (NN * NN) \div (nclusters * nprocs)
      Of(o) == LET task == o \div npt IN <<task \div nprocs, (task % nprocs) * npt + (o % npt)>>
  IN [o \in 0 .. NN * NN - 1 |-> out[Of(o)]]

\* The first turn makes and displays the transposed image, the second one gives the
\* initial one back, whatever the number of tasks (main).
Transposes(NN, nclusters, nprocs) ==
  LET initial == [o \in 0 .. NN * NN - 1 |-> o]
      transposed == Written(initial, NN, nclusters, nclusters * nprocs)
  IN /\ transposed = [o \in 0 .. NN * NN - 1 |-> (o % NN) * NN + o \div NN]
     /\ Displayed(initial, NN, nclusters, nprocs) = transposed
     /\ Written(transposed, NN, nclusters, nclusters * nprocs) = initial

=============================================================================
