--------------------------- MODULE MCAgentSession ---------------------------
(***************************************************************************)
(* Instances of AgentSession for TLC: three serve threads over a pool of   *)
(* two, captures that reach every padding and number of records.           *)
(***************************************************************************)
EXTENDS AgentSession

\* A text of n bytes.
Word(letter, n) == [i \in 1..n |-> letter]

MCMmap(addr, len, path, id) ==
  [pid |-> 1234, addr |-> addr, len |-> len, path |-> path, build_id |-> id]

MCSample(ip, cpu, time, chain) ==
  [ip |-> ip, cpu |-> cpu, time |-> time, period |-> 4000, callchain |-> chain]

MCContent(comm, mmaps, samples) ==
  [comm |-> [pid |-> 1234, tid |-> 1234, comm |-> comm], mmaps |-> mmaps, samples |-> samples]

\* The committed capture, with addresses that stand for themselves.
Fixture == MCContent(<<"l", "o", "o", "p">>,
  <<MCMmap("400000", "1000", Word("p", 13), "aa"),
    MCMmap("7f0000000000", "200000", Word("q", 18), "bb")>>,
  <<MCSample("400100", 2, 1000, <<"400100", "400050">>),
    MCSample("7f0000000100", 2, 2000, <<"7f0000000100", "400100">>),
    MCSample("400100", 3, 3000, <<"400100">>)>>)

\* Texts of one to eight bytes: every residue that Pad meets.
Paddings == {
  MCContent(Word("c", n),
    <<MCMmap("400000", "1000", Word("p", 9 - n), "aa")>>,
    <<MCSample("400100", 2, 1000, <<"400100">>)>>) : n \in 1..8}

\* No mapping, no sample, no frame.
Sparse == {
  MCContent(<<"c">>, <<>>, <<>>),
  MCContent(<<"c">>, <<>>, <<MCSample("400100", 0, 1000, <<>>), MCSample("400100", 1, 2000, <<>>)>>)}

MCContents == {Fixture} \cup Paddings \cup Sparse
=============================================================================
