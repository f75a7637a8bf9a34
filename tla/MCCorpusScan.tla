---------------------------- MODULE MCCorpusScan ----------------------------
(***************************************************************************)
(* Corpora of three artifacts: a heavy one between light ones, for two     *)
(* children and for one, with one artifact listed under a wrong identity;  *)
(* and a light one between two middling ones, given by their paths.        *)
(***************************************************************************)
EXTENDS CorpusScan

Corpus(jobs, kind, weight, wrong) ==
    [jobs |-> jobs, kind |-> kind, weight |-> weight, wrong |-> wrong]

MCCorpora ==
    {Corpus(2, "resumable", <<1, 4, 1>>, {3}),
     Corpus(1, "resumable", <<1, 4, 1>>, {1}),
     Corpus(1, "paths", <<2, 1, 2>>, {})}

=============================================================================
