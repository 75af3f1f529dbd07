---------------------------- MODULE MCCacheEvict -----------------------------
(* Instances of CacheEvict for TLC. *)
EXTENDS CacheEvict

\* First in first out without a grace period, where nothing fails, and least
\* recently used with one, where anything may.
TwoConfs == {<<"FIFO", 0, FALSE>>, <<"LRU", 1, TRUE>>}

\* Least recently used with a grace period, and nothing fails.
GraceConf == {<<"LRU", 1, FALSE>>}
=============================================================================
