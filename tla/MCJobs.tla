------------------------------- MODULE MCJobs -------------------------------
\* Jobs with a few observers; they differ in nothing but their names.
EXTENDS Jobs, TLC

Callers == Permutations(Observers)
=============================================================================
