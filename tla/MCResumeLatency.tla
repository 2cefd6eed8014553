-------------------------- MODULE MCResumeLatency ---------------------------
EXTENDS ResumeLatency

\* Two buckets, a short and a long resume.
MCLatency == <<1, 3>>
=============================================================================
