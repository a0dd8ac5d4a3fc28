----------------------------- MODULE MCLimiter -----------------------------
EXTENDS Limiter, TLC

\* Probe up, drain: gains large enough to move the smallest limits.
ShortCycle == <<2048, 512>>
============================================================================
