------------------------ MODULE MCVoiceConsentStore ------------------------
EXTENDS VoiceConsentStore, TLC
=============================================================================
