----------------------- MODULE MCAttachmentLifecycle -----------------------
EXTENDS AttachmentLifecycle
=============================================================================
