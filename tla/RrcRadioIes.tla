---------------------------- MODULE RrcRadioIes ----------------------------
(***************************************************************************)
(* RRC information elements of 36.331 section 6.3.2: the radio resource    *)
(* configuration (MAC, PHY, RLC and PDCP parameters, bearers to add and    *)
(* release).                                                               *)
(* One layout per function, named without the prefix liblte_rrc_.  Numbers *)
(* in Is, Arm and Enum are values and sizes of enumerations of liblte_rrc.h. *)
(***************************************************************************)
EXTENDS RrcOtherIes

pack_antenna_info_common_ie == <<Fld("", 2)>>

unpack_antenna_info_common_ie == <<Fld("", 2)>>

pack_antenna_info_dedicated_ie ==
  <<Fld("codebook_subset_restriction_present", 1), Fld("tx_mode", 3),
    When(On("codebook_subset_restriction_present"),
      <<Fld("codebook_subset_restriction_choice", 3),
        Switch("codebook_subset_restriction_choice",
          <<Arm({0}, <<Fld("codebook_subset_restriction", 2)>>),
            Arm({1, 4, 6}, <<Fld("codebook_subset_restriction", 4)>>),
            Arm({2}, <<Fld("codebook_subset_restriction", 6)>>),
            Arm({3},
              <<Fld("codebook_subset_restriction.hi", 32),
                Fld("codebook_subset_restriction.lo", 32)>>),
            Arm({5, 7}, <<Fld("codebook_subset_restriction", 16)>>)>>, <<>>)>>),
    Fld("ue_tx_antenna_selection_setup_present", 1),
    When(On("ue_tx_antenna_selection_setup_present"), <<Fld("ue_tx_antenna_selection_setup", 1)>>)>>

unpack_antenna_info_dedicated_ie ==
  <<Fld("codebook_subset_restriction_present", 1), Fld("tx_mode", 3),
    When(On("codebook_subset_restriction_present"),
      <<Fld("codebook_subset_restriction_choice", 3),
        Switch("codebook_subset_restriction_choice",
          <<Arm({0}, <<Fld("codebook_subset_restriction", 2)>>),
            Arm({1, 4, 6}, <<Fld("codebook_subset_restriction", 4)>>),
            Arm({2}, <<Fld("codebook_subset_restriction", 6)>>),
            Arm({3},
              <<Fld("codebook_subset_restriction.hi", 32),
                Fld("codebook_subset_restriction.lo", 32)>>),
            Arm({5, 7}, <<Fld("codebook_subset_restriction", 16)>>)>>, <<>>)>>),
    Fld("ue_tx_antenna_selection_setup_present", 1),
    When(On("ue_tx_antenna_selection_setup_present"), <<Fld("ue_tx_antenna_selection_setup", 1)>>)>>

pack_cqi_report_config_ie ==
  <<Flags(<<"report_mode_aperiodic_present", "report_periodic_present">>),
    When(On("report_mode_aperiodic_present"), <<Fld("report_mode_aperiodic", 3)>>),
    Bias("nom_pdsch_rs_epre_offset", 3, 1),
    When(On("report_periodic_present"),
      <<Fld("report_periodic_setup_present", 1),
        When(On("report_periodic_setup_present"),
          <<Fld("report_periodic.ri_cnfg_idx_present", 1),
            Fld("report_periodic.pucch_resource_idx", 11), Fld("report_periodic.pmi_cnfg_idx", 10),
            Fld("report_periodic.format_ind_periodic", 1),
            When(Is("report_periodic.format_ind_periodic", 1),
              <<Bias("report_periodic.format_ind_periodic_subband_k", 2, -1)>>),
            When(On("report_periodic.ri_cnfg_idx_present"),
              <<Fld("report_periodic.ri_cnfg_idx", 10)>>),
            Fld("report_periodic.simult_ack_nack_and_cqi", 1)>>)>>)>>

unpack_cqi_report_config_ie ==
  <<Flags(<<"report_mode_aperiodic_present", "report_periodic_present">>),
    When(On("report_mode_aperiodic_present"), <<Fld("report_mode_aperiodic", 3)>>),
    Bias("nom_pdsch_rs_epre_offset", 3, 1),
    When(On("report_periodic_present"),
      <<Fld("report_periodic_setup_present", 1),
        When(On("report_periodic_setup_present"),
          <<Fld("report_periodic.ri_cnfg_idx_present", 1),
            Fld("report_periodic.pucch_resource_idx", 11), Fld("report_periodic.pmi_cnfg_idx", 10),
            Fld("report_periodic.format_ind_periodic", 1),
            When(Is("report_periodic.format_ind_periodic", 1),
              <<Bias("report_periodic.format_ind_periodic_subband_k", 2, -1)>>),
            When(On("report_periodic.ri_cnfg_idx_present"),
              <<Fld("report_periodic.ri_cnfg_idx", 10)>>),
            Fld("report_periodic.simult_ack_nack_and_cqi", 1)>>)>>)>>

pack_drb_identity_ie == <<Bias("", 5, -1)>>

unpack_drb_identity_ie == <<Bias("", 5, -1)>>

pack_logical_channel_config_ie ==
  <<Fill(0, 1), Fld("ul_specific_params_present", 1),
    When(On("ul_specific_params_present"),
      <<Fld("ul_specific_params.log_chan_group_present", 1),
        Bias("ul_specific_params.priority", 4, -1),
        Fld("ul_specific_params.prioritized_bit_rate", 4),
        Fld("ul_specific_params.bucket_size_duration", 3),
        When(On("ul_specific_params.log_chan_group_present"),
          <<Fld("ul_specific_params.log_chan_group", 2)>>)>>)>>

unpack_logical_channel_config_ie ==
  <<Flags(<<"ext", "ul_specific_params_present">>),
    When(On("ul_specific_params_present"),
      <<Fld("ul_specific_params.log_chan_group_present", 1),
        Bias("ul_specific_params.priority", 4, -1),
        Fld("ul_specific_params.prioritized_bit_rate", 4),
        Fld("ul_specific_params.bucket_size_duration", 3),
        When(On("ul_specific_params.log_chan_group_present"),
          <<Fld("ul_specific_params.log_chan_group", 2)>>)>>),
    Ext("ext")>>

pack_time_alignment_timer_ie == <<Fld("", 3)>>

pack_mac_main_config_ie ==
  <<Fill(0, 1), Flags(<<"ulsch_cnfg_present", "drx_cnfg_present", "phr_cnfg_present">>),
    When(On("ulsch_cnfg_present"),
      <<Flags(<<"ulsch_cnfg.max_harq_tx_present", "ulsch_cnfg.periodic_bsr_timer_present">>),
        When(On("ulsch_cnfg.max_harq_tx_present"), <<Fld("ulsch_cnfg.max_harq_tx", 4)>>),
        When(On("ulsch_cnfg.periodic_bsr_timer_present"),
          <<Fld("ulsch_cnfg.periodic_bsr_timer", 4)>>),
        Fld("ulsch_cnfg.retx_bsr_timer", 3), Fld("ulsch_cnfg.tti_bundling", 1)>>),
    When(On("drx_cnfg_present"),
      <<Fld("drx_cnfg.setup_present", 1),
        When(On("drx_cnfg.setup_present"),
          <<Fld("drx_cnfg.short_drx_present", 1), Fld("drx_cnfg.on_duration_timer", 4),
            Fld("drx_cnfg.drx_inactivity_timer", 5), Fld("drx_cnfg.drx_retx_timer", 3),
            Fld("drx_cnfg.long_drx_cycle_start_offset_choice", 4),
            Switch("drx_cnfg.long_drx_cycle_start_offset_choice",
              <<Arm({0}, <<Fld("drx_cnfg.long_drx_cycle_start_offset", 4)>>),
                Arm({1, 2}, <<Fld("drx_cnfg.long_drx_cycle_start_offset", 5)>>),
                Arm({3, 4}, <<Fld("drx_cnfg.long_drx_cycle_start_offset", 6)>>),
                Arm({5, 6}, <<Fld("drx_cnfg.long_drx_cycle_start_offset", 7)>>),
                Arm({7, 8}, <<Fld("drx_cnfg.long_drx_cycle_start_offset", 8)>>),
                Arm({9, 10}, <<Fld("drx_cnfg.long_drx_cycle_start_offset", 9)>>),
                Arm({11, 12}, <<Fld("drx_cnfg.long_drx_cycle_start_offset", 10)>>),
                Arm({13, 14}, <<Fld("drx_cnfg.long_drx_cycle_start_offset", 11)>>),
                Arm({15}, <<Fld("drx_cnfg.long_drx_cycle_start_offset", 12)>>)>>, <<>>),
            When(On("drx_cnfg.short_drx_present"),
              <<Fld("drx_cnfg.short_drx_cycle", 4), Bias("drx_cnfg.short_drx_cycle_timer", 4, -1)>>)>>)>>),
    Sub("time_alignment_timer", pack_time_alignment_timer_ie),
    When(On("phr_cnfg_present"),
      <<Fld("phr_cnfg.setup_present", 1),
        When(On("phr_cnfg.setup_present"),
          <<Fld("phr_cnfg.periodic_phr_timer", 3), Fld("phr_cnfg.prohibit_phr_timer", 3),
            Fld("phr_cnfg.dl_pathloss_change", 2)>>)>>)>>

unpack_time_alignment_timer_ie == <<Fld("", 3)>>

unpack_mac_main_config_ie ==
  <<Flags(<<"ext", "ulsch_cnfg_present", "drx_cnfg_present", "phr_cnfg_present">>),
    When(On("ulsch_cnfg_present"),
      <<Flags(<<"ulsch_cnfg.max_harq_tx_present", "ulsch_cnfg.periodic_bsr_timer_present">>),
        When(On("ulsch_cnfg.max_harq_tx_present"), <<Fld("ulsch_cnfg.max_harq_tx", 4)>>),
        When(On("ulsch_cnfg.periodic_bsr_timer_present"),
          <<Fld("ulsch_cnfg.periodic_bsr_timer", 4)>>),
        Fld("ulsch_cnfg.retx_bsr_timer", 3), Fld("ulsch_cnfg.tti_bundling", 1)>>),
    When(On("drx_cnfg_present"),
      <<Fld("drx_cnfg.setup_present", 1),
        When(On("drx_cnfg.setup_present"),
          <<Fld("drx_cnfg.short_drx_present", 1), Fld("drx_cnfg.on_duration_timer", 4),
            Fld("drx_cnfg.drx_inactivity_timer", 5), Fld("drx_cnfg.drx_retx_timer", 3),
            Fld("drx_cnfg.long_drx_cycle_start_offset_choice", 4),
            Switch("drx_cnfg.long_drx_cycle_start_offset_choice",
              <<Arm({0}, <<Fld("drx_cnfg.long_drx_cycle_start_offset", 4)>>),
                Arm({1, 2}, <<Fld("drx_cnfg.long_drx_cycle_start_offset", 5)>>),
                Arm({3, 4}, <<Fld("drx_cnfg.long_drx_cycle_start_offset", 6)>>),
                Arm({5, 6}, <<Fld("drx_cnfg.long_drx_cycle_start_offset", 7)>>),
                Arm({7, 8}, <<Fld("drx_cnfg.long_drx_cycle_start_offset", 8)>>),
                Arm({9, 10}, <<Fld("drx_cnfg.long_drx_cycle_start_offset", 9)>>),
                Arm({11, 12}, <<Fld("drx_cnfg.long_drx_cycle_start_offset", 10)>>),
                Arm({13, 14}, <<Fld("drx_cnfg.long_drx_cycle_start_offset", 11)>>),
                Arm({15}, <<Fld("drx_cnfg.long_drx_cycle_start_offset", 12)>>)>>, <<>>),
            When(On("drx_cnfg.short_drx_present"),
              <<Fld("drx_cnfg.short_drx_cycle", 4), Bias("drx_cnfg.short_drx_cycle_timer", 4, -1)>>)>>)>>),
    Sub("time_alignment_timer", unpack_time_alignment_timer_ie),
    When(On("phr_cnfg_present"),
      <<Fld("phr_cnfg.setup_present", 1),
        When(On("phr_cnfg.setup_present"),
          <<Fld("phr_cnfg.periodic_phr_timer", 3), Fld("phr_cnfg.prohibit_phr_timer", 3),
            Fld("phr_cnfg.dl_pathloss_change", 2)>>)>>),
    Ext("ext")>>

pack_pdcp_config_ie ==
  <<Fill(0, 1),
    Flags(<<"discard_timer_present", "rlc_am_status_report_required_present",
      "rlc_um_pdcp_sn_size_present">>),
    When(On("discard_timer_present"), <<Fld("discard_timer", 3)>>),
    When(On("rlc_am_status_report_required_present"), <<Fld("rlc_am_status_report_required", 1)>>),
    When(On("rlc_um_pdcp_sn_size_present"), <<Fld("rlc_um_pdcp_sn_size", 1)>>),
    Fld("hdr_compression_rohc", 1),
    When(On("hdr_compression_rohc"),
      <<Fill(0, 1), Bias("hdr_compression_max_cid", 14, -1),
        Flags(<<"hdr_compression_profile_0001", "hdr_compression_profile_0002",
          "hdr_compression_profile_0003", "hdr_compression_profile_0004",
          "hdr_compression_profile_0006", "hdr_compression_profile_0101",
          "hdr_compression_profile_0102", "hdr_compression_profile_0103",
          "hdr_compression_profile_0104">>)>>)>>

unpack_pdcp_config_ie ==
  <<Flags(<<"ext", "discard_timer_present", "rlc_am_status_report_required_present",
      "rlc_um_pdcp_sn_size_present">>),
    When(On("discard_timer_present"), <<Fld("discard_timer", 3)>>),
    When(On("rlc_am_status_report_required_present"), <<Fld("rlc_am_status_report_required", 1)>>),
    When(On("rlc_um_pdcp_sn_size_present"), <<Fld("rlc_um_pdcp_sn_size", 1)>>),
    Fld("hdr_compression_rohc", 1),
    When(On("hdr_compression_rohc"),
      <<Fld("ext2", 1), Bias("hdr_compression_max_cid", 14, -1),
        Flags(<<"hdr_compression_profile_0001", "hdr_compression_profile_0002",
          "hdr_compression_profile_0003", "hdr_compression_profile_0004",
          "hdr_compression_profile_0006", "hdr_compression_profile_0101",
          "hdr_compression_profile_0102", "hdr_compression_profile_0103",
          "hdr_compression_profile_0104">>),
        Ext("ext2")>>),
    Ext("ext")>>

pack_pdsch_config_common_ie == <<Bias("rs_power", 7, 60), Fld("p_b", 2)>>

unpack_pdsch_config_common_ie == <<Bias("rs_power", 7, 60), Fld("p_b", 2)>>

pack_pdsch_config_dedicated_ie == <<Fld("", 3)>>

unpack_pdsch_config_dedicated_ie == <<Fld("", 3)>>

pack_phich_config_ie == <<Fld("dur", 1), Fld("res", 2)>>

unpack_phich_config_ie == <<Fld("dur", 1), Fld("res", 2)>>

pack_pucch_config_dedicated_ie ==
  <<Flags(<<"tdd_ack_nack_feedback_mode_present", "ack_nack_repetition_setup_present">>),
    When(On("ack_nack_repetition_setup_present"),
      <<Fld("ack_nack_repetition_factor", 2), Fld("ack_nack_repetition_n1_pucch_an", 11)>>),
    When(On("tdd_ack_nack_feedback_mode_present"), <<Fld("tdd_ack_nack_feedback_mode", 1)>>)>>

pack_pusch_config_dedicated_ie ==
  <<Fld("beta_offset_ack_idx", 4), Fld("beta_offset_ri_idx", 4), Fld("beta_offset_cqi_idx", 4)>>

pack_scheduling_request_config_ie ==
  <<Fld("setup_present", 1),
    When(On("setup_present"),
      <<Fld("sr_pucch_resource_idx", 11), Fld("sr_cnfg_idx", 8), Fld("dsr_trans_max", 3)>>)>>

pack_srs_ul_config_dedicated_ie ==
  <<Fld("setup_present", 1),
    When(On("setup_present"),
      <<Fld("srs_bandwidth", 2), Fld("srs_hopping_bandwidth", 2), Fld("freq_domain_pos", 5),
        Fld("duration", 1), Fld("srs_cnfg_idx", 10), Fld("tx_comb", 1), Fld("cyclic_shift", 3)>>)>>

pack_tpc_pdcch_config_ie ==
  <<Fld("setup_present", 1),
    When(On("setup_present"),
      <<Fld("tpc_rnti", 16), Fld("tpc_idx_choice", 1),
        Case(Off("tpc_idx_choice"), <<Bias("tpc_idx", 4, -1)>>, <<Bias("tpc_idx", 5, -1)>>)>>)>>

pack_ul_power_control_dedicated_ie ==
  <<Fld("filter_coeff_present", 1), Bias("p0_ue_pusch", 4, 8), Fld("delta_mcs_en", 1),
    Fld("accumulation_en", 1), Bias("p0_ue_pucch", 4, 8), Fld("p_srs_offset", 4),
    When(On("filter_coeff_present"), <<Sub("filter_coeff", pack_filter_coefficient_ie)>>)>>

pack_physical_config_dedicated_ie ==
  <<Fill(0, 1),
    Flags(<<"pdsch_cnfg_ded_present", "pucch_cnfg_ded_present", "pusch_cnfg_ded_present",
      "ul_pwr_ctrl_ded_present", "tpc_pdcch_cnfg_pucch_present", "tpc_pdcch_cnfg_pusch_present",
      "cqi_report_cnfg_present", "srs_ul_cnfg_ded_present", "antenna_info_present",
      "sched_request_cnfg_present">>),
    When(On("pdsch_cnfg_ded_present"), <<Sub("pdsch_cnfg_ded", pack_pdsch_config_dedicated_ie)>>),
    When(On("pucch_cnfg_ded_present"), <<Sub("pucch_cnfg_ded", pack_pucch_config_dedicated_ie)>>),
    When(On("pusch_cnfg_ded_present"), <<Sub("pusch_cnfg_ded", pack_pusch_config_dedicated_ie)>>),
    When(On("ul_pwr_ctrl_ded_present"),
      <<Sub("ul_pwr_ctrl_ded", pack_ul_power_control_dedicated_ie)>>),
    When(On("tpc_pdcch_cnfg_pucch_present"),
      <<Sub("tpc_pdcch_cnfg_pucch", pack_tpc_pdcch_config_ie)>>),
    When(On("tpc_pdcch_cnfg_pusch_present"),
      <<Sub("tpc_pdcch_cnfg_pusch", pack_tpc_pdcch_config_ie)>>),
    When(On("cqi_report_cnfg_present"), <<Sub("cqi_report_cnfg", pack_cqi_report_config_ie)>>),
    When(On("srs_ul_cnfg_ded_present"), <<Sub("srs_ul_cnfg_ded", pack_srs_ul_config_dedicated_ie)>>),
    When(On("antenna_info_present"),
      <<Fld("antenna_info_default_value", 1),
        When(Off("antenna_info_default_value"),
          <<Sub("antenna_info_explicit_value", pack_antenna_info_dedicated_ie)>>)>>),
    When(On("sched_request_cnfg_present"),
      <<Sub("sched_request_cnfg", pack_scheduling_request_config_ie)>>)>>

unpack_pucch_config_dedicated_ie ==
  <<Flags(<<"tdd_ack_nack_feedback_mode_present", "ack_nack_repetition_setup_present">>),
    When(On("ack_nack_repetition_setup_present"),
      <<Fld("ack_nack_repetition_factor", 2), Fld("ack_nack_repetition_n1_pucch_an", 11)>>),
    When(On("tdd_ack_nack_feedback_mode_present"), <<Fld("tdd_ack_nack_feedback_mode", 1)>>)>>

unpack_pusch_config_dedicated_ie ==
  <<Fld("beta_offset_ack_idx", 4), Fld("beta_offset_ri_idx", 4), Fld("beta_offset_cqi_idx", 4)>>

unpack_scheduling_request_config_ie ==
  <<Fld("setup_present", 1),
    When(On("setup_present"),
      <<Fld("sr_pucch_resource_idx", 11), Fld("sr_cnfg_idx", 8), Fld("dsr_trans_max", 3)>>)>>

unpack_srs_ul_config_dedicated_ie ==
  <<Fld("setup_present", 1),
    When(On("setup_present"),
      <<Fld("srs_bandwidth", 2), Fld("srs_hopping_bandwidth", 2), Fld("freq_domain_pos", 5),
        Fld("duration", 1), Fld("srs_cnfg_idx", 10), Fld("tx_comb", 1), Fld("cyclic_shift", 3)>>)>>

unpack_tpc_pdcch_config_ie ==
  <<Fld("setup_present", 1),
    When(On("setup_present"),
      <<Fld("tpc_rnti", 16), Fld("tpc_idx_choice", 1),
        Case(Off("tpc_idx_choice"), <<Bias("tpc_idx", 4, -1)>>, <<Bias("tpc_idx", 5, -1)>>)>>)>>

unpack_ul_power_control_dedicated_ie ==
  <<Fld("filter_coeff_present", 1), Bias("p0_ue_pusch", 4, 8), Fld("delta_mcs_en", 1),
    Fld("accumulation_en", 1), Bias("p0_ue_pucch", 4, 8), Fld("p_srs_offset", 4),
    When(On("filter_coeff_present"), <<Sub("filter_coeff", unpack_filter_coefficient_ie)>>)>>

unpack_physical_config_dedicated_ie ==
  <<Flags(<<"ext", "pdsch_cnfg_ded_present", "pucch_cnfg_ded_present", "pusch_cnfg_ded_present",
      "ul_pwr_ctrl_ded_present", "tpc_pdcch_cnfg_pucch_present", "tpc_pdcch_cnfg_pusch_present",
      "cqi_report_cnfg_present", "srs_ul_cnfg_ded_present", "antenna_info_present",
      "sched_request_cnfg_present">>),
    When(On("pdsch_cnfg_ded_present"), <<Sub("pdsch_cnfg_ded", unpack_pdsch_config_dedicated_ie)>>),
    When(On("pucch_cnfg_ded_present"), <<Sub("pucch_cnfg_ded", unpack_pucch_config_dedicated_ie)>>),
    When(On("pusch_cnfg_ded_present"), <<Sub("pusch_cnfg_ded", unpack_pusch_config_dedicated_ie)>>),
    When(On("ul_pwr_ctrl_ded_present"),
      <<Sub("ul_pwr_ctrl_ded", unpack_ul_power_control_dedicated_ie)>>),
    When(On("tpc_pdcch_cnfg_pucch_present"),
      <<Sub("tpc_pdcch_cnfg_pucch", unpack_tpc_pdcch_config_ie)>>),
    When(On("tpc_pdcch_cnfg_pusch_present"),
      <<Sub("tpc_pdcch_cnfg_pusch", unpack_tpc_pdcch_config_ie)>>),
    When(On("cqi_report_cnfg_present"), <<Sub("cqi_report_cnfg", unpack_cqi_report_config_ie)>>),
    When(On("srs_ul_cnfg_ded_present"),
      <<Sub("srs_ul_cnfg_ded", unpack_srs_ul_config_dedicated_ie)>>),
    When(On("antenna_info_present"),
      <<Fld("antenna_info_default_value", 1),
        When(Off("antenna_info_default_value"),
          <<Sub("antenna_info_explicit_value", unpack_antenna_info_dedicated_ie)>>)>>),
    When(On("sched_request_cnfg_present"),
      <<Sub("sched_request_cnfg", unpack_scheduling_request_config_ie)>>),
    Ext("ext")>>

pack_p_max_ie == <<Bias("", 6, 30)>>

unpack_p_max_ie == <<Bias("", 6, 30)>>

pack_prach_config_sib_ie ==
  <<Fld("root_sequence_index", 10), Fld("prach_cnfg_info.prach_config_index", 6),
    Fld("prach_cnfg_info.high_speed_flag", 1),
    Fld("prach_cnfg_info.zero_correlation_zone_config", 4),
    Fld("prach_cnfg_info.prach_freq_offset", 7)>>

unpack_prach_config_sib_ie ==
  <<Fld("root_sequence_index", 10), Fld("prach_cnfg_info.prach_config_index", 6),
    Fld("prach_cnfg_info.high_speed_flag", 1),
    Fld("prach_cnfg_info.zero_correlation_zone_config", 4),
    Fld("prach_cnfg_info.prach_freq_offset", 7)>>

pack_prach_config_ie ==
  <<Fld("prach_cnfg_info_present", 1), Fld("root_sequence_index", 10),
    When(On("prach_cnfg_info_present"),
      <<Fld("prach_cnfg_info.prach_config_index", 6), Fld("prach_cnfg_info.high_speed_flag", 1),
        Fld("prach_cnfg_info.zero_correlation_zone_config", 4),
        Fld("prach_cnfg_info.prach_freq_offset", 7)>>)>>

unpack_prach_config_ie ==
  <<Fld("prach_cnfg_info_present", 1), Fld("root_sequence_index", 10),
    When(On("prach_cnfg_info_present"),
      <<Fld("prach_cnfg_info.prach_config_index", 6), Fld("prach_cnfg_info.high_speed_flag", 1),
        Fld("prach_cnfg_info.zero_correlation_zone_config", 4),
        Fld("prach_cnfg_info.prach_freq_offset", 7)>>)>>

pack_prach_config_scell_r10_ie == <<Fld("", 6)>>

unpack_prach_config_scell_r10_ie == <<Fld("", 6)>>

pack_presence_antenna_port_1_ie == <<Fld("", 1)>>

unpack_presence_antenna_port_1_ie == <<Fld("", 1)>>

pack_pucch_config_common_ie ==
  <<Enum("delta_pucch_shift", 2, 3), Fld("n_rb_cqi", 7), Fld("n_cs_an", 3), Fld("n1_pucch_an", 11)>>

unpack_pucch_config_common_ie ==
  <<Enum("delta_pucch_shift", 2, 3), Fld("n_rb_cqi", 7), Fld("n_cs_an", 3), Fld("n1_pucch_an", 11)>>

pack_pusch_config_common_ie ==
  <<Bias("n_sb", 2, -1), Fld("hopping_mode", 1), Fld("pusch_hopping_offset", 7),
    Flags(<<"enable_64_qam", "ul_rs.group_hopping_enabled">>),
    Fld("ul_rs.group_assignment_pusch", 5), Fld("ul_rs.sequence_hopping_enabled", 1),
    Fld("ul_rs.cyclic_shift", 3)>>

unpack_pusch_config_common_ie ==
  <<Bias("n_sb", 2, -1), Fld("hopping_mode", 1), Fld("pusch_hopping_offset", 7),
    Flags(<<"enable_64_qam", "ul_rs.group_hopping_enabled">>),
    Fld("ul_rs.group_assignment_pusch", 5), Fld("ul_rs.sequence_hopping_enabled", 1),
    Fld("ul_rs.cyclic_shift", 3)>>

pack_rach_config_common_ie ==
  <<Fill(0, 1), Fld("preambles_group_a_cnfg.present", 1), Fld("num_ra_preambles", 4),
    When(On("preambles_group_a_cnfg.present"),
      <<Fill(0, 1), Enum("preambles_group_a_cnfg.size_of_ra", 4, 15),
        Fld("preambles_group_a_cnfg.msg_size", 2),
        Fld("preambles_group_a_cnfg.msg_pwr_offset_group_b", 3)>>),
    Fld("pwr_ramping_step", 2), Fld("preamble_init_rx_target_pwr", 4),
    Enum("preamble_trans_max", 4, 11), Fld("ra_resp_win_size", 3), Fld("mac_con_res_timer", 3),
    Bias("max_harq_msg3_tx", 3, -1)>>

unpack_rach_config_common_ie ==
  <<Flags(<<"ext", "preambles_group_a_cnfg.present">>), Fld("num_ra_preambles", 4),
    Case(On("preambles_group_a_cnfg.present"),
      <<Fld("ext2", 1), Enum("preambles_group_a_cnfg.size_of_ra", 4, 15),
        Fld("preambles_group_a_cnfg.msg_size", 2),
        Fld("preambles_group_a_cnfg.msg_pwr_offset_group_b", 3), Ext("ext2")>>,
      <<Copy("preambles_group_a_cnfg.size_of_ra", "num_ra_preambles")>>),
    Fld("pwr_ramping_step", 2), Fld("preamble_init_rx_target_pwr", 4),
    Enum("preamble_trans_max", 4, 11), Fld("ra_resp_win_size", 3), Fld("mac_con_res_timer", 3),
    Bias("max_harq_msg3_tx", 3, -1), Ext("ext")>>

pack_rach_config_dedicated_ie == <<Fld("preamble_index", 6), Fld("prach_mask_index", 4)>>

unpack_rach_config_dedicated_ie == <<Fld("preamble_index", 6), Fld("prach_mask_index", 4)>>

pack_srs_ul_config_common_ie ==
  <<Fld("present", 1),
    When(On("present"),
      <<Fld("max_up_pts_present", 1), Fld("bw_cnfg", 3), Fld("subfr_cnfg", 4),
        Fld("ack_nack_simul_tx", 1), When(On("max_up_pts_present"), <<Fld("max_up_pts", 1)>>)>>)>>

pack_ul_power_control_common_ie ==
  <<Bias("p0_nominal_pusch", 8, 126), Fld("alpha", 3), Bias("p0_nominal_pucch", 5, 127),
    Enum("delta_flist_pucch.format_1", 2, 3), Enum("delta_flist_pucch.format_1b", 2, 3),
    Fld("delta_flist_pucch.format_2", 2), Enum("delta_flist_pucch.format_2a", 2, 3),
    Enum("delta_flist_pucch.format_2b", 2, 3), Scl("delta_preamble_msg3", 3, 0, 2, 1)>>

pack_rr_config_common_sib_ie ==
  <<Fill(0, 1), Sub("rach_cnfg", pack_rach_config_common_ie),
    Fld("bcch_cnfg.modification_period_coeff", 2), Fld("pcch_cnfg.default_paging_cycle", 2),
    Fld("pcch_cnfg.nB", 3), Sub("prach_cnfg", pack_prach_config_sib_ie),
    Sub("pdsch_cnfg", pack_pdsch_config_common_ie), Sub("pusch_cnfg", pack_pusch_config_common_ie),
    Sub("pucch_cnfg", pack_pucch_config_common_ie),
    Sub("srs_ul_cnfg", pack_srs_ul_config_common_ie),
    Sub("ul_pwr_ctrl", pack_ul_power_control_common_ie), Fld("ul_cp_length", 1)>>

unpack_srs_ul_config_common_ie ==
  <<Fld("present", 1),
    When(On("present"),
      <<Fld("max_up_pts_present", 1), Fld("bw_cnfg", 3), Fld("subfr_cnfg", 4),
        Fld("ack_nack_simul_tx", 1), When(On("max_up_pts_present"), <<Fld("max_up_pts", 1)>>)>>)>>

unpack_ul_power_control_common_ie ==
  <<Bias("p0_nominal_pusch", 8, 126), Fld("alpha", 3), Bias("p0_nominal_pucch", 5, 127),
    Enum("delta_flist_pucch.format_1", 2, 3), Enum("delta_flist_pucch.format_1b", 2, 3),
    Fld("delta_flist_pucch.format_2", 2), Enum("delta_flist_pucch.format_2a", 2, 3),
    Enum("delta_flist_pucch.format_2b", 2, 3), Scl("delta_preamble_msg3", 3, 0, 2, 1)>>

unpack_rr_config_common_sib_ie ==
  <<Fld("ext", 1), Sub("rach_cnfg", unpack_rach_config_common_ie),
    Fld("bcch_cnfg.modification_period_coeff", 2), Fld("pcch_cnfg.default_paging_cycle", 2),
    Fld("pcch_cnfg.nB", 3), Sub("prach_cnfg", unpack_prach_config_sib_ie),
    Sub("pdsch_cnfg", unpack_pdsch_config_common_ie),
    Sub("pusch_cnfg", unpack_pusch_config_common_ie),
    Sub("pucch_cnfg", unpack_pucch_config_common_ie),
    Sub("srs_ul_cnfg", unpack_srs_ul_config_common_ie),
    Sub("ul_pwr_ctrl", unpack_ul_power_control_common_ie), Fld("ul_cp_length", 1), Ext("ext")>>

pack_tdd_config_ie == <<Enum("sf_assignment", 3, 7), Enum("special_sf_patterns", 4, 9)>>

pack_rr_config_common_ie ==
  <<Fill(0, 1),
    Flags(<<"rach_cnfg_present", "pdsch_cnfg_present", "phich_cnfg_present", "pucch_cnfg_present",
      "srs_ul_cnfg_present", "ul_pwr_ctrl_present", "ant_info_present", "p_max_present",
      "tdd_cnfg_present">>),
    When(On("rach_cnfg_present"), <<Sub("rach_cnfg", pack_rach_config_common_ie)>>),
    Sub("prach_cnfg", pack_prach_config_ie),
    When(On("pdsch_cnfg_present"), <<Sub("pdsch_cnfg", pack_pdsch_config_common_ie)>>),
    Sub("pusch_cnfg", pack_pusch_config_common_ie),
    When(On("phich_cnfg_present"), <<Sub("phich_cnfg", pack_phich_config_ie)>>),
    When(On("pucch_cnfg_present"), <<Sub("pucch_cnfg", pack_pucch_config_common_ie)>>),
    When(On("srs_ul_cnfg_present"), <<Sub("srs_ul_cnfg", pack_srs_ul_config_common_ie)>>),
    When(On("ant_info_present"), <<Sub("ant_info", pack_antenna_info_common_ie)>>),
    When(On("p_max_present"), <<Sub("p_max", pack_p_max_ie)>>),
    When(On("tdd_cnfg_present"), <<Sub("tdd_cnfg", pack_tdd_config_ie)>>), Fld("ul_cp_length", 1)>>

unpack_tdd_config_ie == <<Enum("sf_assignment", 3, 7), Enum("special_sf_patterns", 4, 9)>>

unpack_rr_config_common_ie ==
  <<Flags(<<"ext", "rach_cnfg_present", "pdsch_cnfg_present", "phich_cnfg_present",
      "pucch_cnfg_present", "srs_ul_cnfg_present", "ul_pwr_ctrl_present", "ant_info_present",
      "p_max_present", "tdd_cnfg_present">>),
    When(On("rach_cnfg_present"), <<Sub("rach_cnfg", unpack_rach_config_common_ie)>>),
    Sub("prach_cnfg", unpack_prach_config_ie),
    When(On("pdsch_cnfg_present"), <<Sub("pdsch_cnfg", unpack_pdsch_config_common_ie)>>),
    Sub("pusch_cnfg", unpack_pusch_config_common_ie),
    When(On("phich_cnfg_present"), <<Sub("phich_cnfg", unpack_phich_config_ie)>>),
    When(On("pucch_cnfg_present"), <<Sub("pucch_cnfg", unpack_pucch_config_common_ie)>>),
    When(On("srs_ul_cnfg_present"), <<Sub("srs_ul_cnfg", unpack_srs_ul_config_common_ie)>>),
    When(On("ant_info_present"), <<Sub("ant_info", unpack_antenna_info_common_ie)>>),
    When(On("p_max_present"), <<Sub("p_max", unpack_p_max_ie)>>),
    When(On("tdd_cnfg_present"), <<Sub("tdd_cnfg", unpack_tdd_config_ie)>>),
    Fld("ul_cp_length", 1), Ext("ext")>>

pack_rlc_config_ie ==
  <<Fill(0, 1), Fld("rlc_mode", 2),
    Switch("rlc_mode",
      <<Arm({0},
          <<Fld("ul_am_rlc.t_poll_retx", 6), Fld("ul_am_rlc.poll_pdu", 3),
            Fld("ul_am_rlc.poll_byte", 4), Fld("ul_am_rlc.max_retx_thresh", 3),
            Fld("dl_am_rlc.t_reordering", 5), Fld("dl_am_rlc.t_status_prohibit", 6)>>),
        Arm({1},
          <<Fld("ul_um_bi_rlc.sn_field_len", 1), Fld("dl_um_bi_rlc.sn_field_len", 1),
            Fld("dl_um_bi_rlc.t_reordering", 5)>>),
        Arm({2}, <<Fld("ul_um_uni_rlc.sn_field_len", 1)>>)>>,
      <<Fld("dl_um_uni_rlc.sn_field_len", 1), Fld("dl_um_uni_rlc.t_reordering", 5)>>)>>

pack_rlf_timers_and_constants_ie ==
  <<Fill(1, 1), Fill(0, 1), Fld("t301", 3), Enum("t310", 3, 7), Fld("n310", 3), Enum("t311", 3, 7),
    Fld("n311", 3)>>

pack_sps_config_ie ==
  <<Flags(<<"sps_c_rnti_present", "sps_cnfg_dl_present", "sps_cnfg_ul_present">>),
    When(On("sps_c_rnti_present"), <<Sub("sps_c_rnti", pack_c_rnti_ie)>>),
    When(On("sps_cnfg_dl_present"),
      <<Fld("sps_cnfg_dl.setup_present", 1),
        When(On("sps_cnfg_dl.setup_present"),
          <<Fill(0, 1), Fld("sps_cnfg_dl.sps_interval_dl", 4),
            Bias("sps_cnfg_dl.N_sps_processes", 3, -1),
            Cnt("sps_cnfg_dl.n1_pucch_an_persistent_list_size", 2, -1),
            Each("sps_cnfg_dl.n1_pucch_an_persistent_list_size", "sps_cnfg_dl.n1_pucch_an_persistent_list",
              <<Fld("", 11)>>)>>)>>),
    When(On("sps_cnfg_ul_present"),
      <<Fld("sps_cnfg_ul.setup_present", 1),
        When(On("sps_cnfg_ul.setup_present"),
          <<Fill(0, 1),
            Flags(<<"sps_cnfg_ul.p0_persistent_present", "sps_cnfg_ul.two_intervals_cnfg_present">>),
            Fld("sps_cnfg_ul.sps_interval_ul", 4), Fld("sps_cnfg_ul.implicit_release_after", 2),
            When(On("sps_cnfg_ul.p0_persistent_present"),
              <<Bias("sps_cnfg_ul.p0_nominal_pusch", 8, 126),
                Bias("sps_cnfg_ul.p0_ue_pusch", 4, 8)>>),
            When(On("sps_cnfg_ul.two_intervals_cnfg_present"),
              <<Enum("sps_cnfg_ul.two_intervals_cnfg", 1, 1)>>)>>)>>)>>

pack_rr_config_dedicated_ie ==
  <<Fld("rlf_timers_and_constants_present", 1), Opt(Some("srb_to_add_mod_list_size")),
    Opt(Some("drb_to_add_mod_list_size")), Opt(Some("drb_to_release_list_size")),
    Flags(<<"mac_main_cnfg_present", "sps_cnfg_present", "phy_cnfg_ded_present">>),
    When(On("srb_to_add_mod_list_size"), <<Cnt("srb_to_add_mod_list_size", 1, -1)>>),
    Each("srb_to_add_mod_list_size", "srb_to_add_mod_list",
      <<Fill(0, 1), Flags(<<"rlc_cnfg_present", "lc_cnfg_present">>), Bias("srb_id", 1, -1),
        When(On("rlc_cnfg_present"),
          <<Fld("rlc_default_cnfg_present", 1),
            When(Off("rlc_default_cnfg_present"), <<Sub("rlc_explicit_cnfg", pack_rlc_config_ie)>>)>>),
        When(On("lc_cnfg_present"),
          <<Fld("lc_default_cnfg_present", 1),
            When(Off("lc_default_cnfg_present"),
              <<Sub("lc_explicit_cnfg", pack_logical_channel_config_ie)>>)>>)>>),
    When(On("drb_to_add_mod_list_size"), <<Cnt("drb_to_add_mod_list_size", 4, -1)>>),
    Each("drb_to_add_mod_list_size", "drb_to_add_mod_list",
      <<Fill(0, 1),
        Flags(<<"eps_bearer_id_present", "pdcp_cnfg_present", "rlc_cnfg_present", "lc_id_present",
          "lc_cnfg_present">>),
        When(On("eps_bearer_id_present"), <<Fld("eps_bearer_id", 4)>>),
        Sub("drb_id", pack_drb_identity_ie),
        When(On("pdcp_cnfg_present"), <<Sub("pdcp_cnfg", pack_pdcp_config_ie)>>),
        When(On("rlc_cnfg_present"), <<Sub("rlc_cnfg", pack_rlc_config_ie)>>),
        When(On("lc_id_present"), <<Bias("lc_id", 3, -3)>>),
        When(On("lc_cnfg_present"), <<Sub("lc_cnfg", pack_logical_channel_config_ie)>>)>>),
    When(On("drb_to_release_list_size"), <<Cnt("drb_to_release_list_size", 4, -1)>>),
    Each("drb_to_release_list_size", "drb_to_release_list", <<Sub("", pack_drb_identity_ie)>>),
    When(On("mac_main_cnfg_present"),
      <<Fld("mac_main_cnfg.default_value", 1),
        When(Off("mac_main_cnfg.default_value"),
          <<Sub("mac_main_cnfg.explicit_value", pack_mac_main_config_ie)>>)>>),
    When(On("sps_cnfg_present"), <<Sub("sps_cnfg", pack_sps_config_ie)>>),
    When(On("phy_cnfg_ded_present"), <<Sub("phy_cnfg_ded", pack_physical_config_dedicated_ie)>>),
    Fld("rlf_timers_and_constants_present", 1),
    When(On("rlf_timers_and_constants_present"),
      <<Sub("rlf_timers_and_constants", pack_rlf_timers_and_constants_ie)>>)>>

unpack_rlc_config_ie ==
  <<Fld("ext", 1), Fld("rlc_mode", 2),
    Switch("rlc_mode",
      <<Arm({0},
          <<Fld("ul_am_rlc.t_poll_retx", 6), Fld("ul_am_rlc.poll_pdu", 3),
            Fld("ul_am_rlc.poll_byte", 4), Fld("ul_am_rlc.max_retx_thresh", 3),
            Fld("dl_am_rlc.t_reordering", 5), Fld("dl_am_rlc.t_status_prohibit", 6)>>),
        Arm({1},
          <<Fld("ul_um_bi_rlc.sn_field_len", 1), Fld("dl_um_bi_rlc.sn_field_len", 1),
            Fld("dl_um_bi_rlc.t_reordering", 5)>>),
        Arm({2}, <<Fld("ul_um_uni_rlc.sn_field_len", 1)>>)>>,
      <<Fld("dl_um_uni_rlc.sn_field_len", 1), Fld("dl_um_uni_rlc.t_reordering", 5)>>),
    Ext("ext")>>

unpack_sps_config_ie ==
  <<Flags(<<"sps_c_rnti_present", "sps_cnfg_dl_present", "sps_cnfg_ul_present">>),
    When(On("sps_c_rnti_present"), <<Sub("sps_c_rnti", unpack_c_rnti_ie)>>),
    When(On("sps_cnfg_dl_present"),
      <<Fld("sps_cnfg_dl.setup_present", 1),
        When(On("sps_cnfg_dl.setup_present"),
          <<Fld("ext", 1), Fld("sps_cnfg_dl.sps_interval_dl", 4),
            Bias("sps_cnfg_dl.N_sps_processes", 3, -1),
            Cnt("sps_cnfg_dl.n1_pucch_an_persistent_list_size", 2, -1),
            Each("sps_cnfg_dl.n1_pucch_an_persistent_list_size", "sps_cnfg_dl.n1_pucch_an_persistent_list",
              <<Fld("", 11)>>),
            Ext("ext")>>)>>),
    When(On("sps_cnfg_ul_present"),
      <<Fld("sps_cnfg_ul.setup_present", 1),
        When(On("sps_cnfg_ul.setup_present"),
          <<Flags(<<"ext", "sps_cnfg_ul.p0_persistent_present",
              "sps_cnfg_ul.two_intervals_cnfg_present">>),
            Fld("sps_cnfg_ul.sps_interval_ul", 4), Fld("sps_cnfg_ul.implicit_release_after", 2),
            When(On("sps_cnfg_ul.p0_persistent_present"),
              <<Bias("sps_cnfg_ul.p0_nominal_pusch", 8, 126),
                Bias("sps_cnfg_ul.p0_ue_pusch", 4, 8)>>),
            When(On("sps_cnfg_ul.two_intervals_cnfg_present"),
              <<Enum("sps_cnfg_ul.two_intervals_cnfg", 1, 1)>>),
            Ext("ext")>>)>>)>>

unpack_rr_config_dedicated_ie ==
  <<Flags(<<"ext", "srb_to_add_mod_list_present", "drb_to_add_mod_list_present",
      "drb_to_release_list_present", "mac_main_cnfg_present", "sps_cnfg_present",
      "phy_cnfg_ded_present">>),
    When(On("srb_to_add_mod_list_present"),
      <<Cnt("srb_to_add_mod_list_size", 1, -1),
        Each("srb_to_add_mod_list_size", "srb_to_add_mod_list",
          <<Flags(<<"srb_ext", "rlc_cnfg_present", "lc_cnfg_present">>), Bias("srb_id", 1, -1),
            When(On("rlc_cnfg_present"),
              <<Fld("rlc_default_cnfg_present", 1),
                When(Off("rlc_default_cnfg_present"),
                  <<Sub("rlc_explicit_cnfg", unpack_rlc_config_ie)>>)>>),
            When(On("lc_cnfg_present"),
              <<Fld("lc_default_cnfg_present", 1),
                When(Off("lc_default_cnfg_present"),
                  <<Sub("lc_explicit_cnfg", unpack_logical_channel_config_ie)>>)>>),
            Ext("srb_ext")>>)>>),
    When(On("drb_to_add_mod_list_present"),
      <<Cnt("drb_to_add_mod_list_size", 4, -1),
        Each("drb_to_add_mod_list_size", "drb_to_add_mod_list",
          <<Flags(<<"drb_ext", "eps_bearer_id_present", "pdcp_cnfg_present", "rlc_cnfg_present",
              "lc_id_present", "lc_cnfg_present">>),
            When(On("eps_bearer_id_present"), <<Fld("eps_bearer_id", 4)>>),
            Sub("drb_id", unpack_drb_identity_ie),
            When(On("pdcp_cnfg_present"), <<Sub("pdcp_cnfg", unpack_pdcp_config_ie)>>),
            When(On("rlc_cnfg_present"), <<Sub("rlc_cnfg", unpack_rlc_config_ie)>>),
            When(On("lc_id_present"), <<Bias("lc_id", 3, -3)>>),
            When(On("lc_cnfg_present"), <<Sub("lc_cnfg", unpack_logical_channel_config_ie)>>),
            Ext("drb_ext")>>)>>),
    When(On("drb_to_release_list_present"),
      <<Cnt("drb_to_release_list_size", 4, -1),
        Each("drb_to_release_list_size", "drb_to_release_list", <<Sub("", unpack_drb_identity_ie)>>)>>),
    When(On("mac_main_cnfg_present"),
      <<Fld("mac_main_cnfg.default_value", 1),
        When(Off("mac_main_cnfg.default_value"),
          <<Sub("mac_main_cnfg.explicit_value", unpack_mac_main_config_ie)>>)>>),
    When(On("sps_cnfg_present"), <<Sub("sps_cnfg", unpack_sps_config_ie)>>),
    When(On("phy_cnfg_ded_present"), <<Sub("phy_cnfg_ded", unpack_physical_config_dedicated_ie)>>),
    Ext("ext")>>

unpack_rlf_timers_and_constants_ie ==
  <<Skip(1), Skip(1), Fld("t301", 3), Enum("t310", 3, 7), Fld("n310", 3), Enum("t311", 3, 7),
    Fld("n311", 3)>>

pack_ul_antenna_info_ie == <<Fill(0, 1), Fld("ul_tx_mode", 3), Fld("four_ant_port_activated", 1)>>

unpack_ul_antenna_info_ie ==
  <<Fld("ext", 1), Fld("ul_tx_mode", 3), Fld("four_ant_port_activated", 1), Ext("ext")>>

============================================================================
